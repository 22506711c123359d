------------------------------- MODULE Spawn -------------------------------
(***************************************************************************)
(* One spawn from the call to the handle or the error, on every backend,   *)
(* with what it has to leave behind when a step of it fails.               *)
(*                                                                         *)
(*   src/src/child/spawn.rs, src/src/tokio/spawn.rs                        *)
(*   src/src/child/spawn/windows_raw.rs, src/src/tokio/spawn/windows_raw.rs*)
(*   src/src/containment/dispatch.rs, src/src/containment/cgroup.rs        *)
(*   src/src/containment/windows.rs, src/src/containment/fdmarker.rs       *)
(*   src/src/command/flags.rs, src/src/tokio/child.rs                      *)
(*   src/src/elevation/posix.rs, src/src/elevation/windows.rs              *)
(*                                                                         *)
(* A backend is the sequence of steps it takes: todo[c] is what the call   *)
(* still has to do, and an error keeps of it only the cleanup. Meanwhile   *)
(* other threads spawn, and the root runs, forks a descendant and exits.   *)
(***************************************************************************)
EXTENDS Elevation, FiniteSetsExt, Sequences

CONSTANT Settings   \* host, nested, faults, and the command of each thread

Fault == {"runtime", "exec", "mark", "forbidden", "leaf", "place", "unreadable", "marker",
          "assign", "resume", "denied", "adopt", "partial", "deaf"}

(* What the builder can hold ahead of a spawn. Of the creation flags only  *)
(* no_window has a setter off Windows, and only a rewrite wraps a command. *)
Configured(k, os) ==
  /\ DOMAIN k = {"api", "exe", "fds", "mode", "flags", "input", "elevate", "backend", "auth",
                 "env", "policy", "traits", "wrapper", "suppressed"}
  /\ k.api \in {"sync", "async"} /\ k.exe \in BOOLEAN /\ k.elevate \in BOOLEAN
  /\ Redirections(k.fds)
  /\ k.mode \in {"none", "strongest", "session", "walk"}
  /\ os # "windows" => k.flags \subseteq {"no_window"}
  /\ k.backend \in Backend /\ k.auth \in Auth
  /\ k.wrapper = "none" /\ k.suppressed = FALSE

Machine == [os : {"linux", "macos", "windows"}, elevated : BOOLEAN, tty : BOOLEAN,
            avail : SUBSET {"sudo", "doas", "pkexec", "run0", "osascript"}]

ASSUME SpawnAssumption ==
  \A s \in Settings :
    /\ s.host \in Machine /\ s.nested \in BOOLEAN /\ s.faults \subseteq Fault
    /\ "free" \notin DOMAIN s.cmd
    /\ \A c \in DOMAIN s.cmd : Configured(s.cmd[c], s.host.os)

VARIABLES setting,   \* the deployment
          cmd,       \* the command being spawned: the derived one once rewritten
          todo,      \* the steps each call has left
          lock,      \* spawn_lock: the call inside it, or free
          own,       \* what each call holds of the process: ends, marker, leaf
          child,     \* what it started: the root and a descendant of it
          wiring,    \* the descriptors it resolved
          outcome    \* its result, and the containment it reports

vars == <<setting, cmd, todo, lock, own, child, wiring, outcome>>

Calls == DOMAIN setting.cmd
host == setting.host
Windows == host.os = "windows"
Can(f) == f \in setting.faults

-----------------------------------------------------------------------------
(* The programs.                                                           *)

(* Mutant: the rule is read after the take, which emptied the map.         *)
routes_after_take(k) == k.exe

routes_to_raw_backend(k) == k.exe \/ High(k.fds) # {}

Raw(k) == Windows /\ routes_to_raw_backend(k)
SyncStd(k) == k.api = "sync" /\ ~ Raw(k)

IsRoot(k) == k.mode # "none" /\ ~ setting.nested

(* windows_contain_setup: a suspended root, whose job is assigned later.   *)
JobRoot(k) == Windows /\ IsRoot(k) /\ k.mode # "walk"

Prelude(k) == CASE Raw(k) -> <<"build", "prepare", "resolve">>
                [] host.os = "macos" -> <<"build", "resolve">>
                [] OTHER -> <<"build", "resolve", "prepare">>

(* Mutant: the guard is released before the ends close, and on macOS is    *)
(* taken only once the marker is made.                                     *)
NarrowLock ==
  CASE Windows -> <<"lock", "mark", "create", "unlock", "close">>
    [] host.os = "macos" -> <<"prepare", "lock", "fence", "create", "release", "unlock">>
    [] OTHER -> <<"lock", "create", "unlock">>

(* What happens under spawn_lock.                                          *)
Locked ==
  CASE Windows -> <<"lock", "mark", "create", "close", "unlock">>
    [] host.os = "macos" -> <<"lock", "prepare", "fence", "create", "release", "unlock">>
    [] OTHER -> <<"lock", "create", "unlock">>

(* Mutant: the root runs before it is in the job.                          *)
ResumedFirst == <<"resume", "assign">>

(* attach_job.                                                             *)
JobSteps == <<"assign", "resume">>

Attaching(k) == (IF JobRoot(k) THEN JobSteps ELSE <<>>) \o <<"attach">>

(* tokio's child is identified before it is attached.                      *)
Adopting(k) == CASE SyncStd(k) -> Attaching(k) \o <<"identify", "adopt">>
                 [] Raw(k) -> Attaching(k) \o <<"identify">>
                 [] OTHER -> <<"identify">> \o Attaching(k)

Delivery(k) == IF k.wrapper = "sudo" /\ k.auth = "stdin" THEN <<"password">> ELSE <<>>

Program(k) == Prelude(k) \o Locked \o Adopting(k) \o Delivery(k) \o <<"drop">>

Start(k) == (IF k.api = "async" THEN <<"runtime">> ELSE <<>>)
              \o IF k.elevate THEN <<"elevate", "drop">> ELSE Program(k)

(* Mutant: the failed child is left to itself.                             *)
NoKill(k) == <<"drop">>

(* A child that was started and cannot be handed over: killed and reaped.  *)
Teardown(k) == IF SyncStd(k) THEN <<"kill", "wait", "drop">> ELSE <<"kill", "reap", "drop">>

(* pre_exec hooks run in the order they were registered in.                *)
(* Mutant: command-fds registered first.                                   *)
HooksSwapped == <<"dup2", "place">>
Hooks == <<"place", "dup2">>

-----------------------------------------------------------------------------
(* States.                                                                 *)

Report == {"None", "Delegated", "CgroupV2", "ProcessGroup", "Session", "FdMarker",
           "TreeWalk", "JobObject"}
Result == {"pending", "ok", "Io", "Containment", "Unassessable", "AuthFailed",
           "AuthDeclined", "Untracked"} \cup Refusal
Group == {"leaf", "job", "group", "session", "marker", "ancestor"}

TypeOK ==
  /\ setting.faults \subseteq Fault
  /\ DOMAIN cmd = Calls /\ DOMAIN todo = Calls
  /\ \A c \in Calls : lock = c <=> "unlock" \in Range(todo[c]) /\ "lock" \notin Range(todo[c])
  /\ own \in [Calls -> [ends : {"none", "open", "marked", "closed"},
                        marker : {"none", "bare", "fenced", "closed"},
                        leaf : {"none", "made", "removed", "forgotten", "busy"},
                        cleared : BOOLEAN]]
  /\ child \in [Calls -> [root : {"none", "suspended", "live", "doomed", "zombie", "reaped"},
                          kid : {"none", "live", "killed"},
                          rootIn : SUBSET Group, kidIn : SUBSET Group, holds : SUBSET Calls]]
  /\ DOMAIN wiring = Calls
  /\ \A c \in Calls : DOMAIN wiring[c] = {"ok", "child", "parent"} /\ wiring[c].ok \in BOOLEAN
  /\ outcome \in [Calls -> [result : Result, report : Report \cup {"none"}, excused : BOOLEAN]]

Init ==
  /\ setting \in Settings
  /\ cmd = setting.cmd
  /\ todo = [c \in Calls |-> Start(cmd[c])]
  /\ lock = "free"
  /\ own = [c \in Calls |-> [ends |-> "none", marker |-> "none", leaf |-> "none",
                             cleared |-> FALSE]]
  /\ child = [c \in Calls |-> [root |-> "none", kid |-> "none", rootIn |-> {},
                               kidIn |-> {}, holds |-> {}]]
  /\ wiring = [c \in Calls |-> Refused]
  /\ outcome = [c \in Calls |-> [result |-> "pending", report |-> "none", excused |-> FALSE]]

At(c, step) == todo[c] # <<>> /\ Head(todo[c]) = step
Goto(c, rest) == todo' = [todo EXCEPT ![c] = rest]
Advance(c) == Goto(c, Tail(todo[c])) /\ UNCHANGED outcome
Fail(c, e, rest) == /\ outcome' = [outcome EXCEPT ![c].result = e]
                    /\ Goto(c, rest)
Reports(c, r) == /\ outcome' = [outcome EXCEPT ![c].report = r]
                 /\ Goto(c, Tail(todo[c]))

(* Mutant: an early return inside the lock forgets it.                     *)
Forgets(c) == <<"drop">>

(* The locals an early return drops inside the lock. The raw backends and  *)
(* std's own Windows spawn close their handles first, then the guard goes. *)
Unwound(c) == IF Windows THEN <<"close", "unlock", "drop">> ELSE <<"unlock", "drop">>

HostOnly == <<setting, cmd, lock, wiring>>

-----------------------------------------------------------------------------
(* Ahead of the process.                                                   *)

Runtime(c) == /\ At(c, "runtime")
              /\ \/ Advance(c)
                 \/ Can("runtime") /\ Fail(c, "Io", <<"drop">>)
              /\ UNCHANGED <<HostOnly, own, child>>

RefuseElevation(c) == /\ At(c, "elevate")
                      /\ Verdict(cmd[c], host) \in Refusal
                      /\ Fail(c, Verdict(cmd[c], host), <<"drop">>)
                      /\ UNCHANGED <<HostOnly, own, child>>

(* The derived command is spawned in its place, whoever wraps it. Windows  *)
(* has nothing to rewrite for a caller that is elevated already.           *)
Rewrite(c) ==
  LET derived == IF Windows THEN [cmd[c] EXCEPT !.elevate = FALSE] ELSE Derived(cmd[c], host)
  IN /\ At(c, "elevate")
     /\ Verdict(cmd[c], host) \in {"run_as_is", "wrap", "osascript"}
     /\ cmd' = [cmd EXCEPT ![c] = derived]
     /\ Goto(c, Program(derived))
     /\ UNCHANGED <<setting, lock, own, child, wiring, outcome>>

Started(c, s) == child' = [child EXCEPT ![c].root = s]

(* launch_runas: the consent may fail or be declined, and a child without  *)
(* an identity is terminated, where that is allowed.                       *)
LaunchRunas(c) ==
  /\ At(c, "elevate") /\ Verdict(cmd[c], host) = "uac"
  /\ \/ /\ \E e \in {"AuthFailed", "AuthDeclined"} : Fail(c, e, <<"drop">>)
        /\ UNCHANGED child
     \/ Reports(c, "None") /\ Started(c, "live")
     \/ /\ Can("denied")
        /\ \/ Fail(c, "Untracked", <<"drop">>) /\ Started(c, "doomed")
           \/ /\ Can("deaf") /\ Started(c, "live") /\ Goto(c, <<"drop">>)
              /\ outcome' = [outcome EXCEPT ![c].result = "Untracked", ![c].excused = TRUE]
  /\ UNCHANGED <<HostOnly, own>>

(* build_std_command; reject_batch_program and raw_program_and_line.       *)
NoProgram(k) == k.input = "empty" /\ ~ (Raw(k) /\ k.exe)

Build(c) == /\ At(c, "build")
            /\ CASE cmd[c].input = "batch" -> Fail(c, "Unsupported", <<"drop">>)
                 [] NoProgram(cmd[c]) -> Fail(c, "Io", <<"drop">>)
                 [] OTHER -> \/ Advance(c)
                             \/ /\ Raw(cmd[c]) /\ cmd[c].exe /\ Can("exec")
                                /\ Fail(c, "Io", <<"drop">>)
            /\ UNCHANGED <<HostOnly, own, child>>

Wiring(k) ==
  IF k.api = "sync"
  THEN IF Windows /\ ~ Raw(k) THEN SyncStdWiring(k.fds) ELSE SyncWiring(k.fds)
  ELSE IF Raw(k) THEN resolve_raw_ends(k.fds)
                 ELSE AsyncWiring(k.fds, IF Windows THEN {} ELSE High(k.fds))

ResolveEnds(c) ==
  LET k == cmd[c]
      w == IF Raw(k) /\ ~ ensure_fd_table_fits(k.fds) THEN Refused ELSE Wiring(k)
  IN /\ At(c, "resolve")
     /\ wiring' = [wiring EXCEPT ![c] = w]
     /\ own' = [own EXCEPT ![c].ends = "open"]
     /\ IF w.ok THEN Advance(c) ELSE Fail(c, "Unsupported", <<"drop">>)
     /\ UNCHANGED <<setting, cmd, lock, child>>

(* windows_spawn: the flag word is composed before anything is touched.    *)
FlagsRefused(k) == /\ Windows
                   /\ "reserved" \in k.flags \/ ("breakaway" \in k.flags /\ k.mode # "none")

(* Mutant: the std handles are cleared on the way to composing the word.   *)
ClearedFirst(c) == IF Windows THEN [own EXCEPT ![c].cleared = TRUE] ELSE own

RefusedOwn(c) == own

PrepareRefused(c) == /\ At(c, "prepare") /\ FlagsRefused(cmd[c])
                     /\ own' = RefusedOwn(c)
                     /\ Fail(c, "Unsupported", <<"drop">>)
                     /\ UNCHANGED <<HostOnly, child>>

(* try_create_leaf gives up on any error, and forgets the directory when   *)
(* cgroup.procs cannot be opened.                                          *)
Leaves(k) == IF host.os = "linux" /\ IsRoot(k) /\ k.mode = "strongest"
             THEN {"made"} \cup IF Can("leaf") THEN {"none", "forgotten"} ELSE {}
             ELSE {"none"}

(* install: std's pipe is made without CLOEXEC on macOS, and given it next.*)
marker_wanted(k) == host.os = "macos" /\ IsRoot(k) /\ ~ k.suppressed
Markers(k) == IF marker_wanted(k) THEN {"bare"} \cup IF Can("marker") THEN {"none"} ELSE {}
                                  ELSE {"none"}

Prepare(c) ==
  /\ At(c, "prepare") /\ ~ FlagsRefused(cmd[c])
  /\ \E l \in Leaves(cmd[c]), m \in Markers(cmd[c]) :
       own' = [own EXCEPT ![c].leaf = l, ![c].marker = m,
                          ![c].cleared = Windows /\ cmd[c].mode # "none"]
  /\ Advance(c)
  /\ UNCHANGED <<HostOnly, child>>

Fence(c) == /\ At(c, "fence")
            /\ own' = [own EXCEPT ![c].marker = IF @ = "bare" THEN "fenced" ELSE @]
            /\ Advance(c)
            /\ UNCHANGED <<HostOnly, child>>

-----------------------------------------------------------------------------
(* Under the lock.                                                         *)

Lock(c) == /\ At(c, "lock") /\ lock = "free"
           /\ lock' = c
           /\ Advance(c)
           /\ UNCHANGED <<setting, cmd, own, child, wiring>>

Unlock(c) == /\ At(c, "unlock")
             /\ lock' = "free"
             /\ Advance(c)
             /\ UNCHANGED <<setting, cmd, own, child, wiring>>

(* set_inherit by the raw backends, and std's inheritable duplicates.      *)
Mark(c) == /\ At(c, "mark")
           /\ own' = [own EXCEPT ![c].ends = "marked"]
           /\ \/ Advance(c)
              \/ Can("mark") /\ Fail(c, "Io", Unwound(c))
           /\ UNCHANGED <<HostOnly, child>>

(* CreateProcessW resolves the breakaway before the image; a wrapper that  *)
(* cannot be run is told from a directory that does not exist.             *)
CreateErrors(k) ==
  (IF "breakaway" \in k.flags /\ Can("forbidden") THEN {"Containment"} ELSE {})
  \cup (IF Can("exec") THEN IF k.wrapper = "none" THEN {"Io"} ELSE {"Io", "BackendUnavailable"}
                       ELSE {})

CreateFails(c) == /\ At(c, "create")
                  /\ \E e \in CreateErrors(cmd[c]) : Fail(c, e, Unwound(c))
                  /\ UNCHANGED <<HostOnly, own, child>>

(* Mutant: only the floor, above what scripts use by convention.           *)
FloorOnly(fds) == 64

(* safe_marker_fd: above the floor and every descriptor of the caller.     *)
safe_marker_fd(fds) == Max({64} \cup {s + 1 : s \in High(fds)})

(* sudo, doas, pkexec and run0 close what is above 2 on their way.         *)
MarkerSurvives(c) == /\ own[c].marker # "none" /\ cmd[c].wrapper \in {"none", "osascript"}
                     /\ safe_marker_fd(cmd[c].fds) \notin High(cmd[c].fds)

(* The number of the cgroup.procs descriptor may be one of the caller's.   *)
Clobbered(c) == Head(Hooks) = "dup2" /\ own[c].leaf = "made" /\ High(cmd[c].fds) # {}

Placements(c) == IF own[c].leaf # "made" \/ Clobbered(c) THEN {FALSE}
                 ELSE {TRUE} \cup IF Can("place") THEN {FALSE} ELSE {}

Posix(k, mode, g) == IF ~ Windows /\ IsRoot(k) /\ k.mode = mode THEN {g} ELSE {}

Joins(c, placed) ==
  (IF setting.nested /\ "breakaway" \notin cmd[c].flags THEN {"ancestor"} ELSE {})
  \cup Posix(cmd[c], "strongest", "group") \cup Posix(cmd[c], "session", "session")
  \cup (IF placed THEN {"leaf"} ELSE {})
  \cup (IF MarkerSurvives(c) THEN {"marker"} ELSE {})

(* The raw backends name what is inherited in a HANDLE_LIST.               *)
Inherits(c) ==
  CASE Windows -> IF Raw(cmd[c]) THEN {} ELSE {d \in Calls \ {c} : own[d].ends = "marked"}
    [] host.os = "macos" -> {d \in Calls \ {c} : own[d].marker = "bare"}
    [] OTHER -> {}

Create(c) ==
  /\ At(c, "create") /\ "Containment" \notin CreateErrors(cmd[c])
  /\ \E placed \in Placements(c) :
       child' = [child EXCEPT ![c].root = IF JobRoot(cmd[c]) THEN "suspended" ELSE "live",
                              ![c].rootIn = Joins(c, placed), ![c].holds = Inherits(c)]
  /\ wiring' = [wiring EXCEPT ![c].child = IF Clobbered(c) THEN Restrict(@, Std) ELSE @]
  /\ Advance(c)
  /\ UNCHANGED <<setting, cmd, lock, own>>

(* The raw backends drop the ends, std only the duplicates it made.        *)
Close(c) == /\ At(c, "close")
            /\ own' = [own EXCEPT ![c].ends = IF Raw(cmd[c]) THEN "closed" ELSE "open"]
            /\ Advance(c)
            /\ UNCHANGED <<HostOnly, child>>

Shut(s) == IF s = "none" THEN s ELSE "closed"

(* drop(std_cmd), and the marker's write end with it.                      *)
Release(c) == /\ At(c, "release")
              /\ own' = [own EXCEPT ![c].ends = "closed", ![c].marker = Shut(@)]
              /\ Advance(c)
              /\ UNCHANGED <<HostOnly, child>>

-----------------------------------------------------------------------------
(* The process was started.                                                *)

Running(c) == child[c].root \in {"suspended", "live"}

(* SIGKILL or TerminateProcess, to the root and the descendant in g.       *)
KilledIn(k, g) ==
  [k EXCEPT !.root = IF g \in k.rootIn /\ @ \in {"suspended", "live"} THEN "doomed" ELSE @,
            !.kid = IF g \in k.kidIn /\ @ = "live" THEN "killed" ELSE @]

(* No running member: a zombie is not listed in cgroup.procs either.       *)
Vacant(c) == /\ ~ (child[c].root \in {"live", "doomed"} /\ "leaf" \in child[c].rootIn)
             /\ ~ (child[c].kid = "live" /\ "leaf" \in child[c].kidIn)

(* Mutant: the leaf is left to the teardown of its slice.                  *)
LeftToSlice(c) == {"busy"}

(* CgroupLeaf::drop: rmdir, and where that fails cgroup.kill and a retry,  *)
(* refused in its turn while the killed tasks are not reaped. Nobody is    *)
(* killed in a vacant leaf.                                                *)
Rmdir(c) == {"removed"} \cup IF Vacant(c) THEN {} ELSE {"busy"}

DropLeaf(c) == /\ \E l \in Rmdir(c) : own' = [own EXCEPT ![c].leaf = l]
               /\ child' = [child EXCEPT ![c] = KilledIn(@, "leaf")]

(* attach_tree, but for the leaf's fallback. A walk needs its root's       *)
(* identity; a marker does without, and the job was assigned or was not.   *)
Mechanism(c) ==
  LET k == cmd[c]
  IN IF k.mode = "none" THEN "None"
     ELSE IF setting.nested THEN "Delegated"
     ELSE IF own[c].marker # "none" THEN "FdMarker"
     ELSE IF JobRoot(k) THEN IF "job" \in child[c].rootIn THEN "JobObject" ELSE "TreeWalk"
     ELSE CASE k.mode = "walk" -> "TreeWalk"
            [] k.mode = "session" -> "Session"
            [] k.mode = "strongest" -> IF own[c].leaf = "made" THEN "CgroupV2" ELSE "ProcessGroup"

Listed(c) == child[c].root \in {"live", "doomed"} /\ "leaf" \in child[c].rootIn

Attach(c) == /\ At(c, "attach")
             /\ Mechanism(c) = "CgroupV2" => Listed(c)
             /\ \/ Reports(c, Mechanism(c))
                \/ /\ Mechanism(c) = "TreeWalk" /\ Can("denied")
                   /\ Fail(c, "Unassessable", Teardown(cmd[c]))
             /\ UNCHANGED <<HostOnly, own, child>>

(* contains_pid is false of a root that was not placed, that exited, or    *)
(* whose list could not be read: the leaf is dropped.                      *)
AttachUnlisted(c) == /\ At(c, "attach") /\ Mechanism(c) = "CgroupV2"
                     /\ ~ Listed(c) \/ Can("unreadable")
                     /\ DropLeaf(c)
                     /\ Reports(c, "ProcessGroup")
                     /\ UNCHANGED HostOnly

Assign(c) == /\ At(c, "assign")
             /\ \/ Running(c) /\ child' = [child EXCEPT ![c].rootIn = @ \cup {"job"}]
                \/ (Can("assign") \/ ~ Running(c)) /\ UNCHANGED child
             /\ Advance(c)
             /\ UNCHANGED <<HostOnly, own>>

(* Resumed whatever became of the assignment: a frozen child is an error,  *)
(* and is killed by its job where it has one.                              *)
Resume(c) == /\ At(c, "resume")
             /\ \/ Started(c, "live") /\ Advance(c)
                \/ /\ Can("resume")
                   /\ child' = [child EXCEPT ![c] = KilledIn(@, "job")]
                   /\ Fail(c, "Containment", Teardown(cmd[c]))
             /\ UNCHANGED <<HostOnly, own>>

Identify(c) == /\ At(c, "identify")
               /\ \/ Advance(c)
                  \/ Can("denied") /\ Fail(c, "Unassessable", Teardown(cmd[c]))
               /\ UNCHANGED <<HostOnly, own, child>>

Collect(c) == child' = [child EXCEPT ![c].root = IF @ = "zombie" THEN "reaped" ELSE @]

(* SharedChild::new waits without blocking, and loses the child it fails   *)
(* to wait for.                                                            *)
Adopt(c) == /\ At(c, "adopt")
            /\ \/ Collect(c) /\ Advance(c)
               \/ /\ Can("adopt") /\ UNCHANGED child /\ Goto(c, <<"drop">>)
                  /\ outcome' = [outcome EXCEPT ![c].result = "Io", ![c].excused = TRUE]
            /\ UNCHANGED <<HostOnly, own>>

(* A setuid wrapper's credentials refuse our signals.                      *)
Deaf(c) == ~ Windows /\ cmd[c].wrapper # "none" /\ child[c].root = "live" /\ Can("deaf")

Doom(c) == child' = [child EXCEPT ![c].root = IF Running(c) THEN "doomed" ELSE @]

(* write_after_spawn: the channel broke after part of the password. What   *)
(* cannot be killed is only polled.                                        *)
Password(c) ==
  /\ At(c, "password")
  /\ \/ Advance(c) /\ UNCHANGED child
     \/ Can("partial") /\ ~ Deaf(c) /\ Doom(c) /\ Fail(c, "AuthFailed", <<"wait", "drop">>)
     \/ /\ Can("partial") /\ Deaf(c) /\ Collect(c) /\ Goto(c, <<"drop">>)
        /\ outcome' = [outcome EXCEPT ![c].result = "AuthFailed", ![c].excused = TRUE]
  /\ UNCHANGED <<HostOnly, own>>

Kill(c) == /\ At(c, "kill") /\ ~ Deaf(c)
           /\ Doom(c)
           /\ Advance(c)
           /\ UNCHANGED <<HostOnly, own>>

(* The sync spawn waits all the same; reap_now gives up.                   *)
KillRefused(c) == /\ At(c, "kill") /\ Deaf(c)
                  /\ Goto(c, IF SyncStd(cmd[c]) THEN Tail(todo[c]) ELSE <<"drop">>)
                  /\ outcome' = [outcome EXCEPT ![c].excused = ~ SyncStd(cmd[c])]
                  /\ UNCHANGED <<HostOnly, own, child>>

Wait(c) == /\ At(c, "wait") \/ At(c, "reap")
           /\ child[c].root \in {"zombie", "reaped"}
           /\ Collect(c)
           /\ Advance(c)
           /\ UNCHANGED <<HostOnly, own>>

(* What the call's own frames and a failed call's attachment release. A    *)
(* job is KILL_ON_JOB_CLOSE.                                               *)
Return(c) ==
  /\ At(c, "drop")
  /\ IF outcome[c].result = "pending"
     THEN /\ outcome' = [outcome EXCEPT ![c].result = "ok"]
          /\ own' = [own EXCEPT ![c].ends = Shut(@), ![c].marker = Shut(@)]
          /\ UNCHANGED child
     ELSE /\ UNCHANGED outcome
          /\ \E l \in IF own[c].leaf = "made" THEN Rmdir(c) ELSE {own[c].leaf} :
               own' = [own EXCEPT ![c].ends = Shut(@), ![c].marker = Shut(@), ![c].leaf = l]
          /\ child' = [child EXCEPT ![c] =
                         KilledIn(IF own[c].leaf = "made" THEN KilledIn(@, "leaf") ELSE @, "job")]
  /\ Goto(c, <<>>)
  /\ UNCHANGED HostOnly

-----------------------------------------------------------------------------
(* The child itself, while the call goes on.                               *)

(* run0's target is a unit of PID 1, osascript's a child of authd.         *)
Forks(c) == /\ todo[c] # <<>> /\ child[c].root = "live" /\ child[c].kid = "none"
            /\ child' = [child EXCEPT
                 ![c].kid = "live",
                 ![c].kidIn = IF cmd[c].wrapper \in {"run0", "osascript"} THEN {} ELSE child[c].rootIn]
            /\ UNCHANGED <<HostOnly, todo, own, outcome>>

Exits(c) == /\ \/ todo[c] # <<>> /\ child[c].root = "live"
               \/ child[c].root = "doomed"
            /\ Started(c, "zombie")
            /\ UNCHANGED <<HostOnly, todo, own, outcome>>

Step(c) ==
  \/ Runtime(c) \/ RefuseElevation(c) \/ Rewrite(c) \/ LaunchRunas(c) \/ Build(c)
  \/ ResolveEnds(c) \/ PrepareRefused(c) \/ Prepare(c) \/ Fence(c) \/ Lock(c) \/ Mark(c)
  \/ CreateFails(c) \/ Create(c) \/ Close(c) \/ Release(c) \/ Unlock(c) \/ Attach(c)
  \/ AttachUnlisted(c) \/ Assign(c) \/ Resume(c) \/ Identify(c) \/ Adopt(c)
  \/ Password(c) \/ Kill(c) \/ KillRefused(c) \/ Wait(c) \/ Return(c)

Done == \A c \in Calls : todo[c] = <<>>

Next == \/ \E c \in Calls : Step(c) \/ Forks(c) \/ Exits(c)
        \/ Done /\ UNCHANGED vars

Spec == Init /\ [][Next]_vars

-----------------------------------------------------------------------------
(* Properties.                                                             *)

Over(c) == todo[c] = <<>>
Succeeded(c) == Over(c) /\ outcome[c].result = "ok"
Failed(c) == Over(c) /\ outcome[c].result # "ok"

(* A spawn that returns an error leaves nothing of it behind: no process   *)
(* running or frozen, on Unix none unreaped, no descendant in its cgroup   *)
(* or job, no end or marker, not the lock; and a refused flag word has not *)
(* touched the caller's std handles. Excused are a child that may not be   *)
(* killed, and the one SharedChild::new could not wait for. No leaf either *)
(* but two: the one try_create_leaf forgets when it cannot open its        *)
(* cgroup.procs, and the one whose rmdir was refused over what the drop    *)
(* had killed in it: a descendant, or the root of an attachment that fell  *)
(* back to the process group.                                              *)
KilledInLeaf(c) ==
  \/ child[c].kid = "killed" /\ "leaf" \in child[c].kidIn
  \/ outcome[c].report = "ProcessGroup" /\ "leaf" \in child[c].rootIn

NoLeaf(c) == \/ own[c].leaf \in {"none", "removed"}
             \/ own[c].leaf = "forgotten" /\ Can("leaf")
             \/ own[c].leaf = "busy" /\ KilledInLeaf(c)

FailureLeavesNothing ==
  \A c \in Calls : Failed(c) /\ ~ outcome[c].excused =>
    /\ child[c].root \in {"none", "reaped"} \cup IF Windows THEN {"doomed", "zombie"} ELSE {}
    /\ child[c].kid = "live" => child[c].kidIn \cap {"leaf", "job"} = {}
    /\ own[c].ends \in {"none", "closed"} /\ own[c].marker \in {"none", "closed"}
    /\ NoLeaf(c) /\ lock # c
    /\ FlagsRefused(cmd[c]) => ~ own[c].cleared

(* The group of processes a report speaks of.                              *)
Claimed == [CgroupV2 |-> "leaf", JobObject |-> "job", FdMarker |-> "marker",
            Delegated |-> "ancestor", ProcessGroup |-> "group", Session |-> "session"]

(* What a wrapper may not leave on its way to the command.                 *)
Binding == {"CgroupV2", "JobObject", "FdMarker", "Delegated"}

(* A success that reports a containment has it: the root is in the group   *)
(* the teardown will address, and so is whatever it forked while the spawn *)
(* was still attaching it; contain() never ends in no containment at all,  *)
(* and the root is not left suspended.                                     *)
ContainmentIsReal ==
  \A c \in Calls : Succeeded(c) =>
    LET r == outcome[c].report
    IN /\ (r = "None") = (cmd[c].mode = "none")
       /\ child[c].root # "suspended"
       /\ r \in DOMAIN Claimed => Claimed[r] \in child[c].rootIn
       /\ r \in Binding /\ child[c].kid # "none" => Claimed[r] \in child[c].kidIn

(* No child starts with a descriptor that a concurrent spawn made          *)
(* inheritable for its own: a child end on Windows, the fd marker on macOS.*)
EndsStayPrivate == \A c \in Calls : child[c].holds = {}

(* launch_runas gives its child no descriptor.                             *)
ByConsent(c) == setting.cmd[c].elevate /\ Verdict(setting.cmd[c], host) = "uac"

(* The descriptors of a child that was spawned are those that were asked   *)
(* for, on every backend; and resolving them is refused only where what    *)
(* was asked for cannot be had, whichever backend is asked.                *)
StdioIsFaithful ==
  \A c \in Calls :
    LET fds == DerivedFds(setting.cmd[c], cmd[c].wrapper)
    IN /\ Succeeded(c) /\ ~ ByConsent(c) => Faithful(fds, wiring[c])
       /\ own[c].ends # "none" =>
            wiring[c].ok = (Possible(fds) /\ (Raw(cmd[c]) => Encodable(fds)))

(* Whether an elevation is Unsupported is a property of the request: a     *)
(* caller of another privilege, or without the terminal, is told the same. *)
PlanIsStable ==
  \A c \in Calls : setting.cmd[c].elevate /\ Over(c) => Stable(setting.cmd[c], host)

(* The comments of attach_tree: the leaf of a failed placement is empty.   *)
FallbackKillsNobody == \A c \in Calls : Succeeded(c) => child[c].kid # "killed"

(* The comment of spawn_raw: a refused spawn must not have mutated the     *)
(* parent.                                                                 *)
RefusedMutatesNothing ==
  \A c \in Calls : Over(c) /\ outcome[c].result = "Unsupported" => ~ own[c].cleared
=============================================================================
