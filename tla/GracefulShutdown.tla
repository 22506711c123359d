-------------------------- MODULE GracefulShutdown --------------------------
(***************************************************************************)
(* Cooperative-then-forced shutdown, of one process and of a tree:         *)
(* terminate, wait out the grace, sweep, reap, and the order in which an   *)
(* error of each of the four surfaces.                                     *)
(*                                                                         *)
(*   src/src/child/graceful.rs, src/src/tokio/child/graceful.rs            *)
(*   src/src/process/graceful.rs, src/src/tokio/process/graceful.rs        *)
(*   src/src/graceful.rs, src/src/child.rs, src/src/child/proc_handle.rs   *)
(*                                                                         *)
(* A mechanism's own delivery is one step here, as strong and as weak as   *)
(* GroupTeardown, TreeWalk and FdMarkerSweep find it: a sweep may answer   *)
(* Ok over members it could not see. Meanwhile members fork, exit, leave   *)
(* the group, close their marker and change credentials, the root's pid is *)
(* recycled once nothing pins it, between a check of the root's identity   *)
(* and the signal too, and an async call may be cancelled.                 *)
(***************************************************************************)
EXTENDS Naturals

CONSTANTS Member,     \* the processes of the tree
          Root,       \* the child that was spawned
          Settings,   \* the deployments explored
          MaxCalls    \* how many shutdowns the user calls

Mech == {"cgroup", "job", "marker", "group", "walk", "none"}
Fault == {"deaf", "term", "listing", "watch", "sweep", "wait", "lost"}

ASSUME ShutdownAssumption ==
  /\ Root \in Member /\ MaxCalls \in Nat
  /\ \A s \in Settings : /\ s.mech \in Mech /\ s.owner \in {"sync", "async", "foreign"}
                         /\ s.windows \in BOOLEAN /\ s.faults \subseteq Fault
                         /\ s.bare \in BOOLEAN  \* macOS: no handle, only numbers

VARIABLES setting,     \* the deployment
          status,      \* each member's life
          group,       \* members in the process group or console group
          marked,      \* members holding the marker descriptor
          deaf,        \* members whose credentials refuse our signals
          pid,         \* what the root's number names: root, free or stranger
          pc,          \* where the call, or the drop, stands
          op,          \* what was called: tree or lone
          drained,     \* the kernel proved that every member exited
          rootExited,  \* the root's exit was observed without collecting it
          watchErr,    \* the grace could not be watched
          sweepErr,    \* hard_kill reported an error
          result,      \* what the last call returned
          calls,       \* calls made so far
          checked,     \* whom the check before the next signal by number found
          missed,      \* history: members the last sweep did not see, and theirs
          late,        \* history: the root was collected after such a check
          asked,       \* history: this call asked some member to exit
          swept,       \* history: this call went on to a forced kill
          early,       \* history: the root was already collected when it began
          stray        \* history: it signalled another process on the root's pid

hostVars == <<status, group, marked, deaf, pid>>
callVars == <<op, drained, rootExited, watchErr, sweepErr, calls>>
seenVars == <<asked, swept, early, stray>>
aimVars == <<checked, missed, late>>
vars == <<setting, hostVars, pc, callVars, result, seenVars, aimVars>>

mech == setting.mech
owner == setting.owner
Can(f) == f \in setting.faults
ByGroup == mech \in {"group", "marker"} /\ owner # "foreign"

Call == {"term", "watch", "probe", "sweep", "backstop", "collect", "kill", "reap"}
Dropping == {"drop_tree", "drop_kill", "drop_reap"}

TypeOK ==
  /\ setting \in Settings
  /\ status \in [Member -> {"unborn", "live", "doomed", "zombie", "gone"}]
  /\ group \subseteq Member /\ marked \subseteq Member /\ deaf \subseteq Member
  /\ pid \in {"root", "free", "stranger"}
  /\ pc \in {"idle", "dropped"} \cup Call \cup Dropping
  /\ op \in {"tree", "lone"}
  /\ {drained, rootExited, watchErr, sweepErr, asked, swept, early, stray, late} \subseteq BOOLEAN
  /\ checked \in {"no", "root", "other"}
  /\ result \in {"none", "Ok", "Unsupported", "Refused", "Io", "Unlistable", "Sweep",
                 "Watch", "Cancelled"}
  /\ calls \in 0..MaxCalls
  /\ missed \subseteq Member

Init ==
  /\ setting \in Settings
  /\ status = [m \in Member |-> IF m = Root THEN "live" ELSE "unborn"]
  /\ group = {Root} /\ marked = {Root} /\ deaf = {} /\ pid = "root"
  /\ pc = "idle" /\ op = "tree" /\ result = "none" /\ calls = 0 /\ asked = FALSE
  /\ drained = FALSE /\ rootExited = FALSE /\ watchErr = FALSE /\ sweepErr = FALSE
  /\ swept = FALSE /\ early = FALSE /\ stray = FALSE
  /\ checked = "no" /\ missed = {} /\ late = FALSE

-----------------------------------------------------------------------------
(* The host.                                                               *)

Live == {m \in Member : status[m] = "live"}
Running == {m \in Member : status[m] \in {"live", "doomed"}}
Exited == status[Root] \in {"zombie", "gone"}

(* The dead hold no descriptor and refuse nothing; only ours is a zombie.  *)
Dies(m) == /\ status' = [status EXCEPT ![m] = IF m = Root THEN "zombie" ELSE "gone"]
           /\ group' = group \ {m} /\ marked' = marked \ {m} /\ deaf' = deaf \ {m}

Exit(m) == /\ status[m] = "live"
           /\ Dies(m)
           /\ UNCHANGED <<setting, pid, pc, callVars, result, seenVars, aimVars>>

(* SIGKILL cannot be caught: a doomed process does exit.                   *)
ExitDoomed(m) == /\ status[m] = "doomed"
                 /\ Dies(m)
                 /\ UNCHANGED <<setting, pid, pc, callVars, result, seenVars, aimVars>>

Inherit(m, c, S) == IF m \in S THEN S \cup {c} ELSE S

Fork(m, c) == /\ status[m] = "live" /\ status[c] = "unborn"
              /\ status' = [status EXCEPT ![c] = "live"]
              /\ group' = Inherit(m, c, group)
              /\ marked' = Inherit(m, c, marked)
              /\ deaf' = Inherit(m, c, deaf)
              /\ missed' = Inherit(m, c, missed)
              /\ UNCHANGED <<setting, pid, pc, callVars, result, seenVars, checked, late>>

(* setsid, or a nested contained spawn, where anything addresses the group.*)
(* The leader cannot leave.                                                *)
Leave(m) == /\ m \in Live \ {Root} /\ m \in group
            /\ ByGroup \/ setting.windows
            /\ group' = group \ {m}
            /\ UNCHANGED <<setting, status, marked, deaf, pid, pc, callVars, result, seenVars, aimVars>>

Close(m) == /\ mech = "marker" /\ m \in Live /\ m \in marked
            /\ marked' = marked \ {m}
            /\ UNCHANGED <<setting, status, group, deaf, pid, pc, callVars, result, seenVars, aimVars>>

(* A setuid exec refuses us from then on; dropping privilege undoes it.    *)
Credentials(m) == /\ Can("deaf") /\ m \in Live
                  /\ deaf' = IF m \in deaf THEN deaf \ {m} ELSE deaf \cup {m}
                  /\ UNCHANGED <<setting, status, group, marked, pid, pc, callVars, result, seenVars, aimVars>>

(* A sync Windows handle pins the pid for its life; an async one until it  *)
(* observed the exit. On Unix a group in use keeps the number allocated.   *)
Pinned == owner = "sync" \/ status[Root] # "gone"

Recycle == /\ status[Root] = "gone" /\ pid # "stranger"
           /\ IF setting.windows THEN ~ Pinned ELSE group = {}
           /\ pid' = IF pid = "root" THEN "free" ELSE "stranger"
           /\ UNCHANGED <<setting, status, group, marked, deaf, pc, callVars, result, seenVars>>
           /\ UNCHANGED aimVars

CollectRoot == status' = [status EXCEPT ![Root] = "gone"]

(* try_wait by the owner between calls; a foreign root has another parent. *)
Collected == /\ status[Root] = "zombie"
             /\ owner = "foreign" \/ pc = "idle"
             /\ CollectRoot
             /\ late' = (late \/ checked = "root")
             /\ UNCHANGED <<setting, group, marked, deaf, pid, pc, callVars, result, seenVars>>
             /\ UNCHANGED <<checked, missed>>

Host == \/ \E m \in Member : Exit(m) \/ Leave(m) \/ Close(m) \/ Credentials(m)
        \/ \E m, c \in Member : Fork(m, c)
        \/ Recycle \/ Collected

-----------------------------------------------------------------------------
(* The call: require_contained, then the cooperative signal.               *)

Begin(o) == /\ pc = "idle" /\ calls < MaxCalls
            /\ pc' = "term" /\ op' = o /\ calls' = calls + 1
            /\ drained' = FALSE /\ rootExited' = FALSE /\ watchErr' = FALSE
            /\ sweepErr' = FALSE /\ asked' = FALSE /\ swept' = FALSE /\ stray' = FALSE
            /\ early' = (status[Root] = "gone") /\ result' = "none"
            /\ missed' = {} /\ late' = FALSE
            /\ UNCHANGED <<setting, hostVars, checked>>

Return(r) == pc' = "idle" /\ result' = r
Proceed(l) == pc' = l /\ UNCHANGED result

(* Outcomes of a signal: who heard it, and where the call goes.            *)
Said(hearers) == /\ asked' = (hearers # {}) /\ checked' = "no"
                 /\ UNCHANGED <<setting, hostVars, callVars, swept, early, missed, late>>
Aimed == stray' = (stray \/ pid = "stranger")
Bound == UNCHANGED stray

Actionable == mech # "none"

(* Mutant: the async handle is taken to pin the pid for its life, too.     *)
UnpinnedNever == FALSE

Unpinned == setting.windows /\ owner = "async" /\ ~ Pinned

TermUnsupported ==
  /\ pc = "term"
  /\ \/ op = "tree" /\ ~ Actionable
     \/ setting.windows /\ owner = "foreign"
     \/ op = "lone" /\ setting.windows /\ ~ Actionable
  /\ Return("Unsupported") /\ Said({}) /\ Bound

(* A root of which nothing but the number is at hand is signalled in two   *)
(* steps: does the number still carry the root's identity, then the signal *)
(* to whoever has the number by then.                                      *)
Walks == mech = "walk" \/ owner = "foreign"
ByNumber == \/ pc = "term" /\ (op = "lone" \/ Walks)
            \/ pc \in {"sweep", "drop_tree"} /\ Walks
            \/ pc = "kill" /\ owner = "foreign"

(* Mutant: the number is signalled for what it once was.                   *)
VerifyNothing == /\ setting.bare /\ ByNumber /\ checked = "no"
                 /\ checked' = "root"
                 /\ UNCHANGED <<setting, hostVars, pc, callVars, result, seenVars, missed, late>>

Verify == /\ setting.bare /\ ByNumber /\ checked = "no"
          /\ checked' = IF status[Root] = "gone" THEN "other" ELSE "root"
          /\ UNCHANGED <<setting, hostVars, pc, callVars, result, seenVars, missed, late>>

Verified == setting.bare => checked # "no"
Misses == checked = "root" /\ pid = "stranger"
ByIdentity == stray' = (stray \/ Misses)

Offered == /\ pc = "term"
           /\ Actionable \/ (op = "lone" /\ ~ setting.windows)
           /\ ~ (setting.windows /\ owner = "foreign")

(* No handle pins the pid: nothing is sent. The tree call holds that and   *)
(* still watches and sweeps; the lone one returns it.                      *)
TermUnpinned == /\ Offered /\ Unpinned
                /\ IF op = "tree" THEN Proceed("watch") ELSE Return("Refused")
                /\ Said({}) /\ Bound

(* CTRL_BREAK to the console group, addressed by bare pid. Success may     *)
(* reach nobody (another console); no console, or an unclassified error.   *)
TermConsole == /\ Offered /\ setting.windows /\ ~ Unpinned
               /\ \/ /\ \E hearers \in {{}, group \cap Live} : Said(hearers)
                     /\ Proceed("watch") /\ Aimed
                  \/ Can("term") /\ Said({}) /\ Return("Io") /\ Bound

(* The lone process, through a verified handle or its verified number.     *)
TermIdentity ==
  /\ Offered /\ ~ setting.windows /\ op = "lone" /\ Verified
  /\ \/ Root \notin deaf \cap Live /\ Said({Root} \cap Live) /\ Proceed("watch") /\ ByIdentity
     \/ /\ Root \in deaf \cap Live \/ Misses \/ Can("term")
        /\ Said({}) /\ Return("Io") /\ Bound

TreeSignal == Offered /\ ~ setting.windows /\ op = "tree"

TermCgroup == /\ TreeSignal /\ mech = "cgroup" /\ owner # "foreign" /\ Bound
              /\ \/ Said(Live \ deaf) /\ Proceed("watch")
                 \/ Can("term") /\ Said({}) /\ Return("Io")

(* killpg, then the listing. A refused or unconfirmed member is held and   *)
(* the call goes on; a failed listing returns at once, after the killpg.   *)
Named == group \cup (IF mech = "marker" THEN marked ELSE {})
Known == Live \cap Named

(* Whom a delivery may not see, and so neither reach nor report: a member  *)
(* that refuses us, which hidepid may hide or whose descriptors cannot be  *)
(* listed; and one that was forked, by a parent that exited, between the   *)
(* snapshot and the look at its parent: killpg got everyone in the group   *)
(* but the refusing, so it refuses or, under the marker, left the group.   *)
Missable == Known \cap (deaf \cup (IF mech = "marker" THEN Member \ group ELSE {}))

TermGroup == /\ TreeSignal /\ ByGroup
             /\ \/ /\ \E unseen \in SUBSET Missable : Said(Known \ (deaf \cup unseen))
                   /\ Aimed
                   /\ Proceed("watch") \/ (Can("listing") /\ Return("Unlistable"))
                \/ Can("term") /\ Said({}) /\ Bound /\ Return("Io")

(* The identity walk: it never reports an error and never follows a pid it *)
(* could not verify; whom it finds is TreeWalk's subject.                  *)
TermWalk == /\ TreeSignal /\ Walks /\ Verified /\ (Bound \/ ByIdentity)
            /\ \E hearers \in SUBSET (Live \ deaf) : Said(hearers)
            /\ Proceed("watch")

Term == TermUnsupported \/ TermUnpinned \/ TermConsole \/ TermIdentity
        \/ TermCgroup \/ TermGroup \/ TermWalk

-----------------------------------------------------------------------------
(* The grace. It may elapse whenever no other outcome has come yet.        *)

Drainable == mech \in {"cgroup", "job", "marker"} /\ owner # "foreign"
Proves == mech \in {"cgroup", "job"}

Still == UNCHANGED <<setting, hostVars, op, sweepErr, calls, seenVars, aimVars>>
Saw(d, x, e) == drained' = d /\ rootExited' = x /\ watchErr' = e

Escalate == Proceed(IF op = "tree" THEN "sweep" ELSE "kill")

TreeWatch == pc = "watch" /\ op = "tree" /\ Drainable /\ Still

(* Mutant: the closed marker counts as the proof of a kernel edge.         *)
DrainTrusted == /\ TreeWatch
                /\ IF Proves THEN Running = {} ELSE marked = {}
                /\ Saw(TRUE, TRUE, FALSE) /\ Proceed("reap")

DrainProved == /\ TreeWatch /\ Proves /\ Running = {}
               /\ Saw(TRUE, TRUE, FALSE) /\ Proceed("reap")

(* AllMarkersClosed and MembersRemain alike leave the sweep to run, after  *)
(* a fresh probe of the root.                                              *)
DrainUnproved == TreeWatch /\ Saw(FALSE, FALSE, FALSE) /\ Proceed("probe")

Probe == /\ pc = "probe" /\ Still
         /\ Saw(FALSE, Exited, FALSE) /\ Proceed("sweep")

(* Mutant: the error of the watch is returned where it arises.             *)
WatchFailsAtOnce == /\ pc \in {"watch", "probe"} /\ Can("watch") /\ Still
                    /\ Saw(FALSE, FALSE, TRUE) /\ Return("Watch")

WatchFails == /\ pc \in {"watch", "probe"} /\ Can("watch") /\ Still
              /\ Saw(FALSE, FALSE, TRUE) /\ Escalate

RootWatch == pc = "watch" /\ ~ (op = "tree" /\ Drainable)

GraceElapses == /\ RootWatch /\ Still /\ ~ Exited
                /\ Saw(FALSE, FALSE, FALSE) /\ Escalate

(* Mutant: the grace of a tree is watched by a wait that collects.         *)
ExitSeenReaping == /\ RootWatch /\ Exited /\ CollectRoot
                   /\ Saw(FALSE, TRUE, FALSE) /\ Proceed("sweep")
                   /\ UNCHANGED <<setting, group, marked, deaf, pid, op, sweepErr, calls, seenVars,
                                   aimVars>>

(* block_until_exit: the tree calls, and the async and foreign lone ones,  *)
(* watch without collecting.                                               *)
ExitSeen == /\ RootWatch /\ Still /\ Exited
            /\ op = "tree" \/ owner # "sync"
            /\ Saw(FALSE, TRUE, FALSE)
            /\ \/ op = "tree" /\ Proceed("sweep")
               \/ op = "lone" /\ owner = "async" /\ Proceed("reap")
               \/ op = "lone" /\ owner = "foreign" /\ Return("Ok")

(* The sync lone call watches by wait_timeout, which collects.             *)
ExitCollected == /\ RootWatch /\ op = "lone" /\ owner = "sync" /\ Exited
                 /\ CollectRoot /\ Return("Ok") /\ Saw(FALSE, TRUE, FALSE)
                 /\ UNCHANGED <<setting, group, marked, deaf, pid, op, sweepErr, calls, seenVars,
                                   aimVars>>

Watch == DrainProved \/ DrainUnproved \/ Probe \/ WatchFails \/ GraceElapses
         \/ ExitSeen \/ ExitCollected

-----------------------------------------------------------------------------
(* Attached::hard_kill.                                                    *)

Doom(hit) == status' = [m \in Member |-> IF m \in hit THEN "doomed" ELSE status[m]]
Reports(e) == sweepErr' = e

HardKill ==
  \/ /\ ByGroup /\ Aimed
     /\ \E unseen \in SUBSET Missable :
          /\ Doom(Known \ (deaf \cup unseen)) /\ missed' = unseen
          /\ \/ Reports((Known \cap deaf) \ unseen # {})
             \/ Can("listing") /\ Reports(TRUE)
  \/ /\ Walks /\ Verified /\ (Bound \/ ByIdentity) /\ missed' = {}
     /\ (\E hit \in SUBSET (Live \ deaf) : Doom(hit)) /\ Reports(FALSE)
  \/ /\ Bound /\ missed' = {}
     /\ \/ mech \in {"cgroup", "job"} /\ owner # "foreign" /\ Doom(Live) /\ Reports(FALSE)
        \/ mech = "cgroup" /\ Can("lost") /\ Doom({}) /\ Reports(FALSE)
        \/ mech = "job" /\ Can("sweep") /\ Doom({}) /\ Reports(TRUE)
        \/ mech = "none" /\ owner # "foreign" /\ Doom({}) /\ Reports(FALSE)

Outside == /\ checked' = "no"
           /\ UNCHANGED <<setting, group, marked, deaf, pid, op, calls, drained, rootExited,
                          watchErr, asked, early, late>>

(* kill_tree: the mechanism, and for an owner the handle as a backstop.    *)
Finish == IF watchErr THEN "Watch" ELSE "Ok"

Sweep == /\ pc = "sweep"
         /\ HardKill /\ swept' = TRUE
         /\ IF owner = "foreign" THEN Return(Finish) ELSE Proceed("backstop")
         /\ Outside

KillRoot(refused) ==
  /\ IF Root \in Live \ deaf THEN Doom({Root}) ELSE Doom({})
  /\ refused = (Root \in Live \cap deaf)

(* Mutant: only the backstop's error counts.                               *)
BackstopAlone == /\ pc = "backstop"
                 /\ \E refused \in BOOLEAN :
                      /\ KillRoot(refused)
                      /\ IF refused THEN Return("Sweep") ELSE Proceed("reap")
                 /\ UNCHANGED <<sweepErr, swept, stray, missed>> /\ Outside

(* Mutant: a failed sweep reaps whether or not the exit was observed.      *)
BackstopReaps == /\ pc = "backstop"
                 /\ \E refused \in BOOLEAN :
                      /\ KillRoot(refused)
                      /\ Proceed(IF sweepErr \/ refused THEN "collect" ELSE "reap")
                 /\ UNCHANGED <<sweepErr, swept, stray, missed>> /\ Outside

(* Mutant: a failed sweep never reaps.                                     *)
BackstopStrands == /\ pc = "backstop"
                   /\ \E refused \in BOOLEAN :
                        /\ KillRoot(refused)
                        /\ IF sweepErr \/ refused THEN Return("Sweep") ELSE Proceed("reap")
                   /\ UNCHANGED <<sweepErr, swept, stray, missed>> /\ Outside

(* group_result.and(backstop): either error is the sweep's. The failed     *)
(* sweep reaps first only where the root's exit was observed.              *)
Backstop ==
  /\ pc = "backstop"
  /\ \E refused \in BOOLEAN :
       /\ KillRoot(refused)
       /\ \/ ~ (sweepErr \/ refused) /\ Proceed("reap")
          \/ (sweepErr \/ refused) /\ rootExited /\ Proceed("collect")
          \/ (sweepErr \/ refused) /\ ~ rootExited /\ Return("Sweep")
  /\ UNCHANGED <<sweepErr, swept, stray, missed>> /\ Outside

LoneKill == /\ pc = "kill" /\ swept' = TRUE
            /\ owner = "foreign" => Verified
            /\ \E refused \in BOOLEAN :
                 /\ KillRoot(refused)
                 /\ \/ (refused \/ Misses) /\ Return("Io") /\ Bound
                    \/ ~ refused /\ owner = "foreign" /\ Return(Finish) /\ ByIdentity
                    \/ ~ refused /\ owner # "foreign" /\ Proceed("reap") /\ Bound
            /\ UNCHANGED <<sweepErr, missed>> /\ Outside

(* wait: blocks until the root exits; once collected it answers from cache.*)
Reap == /\ pc = "reap"
        /\ \/ Exited /\ CollectRoot /\ Return(Finish)
           \/ Can("wait") /\ UNCHANGED status /\ Return("Io")
        /\ UNCHANGED <<sweepErr, swept, stray, missed>> /\ Outside

Collect == /\ pc = "collect" /\ Exited
           /\ CollectRoot /\ Return("Sweep")
           /\ UNCHANGED <<sweepErr, swept, stray, missed>> /\ Outside

(* Mutant: a cancelled call keeps its place, to be resumed by the next.    *)
CancelKeeps == /\ owner # "sync" /\ pc \in {"watch", "probe", "reap", "collect"}
               /\ pc' = "cancelled" /\ UNCHANGED result
               /\ UNCHANGED <<setting, hostVars, callVars, seenVars, aimVars>>

(* Dropping the future at an await: no further signal, the child is owned. *)
Cancel == /\ owner # "sync" /\ pc \in {"watch", "probe", "reap", "collect"}
          /\ Return("Cancelled")
          /\ UNCHANGED <<setting, hostVars, callVars, seenVars, aimVars>>

-----------------------------------------------------------------------------
(* Dropping a sync Child (the async one is ReaperPool's).                  *)

Drop == /\ owner = "sync" /\ pc = "idle"
        /\ pc' = "drop_tree" /\ result' = "none" /\ asked' = FALSE /\ swept' = FALSE
        /\ stray' = FALSE /\ early' = (status[Root] = "gone")
        /\ missed' = {} /\ late' = FALSE
        /\ UNCHANGED <<setting, hostVars, callVars, checked>>

DropTree == /\ pc = "drop_tree"
            /\ HardKill /\ Proceed("drop_kill")
            /\ UNCHANGED swept /\ Outside

(* Mutant: the drop waits whatever the kill answered.                      *)
DropKillWaits == /\ pc = "drop_kill"
                 /\ \E refused \in BOOLEAN : KillRoot(refused)
                 /\ Proceed("drop_reap")
                 /\ UNCHANGED <<sweepErr, swept, stray, missed>> /\ Outside

(* A refused kill is never followed by a blocking wait.                    *)
DropKill == /\ pc = "drop_kill"
            /\ \E refused \in BOOLEAN :
                 /\ KillRoot(refused)
                 /\ Proceed(IF refused THEN "dropped" ELSE "drop_reap")
            /\ UNCHANGED <<sweepErr, swept, stray, missed>> /\ Outside

DropReap == /\ pc = "drop_reap" /\ Exited
            /\ CollectRoot /\ Proceed("dropped")
            /\ UNCHANGED <<sweepErr, swept, stray, missed>> /\ Outside

-----------------------------------------------------------------------------
Step == Verify \/ Term \/ Watch \/ Sweep \/ Backstop \/ LoneKill \/ Reap \/ Collect
        \/ DropTree \/ DropKill \/ DropReap

Next == \/ Host
        \/ \E m \in Member : ExitDoomed(m)
        \/ \E o \in {"tree", "lone"} : Begin(o)
        \/ Cancel \/ Drop
        \/ Step

(* The calling thread, or a polled future, keeps running; a killed process *)
(* exits. Nothing else is owed: live members may ignore the request.       *)
Fairness == /\ WF_vars(Step)
            /\ \A m \in Member : WF_vars(ExitDoomed(m))

Spec == Init /\ [][Next]_vars /\ Fairness

-----------------------------------------------------------------------------
(* What an Ok of a tree call promises of each mechanism: kernel membership *)
(* covers every member; a group or marker those it can still name, but for *)
(* those its sweep could not see and what they forked since; the walk only *)
(* the root, and so does a cgroup whose kill write was lost.               *)
Covered == IF Proves THEN (IF Can("lost") THEN {Root} ELSE Member)
           ELSE IF ByGroup THEN {Root} \cup (Named \ missed)
           ELSE {Root}

(* OkMeansTreeDown: graceful_shutdown_tree returning Ok leaves no running  *)
(* covered member, though the sweep was skipped on a proof, a refusal of   *)
(* the soft signal was discarded, or members forked, left and changed      *)
(* credentials throughout; and the root is collected. A member the sweep   *)
(* saw and could not kill is never under an Ok.                            *)
OkMeansTreeDown ==
  (result = "Ok" /\ op = "tree" /\ owner # "foreign")
    => status[Root] = "gone" /\ Covered \cap Live = {}

(* NoneAbandoned: a call that asked anyone to exit goes on to the forced   *)
(* kill, or saw the exit it asked for, whichever step fails in between. It *)
(* may stop short only when cancelled, or when the listing failed. And an  *)
(* exit that was observed is collected whatever the call returns, unless   *)
(* the collecting wait itself failed.                                      *)
NoneAbandoned ==
  /\ (pc = "idle" /\ asked /\ result \notin {"none", "Cancelled", "Unlistable"})
       => \/ swept \/ drained
          \/ op = "lone" /\ rootExited
  /\ (pc = "idle" /\ rootExited /\ owner # "foreign" /\ result \notin {"none", "Cancelled", "Io"})
       => status[Root] = "gone"

(* NoStrangerSignalled: no step of a shutdown or of a drop signals another *)
(* process on the root's recycled number, with two exceptions. One is what *)
(* the debug assertion in kill_tree names: a group id, and a root that was *)
(* collected before the operation began. The other is macOS's, where only  *)
(* the number of a foreign process is at hand: its parent collected it     *)
(* after its identity had been checked and before the signal. A root that  *)
(* is ours, or gone when it is checked, is safe there as well.             *)
NoStrangerSignalled ==
  stray => \/ early /\ mech \in {"group", "marker"}
           \/ setting.bare /\ owner = "foreign" /\ late

(* CallReturns: every shutdown and every drop comes back, even when a      *)
(* member or the root itself cannot be killed.                             *)
CallReturns == pc \in Call \cup Dropping ~> pc \in {"idle", "dropped"}
=============================================================================
