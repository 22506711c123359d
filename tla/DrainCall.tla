----------------------------- MODULE DrainCall -----------------------------
(***************************************************************************)
(* What every mechanism with a drain edge shares: the contained tree, one  *)
(* call of wait_tree or wait_tree_timeout on it, the threads that may call *)
(* kill_tree meanwhile, and the owner of the handle, who detaches or drops *)
(* it.                                                                     *)
(*                                                                         *)
(*   src/src/containment/dispatch.rs   Attached                            *)
(*   src/src/child.rs                  kill_tree, detach, Drop             *)
(*   src/src/child/lifecycle.rs        wait_tree, wait_tree_timeout        *)
(*   src/src/tokio/child.rs            the same of the asynchronous Child  *)
(*   src/src/wait.rs                   remaining, deadline_from            *)
(***************************************************************************)
EXTENDS Naturals, FiniteSets

CONSTANTS Pid,       (* the pids of the host                               *)
          Thread,    (* the threads that share the handle                  *)
          Settings   (* the hosts and calls of interest                    *)

ASSUME DrainAssumption ==
  \A s \in Settings :
     /\ s.mechanism \in {"cgroup", "job", "marker"}
     /\ s.killers \subseteq Thread
     /\ s.denied \subseteq Pid
     /\ s.budget \in Nat \ {0}
     /\ {s.async, s.bounded, s.faults, s.forks, s.strangers, s.adopts, s.manager,
         s.writes, s.ownCopy, s.killOnDrop, s.drops} \subseteq BOOLEAN

VARIABLES setting,    \* the host and the call at hand, rigid
          who,        \* what runs under each pid
          pc,         \* where the wait stands
          late,       \* the deadline has passed
          gone,       \* history: the tree has been empty since the call began
          cancelled,  \* the future of the wait was dropped
          verdict,    \* what the wait returned
          killer,     \* where each thread's kill_tree stands
          owner,      \* where the owner of the handle stands
          detached,   \* detach was called
          changed,    \* the watched descriptor has something to report
          queued,     \* ... and the reactor has been told to look
          ready,      \* the reactor's readiness flag of that descriptor
          newer       \* ... was raised after the task last took it

treeVars == <<setting, who>>
reactorVars == <<changed, queued, ready, newer>>
callVars == <<pc, late, gone, cancelled, verdict>>
handleVars == <<killer, owner, detached>>
drainCallVars == <<treeVars, reactorVars, callVars, handleVars>>

(* "free": nobody.  "doomed": a member that SIGKILL or TerminateJobObject  *)
(* has reached and that has yet to exit.  "stranger": not in the tree.     *)
Occupant == {"free", "member", "doomed", "stranger"}
Outcome == {"none", "AllMembersExited", "AllMarkersClosed", "MembersRemain", "Err"}

Mechanism == setting.mechanism
Async == setting.async            \* the tokio Child
Bounded == setting.bounded        \* wait_tree_timeout
Faults == setting.faults          \* system calls may fail

Live == {p \in Pid : who[p] \in {"member", "doomed"}}
Unharmed == {p \in Pid : who[p] = "member"}
Doom(w) == [p \in Pid |-> IF w[p] = "member" THEN "doomed" ELSE w[p]]

Waiting == pc \notin {"idle", "over"}
(* The wait borrows the handle for as long as the caller's call lasts; the *)
(* watcher of a dropped future has no part in that.                        *)
Borrowed == (Waiting /\ ~ cancelled) \/ \E t \in Thread : killer[t] \in {"took", "closing", "failed"}

DrainCallTypeOK == /\ setting \in Settings
                   /\ who \in [Pid -> Occupant]
                   /\ killer \in [Thread -> {"idle", "took", "closing", "failed", "Ok", "Err"}]
                   /\ owner \in {"held", "dropping", "releasing", "rekill", "rmdir", "released"}
                   /\ verdict \in Outcome
                   /\ {late, gone, cancelled, detached, changed, queued, ready, newer}
                        \subseteq BOOLEAN

DrainCallInit == /\ setting \in Settings
                 /\ who \in [Pid -> {"free", "member"}]
                 /\ Live # {}
                 /\ pc = "idle"
                 /\ late = FALSE
                 /\ gone = FALSE
                 /\ cancelled = FALSE
                 /\ verdict = "none"
                 /\ killer = [t \in Thread |-> "idle"]
                 /\ owner = "held"
                 /\ detached = FALSE
                 /\ changed = FALSE
                 /\ queued = FALSE
                 /\ ready = FALSE
                 /\ newer = FALSE

-----------------------------------------------------------------------------
(* The host.  `pinned` are the pids a handle is open on: Windows does not  *)
(* give those out again.                                                   *)
Fork(p, pinned) == /\ setting.forks
                   /\ who[p] = "free" /\ p \notin pinned
                   /\ Unharmed # {}
                   /\ who' = [who EXCEPT ![p] = "member"]

Exit(p) == /\ who[p] # "free"
           /\ who' = [who EXCEPT ![p] = "free"]

Unrelated(p, pinned) == /\ setting.strangers
                        /\ who[p] = "free" /\ p \notin pinned
                        /\ who' = [who EXCEPT ![p] = "stranger"]

(* A member closes its copy of the marker, and runs on.                    *)
Leave(p) == /\ Mechanism = "marker"
            /\ who[p] = "member"
            /\ who' = [who EXCEPT ![p] = "stranger"]

(* A process of the host's is moved into the leaf.                         *)
Adopt(p) == /\ setting.adopts
            /\ who[p] = "stranger"
            /\ who' = [who EXCEPT ![p] = "member"]

HostStep(pinned) ==
  /\ \E p \in Pid : Fork(p, pinned) \/ Exit(p) \/ Unrelated(p, pinned) \/ Leave(p) \/ Adopt(p)
  /\ gone' = (gone /\ Live' = {})

Emptied == Live # {} /\ Live' = {}
Filled == Live = {} /\ Live' # {}

(* remaining(deadline) = ZERO from here on.                                *)
DeadlinePasses == /\ Waiting /\ Bounded /\ ~ late
                  /\ late' = TRUE
                  /\ UNCHANGED <<treeVars, reactorVars, pc, gone, cancelled, verdict, handleVars>>

-----------------------------------------------------------------------------
(* The call.                                                               *)
Begin(first) == /\ pc = "idle" /\ owner = "held"
                /\ pc' = first
                /\ gone' = (Live = {})
                /\ late' \in (IF Bounded THEN BOOLEAN ELSE {FALSE})
                /\ UNCHANGED <<treeVars, reactorVars, cancelled, verdict, handleVars>>

Goto(label) == /\ pc' = label
               /\ UNCHANGED <<late, gone, cancelled, verdict>>

(* A watcher nobody waits for any more has no one to answer.               *)
Answer(v) == /\ pc' = "over"
             /\ verdict' = IF cancelled THEN verdict ELSE v
             /\ UNCHANGED <<late, gone, cancelled>>

(* The reactor (epoll or kqueue, then tokio's driver) hands readiness on;  *)
(* `pending` is what the descriptor answers when the reactor asks it.      *)
Deliver(pending) == /\ Async /\ queued
                    /\ queued' = FALSE
                    /\ ready' = (ready \/ pending)
                    /\ newer' = (newer \/ pending)
                    /\ UNCHANGED <<treeVars, changed, callVars, handleVars>>

(* AsyncFd::ready                                                          *)
TakeReady(next) == /\ Async /\ pc = "block" /\ ready
                   /\ newer' = FALSE
                   /\ Goto(next)
                   /\ UNCHANGED <<treeVars, changed, queued, ready, handleVars>>

(* clear_ready spares a readiness that is newer than the guard.            *)
ClearReady(next) == /\ pc = "clear"
                    /\ ready' = newer
                    /\ Goto(next)
                    /\ UNCHANGED <<treeVars, changed, queued, newer, handleVars>>

(* tokio::time::timeout polls the wait before its timer.                   *)
TimerWins == /\ Async /\ pc = "block" /\ ~ ready /\ late
             /\ Answer("MembersRemain")
             /\ UNCHANGED <<treeVars, reactorVars, handleVars>>

(* The future is dropped where it awaits: the watch is deregistered.       *)
DropFuture == /\ Async /\ pc = "block"
              /\ pc' = "over"
              /\ cancelled' = TRUE
              /\ UNCHANGED <<treeVars, reactorVars, late, gone, verdict, handleVars>>

-----------------------------------------------------------------------------
(* The owner.  `disarm` is the mechanism's own.                            *)
Detach(disarm) == /\ owner = "held" /\ ~ Borrowed /\ ~ detached
                  /\ setting.drops
                  /\ detached' = TRUE
                  /\ owner' = IF Async THEN "held" ELSE "dropping"
                  /\ disarm
                  /\ UNCHANGED <<treeVars, reactorVars, callVars, killer>>

Drop == /\ owner = "held" /\ ~ Borrowed
        /\ setting.drops
        /\ owner' = "dropping"
        /\ UNCHANGED <<treeVars, reactorVars, callVars, killer, detached>>

(* Child::drop: the opt-out, or hard_kill; the fields are released after.  *)
OptedOut == detached \/ ~ setting.killOnDrop

TearDown(hardKill) == /\ owner = "dropping"
                      /\ owner' = "releasing"
                      /\ IF OptedOut THEN UNCHANGED who ELSE hardKill
                      /\ UNCHANGED <<setting, reactorVars, callVars, killer, detached>>

(* May this thread call kill_tree now?  The tokio one borrows mutably.     *)
MayKill(t) == /\ t \in setting.killers
              /\ killer[t] = "idle" /\ owner = "held"
              /\ Async => ~ Borrowed
=============================================================================
