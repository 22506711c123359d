---------------------------- MODULE CgroupDrain ----------------------------
(***************************************************************************)
(* The cgroup v2 leaf: waiting for `populated` in cgroup.events to fall,   *)
(* killing through cgroup.kill, and removing the leaf on Drop.             *)
(*                                                                         *)
(*   src/src/containment/cgroup.rs   wait_drained, read_populated,         *)
(*                                   hard_kill, Drop                       *)
(*   src/src/tokio/wait.rs           cgroup_wait_tree_drained              *)
(*                                                                         *)
(* The events file has something to report (`changed`) when populated has  *)
(* changed since it was last read through this descriptor, or when it was  *)
(* never read; once the leaf is removed it always has.                     *)
(***************************************************************************)
EXTENDS DrainCall

VARIABLE leaf   \* "present" or "removed"

InLeaf == Mechanism = "cgroup"
Removed == leaf = "removed"
Populated == Live # {}

(* Every change of `populated` notifies the watchers of the file.  Nobody  *)
(* can be moved into a leaf that is gone.                                  *)
CgroupNotice == /\ Removed => ~ Filled
                /\ IF Emptied \/ Filled
                   THEN /\ changed' = TRUE
                        /\ queued' = (queued \/ (Async /\ Waiting))
                   ELSE UNCHANGED <<changed, queued>>

(* A cgroup manager removes an empty leaf; an occupied one is busy.        *)
Rmdir == IF Populated THEN UNCHANGED leaf ELSE leaf' = "removed"
ManagerRemoves == /\ InLeaf /\ setting.manager
                  /\ ~ Populated /\ ~ Removed
                  /\ leaf' = "removed"
                  /\ UNCHANGED drainCallVars

-----------------------------------------------------------------------------
CgroupBegin == InLeaf /\ Begin("open") /\ UNCHANGED leaf

(* File::open, and for the reactor AsyncFd::with_interest.                 *)
OpenEvents == /\ pc = "open"
              /\ \/ /\ Removed
                    /\ Answer("AllMembersExited")
                    /\ UNCHANGED <<changed, queued>>
                 \/ /\ ~ Removed
                    /\ changed' = TRUE
                    /\ queued' = Async
                    /\ Goto("read")
                 \/ /\ Faults
                    /\ Answer("Err")
                    /\ UNCHANGED <<changed, queued>>
              /\ UNCHANGED <<treeVars, ready, newer, handleVars, leaf>>

(* As a mutant: a leaf that is gone reads as an occupied one.              *)
ReadPopulatedOfGoneLeaf ==
  /\ pc = "read"
  /\ \/ /\ ~ Removed /\ ~ Populated
        /\ Answer("AllMembersExited")
        /\ UNCHANGED changed
     \/ /\ Removed \/ Populated
        /\ changed' = FALSE
        /\ Goto("check")
     \/ /\ Faults
        /\ Answer("Err")
        /\ UNCHANGED changed
  /\ UNCHANGED <<treeVars, queued, ready, newer, handleVars, leaf>>

(* read_populated: the leaf's removal is proof that it had drained.        *)
ReadPopulated == /\ pc = "read"
                 /\ \/ /\ Removed \/ ~ Populated
                       /\ Answer("AllMembersExited")
                       /\ UNCHANGED changed
                    \/ /\ ~ Removed /\ Populated
                       /\ changed' = FALSE
                       /\ Goto("check")
                    \/ /\ Faults
                       /\ Answer("Err")
                       /\ UNCHANGED changed
                 /\ UNCHANGED <<treeVars, queued, ready, newer, handleVars, leaf>>

CheckDeadline == /\ pc = "check"
                 /\ IF late THEN Answer("MembersRemain") ELSE Goto("block")
                 /\ UNCHANGED <<treeVars, reactorVars, handleVars, leaf>>

(* As a mutant: a report on the file is taken for the drain.               *)
PollTrustsEdge == /\ InLeaf /\ ~ Async /\ pc = "block"
                  /\ \/ (changed \/ Removed) /\ Answer("AllMembersExited")
                     \/ ~ (changed \/ Removed) /\ late /\ Answer("MembersRemain")
                     \/ Goto("read")
                     \/ Faults /\ Answer("Err")
                  /\ UNCHANGED <<treeVars, reactorVars, handleVars, leaf>>

(* poll(2) on POLLPRI, for the remaining time.                             *)
Poll == /\ InLeaf /\ ~ Async /\ pc = "block"
        /\ \/ (changed \/ Removed) /\ Goto("read")
           \/ ~ (changed \/ Removed) /\ late /\ Answer("MembersRemain")
           \/ Goto("read")                                      \* EINTR
           \/ Faults /\ Answer("Err")
        /\ UNCHANGED <<treeVars, reactorVars, handleVars, leaf>>

CgroupDeliver == InLeaf /\ Deliver(changed \/ Removed) /\ UNCHANGED leaf
CgroupWakes == InLeaf /\ TakeReady("clear") /\ UNCHANGED leaf
CgroupClears == InLeaf /\ ClearReady("read") /\ UNCHANGED leaf
CgroupTimerWins == InLeaf /\ TimerWins /\ UNCHANGED leaf

-----------------------------------------------------------------------------
(* CgroupLeaf::hard_kill: one write, whose failure is not reported.        *)
WriteKill == \/ who' = Doom(who)
             \/ Faults /\ UNCHANGED who

CgroupKill(t) == /\ InLeaf /\ MayKill(t)
                 /\ WriteKill
                 /\ killer' = [killer EXCEPT ![t] = "Ok"]
                 /\ UNCHANGED <<setting, reactorVars, callVars, owner, detached, leaf>>

CgroupDetach == InLeaf /\ Detach(UNCHANGED leaf)   \* disarm is a no-op
CgroupTearDown == InLeaf /\ TearDown(WriteKill) /\ UNCHANGED leaf

(* CgroupLeaf::drop: remove the leaf; if that fails, kill and try again.   *)
Release(from, to) == /\ InLeaf /\ owner = from
                     /\ owner' = to
                     /\ UNCHANGED <<setting, reactorVars, callVars, killer, detached>>

RemoveLeaf == /\ Release("releasing", IF Populated \/ Removed THEN "rekill" ELSE "released")
              /\ Rmdir
              /\ UNCHANGED who

KillOccupants == /\ Release("rekill", "rmdir")
                 /\ WriteKill
                 /\ UNCHANGED leaf

RetryRemoval == /\ Release("rmdir", "released")
                /\ Rmdir
                /\ UNCHANGED who

CgroupWait == OpenEvents \/ ReadPopulated \/ CheckDeadline \/ Poll
                \/ CgroupWakes \/ CgroupClears \/ CgroupTimerWins
CgroupOwner == CgroupTearDown \/ RemoveLeaf \/ KillOccupants \/ RetryRemoval
CgroupNext == \/ CgroupBegin \/ CgroupWait \/ CgroupDeliver \/ ManagerRemoves
              \/ CgroupDetach \/ CgroupOwner
              \/ \E t \in Thread : CgroupKill(t)
=============================================================================
