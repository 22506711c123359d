------------------------------ MODULE JobDrain ------------------------------
(***************************************************************************)
(* The Windows job object: its handle, which is taken under a lock and     *)
(* closed once, and the wait, which holds a duplicate of it and goes in    *)
(* rounds: list the members, open some, wait for one of those to exit.     *)
(*                                                                         *)
(*   src/src/containment/windows.rs   JobHandle, wait_drained_raw          *)
(*   src/src/containment/job.rs       Job                                  *)
(*   src/src/tokio/wait.rs            job_wait_tree_drained                *)
(***************************************************************************)
EXTENDS DrainCall

VARIABLES slot,         \* JobHandle.raw: "live" or "null"
          killOnClose,  \* the job's KILL_ON_JOB_CLOSE limit
          dup,          \* the wait holds a duplicate of the handle
          todo,         \* listed pids that this round has yet to open
          opened,       \* members whose process handles this round holds
          refused,      \* a member could not be opened
          elapsed       \* `remaining` was ZERO when this round computed it

jobVars == <<slot, killOnClose, dup, todo, opened, refused, elapsed>>
roundVars == <<todo, opened, refused, elapsed>>

InJob == Mechanism = "job"
Budget == setting.budget    \* MAXIMUM_WAIT_OBJECTS less the cancel event

(* Closing a handle kills the tree if it is the last one and still armed.  *)
Closing(t) == killer[t] \in {"took", "closing", "failed"}
HeldByUs == slot = "live" \/ \E t \in Thread : Closing(t)
CloseHandle(others) == IF killOnClose /\ ~ others THEN who' = Doom(who) ELSE UNCHANGED who

-----------------------------------------------------------------------------
JobBegin == InJob /\ Begin("dup") /\ UNCHANGED jobVars

(* with_handle(duplicate_job): the lock is held over both.  A consumed     *)
(* handle has nothing left to ask.                                         *)
Duplicate == /\ pc = "dup"
             /\ \/ /\ slot = "null"
                   /\ Answer("Err")
                   /\ UNCHANGED dup
                \/ /\ slot = "live"
                   /\ dup' = TRUE
                   /\ Goto("round")
                \/ /\ Faults
                   /\ Answer("Err")
                   /\ UNCHANGED dup
             /\ UNCHANGED <<treeVars, reactorVars, handleVars, slot, killOnClose, roundVars>>

(* As a mutant: the duplicate is never closed.                             *)
EndWaitLeaks(v) == /\ Answer(v)
                   /\ UNCHANGED <<dup, who>>
                   /\ todo' = {} /\ opened' = {} /\ refused' = FALSE /\ elapsed' = FALSE

(* wait_drained_raw returns, and the duplicate is closed.                  *)
EndWait(v) == /\ Answer(v)
              /\ dup' = FALSE
              /\ CloseHandle(HeldByUs)
              /\ todo' = {} /\ opened' = {} /\ refused' = FALSE /\ elapsed' = FALSE

(* As a mutant: the list is read past its last entry, where it is zero.    *)
EnumerateOverreads ==
  /\ pc = "round"
  /\ \/ /\ cancelled \/ Live = {}
        /\ EndWait(IF cancelled THEN "MembersRemain" ELSE "AllMembersExited")
     \/ /\ ~ cancelled /\ Live # {}
        /\ todo' = Live \cup {0}
        /\ opened' = {} /\ refused' = FALSE
        /\ Goto("open_members")
        /\ UNCHANGED <<who, dup, elapsed>>
  /\ UNCHANGED <<setting, reactorVars, handleVars, slot, killOnClose>>

(* The top of a round: cancellation first, then the list, and only then    *)
(* whether there is time for anything else.                                *)
Enumerate == /\ pc = "round"
             /\ \/ /\ cancelled
                   /\ EndWait("MembersRemain")
                \/ /\ ~ cancelled /\ Live = {}
                   /\ EndWait("AllMembersExited")
                \/ /\ ~ cancelled /\ Live # {}
                   /\ \E batch \in SUBSET Live :
                         /\ Cardinality(batch) =
                              IF Cardinality(Live) < Budget THEN Cardinality(Live) ELSE Budget
                         /\ todo' = batch
                   /\ opened' = {} /\ refused' = FALSE
                   /\ Goto("open_members")
                   /\ UNCHANGED <<who, dup, elapsed>>
                \/ /\ ~ cancelled /\ Faults
                   /\ EndWait("Err")
             /\ UNCHANGED <<setting, reactorVars, handleVars, slot, killOnClose>>

(* OpenProcess pins the pid; IsProcessInJob then filters out a stranger    *)
(* that was given the pid since it was listed.                             *)
OpenMember(p) ==
  /\ pc = "open_members" /\ p \in todo
  /\ todo' = todo \ {p}
  /\ opened' = IF p \in Live \ setting.denied THEN opened \cup {p} ELSE opened
  /\ refused' = (refused \/ (who[p] # "free" /\ p \in setting.denied))
  /\ UNCHANGED <<drainCallVars, slot, killOnClose, dup, elapsed>>

(* Nothing to wait on: a failure, the end of a late call, or a new round.  *)
JudgeRound == /\ pc = "open_members" /\ todo = {}
              /\ elapsed' = late
              /\ \/ /\ opened # {}
                    /\ Goto("block")
                    /\ UNCHANGED <<who, dup, todo, opened, refused>>
                 \/ /\ opened = {} /\ ~ refused /\ ~ late
                    /\ Goto("round")
                    /\ UNCHANGED <<who, dup, todo, opened, refused>>
              /\ UNCHANGED <<setting, reactorVars, handleVars, slot, killOnClose>>

EndRound == /\ pc = "open_members" /\ todo = {} /\ opened = {}
            /\ \/ refused /\ EndWait("Err")
               \/ ~ refused /\ late /\ EndWait("MembersRemain")
            /\ UNCHANGED <<setting, reactorVars, handleVars, slot, killOnClose>>

(* WaitForMultipleObjects over the members and, last, the cancel event:    *)
(* the first of them that is signalled wins.                               *)
Exited == opened \ Live # {}
WaitForAny == /\ InJob /\ pc = "block"
              /\ \/ /\ Exited
                    /\ Goto("round")
                    /\ todo' = {} /\ opened' = {} /\ refused' = FALSE
                    /\ UNCHANGED <<who, dup, elapsed>>
                 \/ /\ ~ Exited /\ (cancelled \/ late)
                    /\ EndWait("MembersRemain")
                 \/ /\ Faults
                    /\ EndWait("Err")
              /\ UNCHANGED <<setting, reactorVars, handleVars, slot, killOnClose>>

(* SignalOnDrop: the watcher goes on with its duplicate until it sees the  *)
(* cancel event.                                                           *)
CancelWatcher == /\ InJob /\ Async /\ ~ cancelled
                 /\ pc \in {"round", "open_members", "block"}
                 /\ cancelled' = TRUE
                 /\ UNCHANGED <<treeVars, reactorVars, pc, late, gone, verdict, handleVars, jobVars>>

-----------------------------------------------------------------------------
(* JobHandle::hard_kill: take the handle, terminate the job, close.        *)
TakeHandle(t) == /\ InJob /\ MayKill(t)
                 /\ slot' = "null"
                 /\ killer' = [killer EXCEPT ![t] = IF slot = "live" THEN "took" ELSE "Ok"]
                 /\ UNCHANGED <<treeVars, reactorVars, callVars, owner, detached,
                                killOnClose, dup, roundVars>>

Terminate(t) == /\ killer[t] = "took"
                /\ \/ /\ who' = Doom(who)
                      /\ killer' = [killer EXCEPT ![t] = "closing"]
                   \/ /\ Faults
                      /\ killer' = [killer EXCEPT ![t] = "failed"]
                      /\ UNCHANGED who
                /\ UNCHANGED <<setting, reactorVars, callVars, owner, detached, jobVars>>

CloseTaken(t) == /\ killer[t] \in {"closing", "failed"}
                 /\ CloseHandle(dup)
                 /\ killer' = [killer EXCEPT ![t] = IF killer[t] = "closing" THEN "Ok" ELSE "Err"]
                 /\ UNCHANGED <<setting, reactorVars, callVars, owner, detached, jobVars>>

(* As a mutant: the limit is left in force.                                *)
DisarmForgets == UNCHANGED <<killOnClose, slot, dup, roundVars>>

(* disarm clears the limit, or logs that it could not.                     *)
Disarm == /\ \/ killOnClose' = (killOnClose /\ slot = "null")
             \/ Faults /\ UNCHANGED killOnClose
          /\ UNCHANGED <<slot, dup, roundVars>>
JobDetach == InJob /\ Detach(Disarm)

TerminateJob == IF slot = "live" THEN who' = Doom(who) \/ (Faults /\ UNCHANGED who)
                ELSE UNCHANGED who
JobTearDown == InJob /\ TearDown(TerminateJob) /\ UNCHANGED jobVars

(* JobHandle::drop: closing the handle IS the teardown of what is armed.   *)
CloseJob == /\ InJob /\ owner = "releasing"
            /\ owner' = "released"
            /\ slot' = "null"
            /\ IF slot = "live" THEN CloseHandle(dup) ELSE UNCHANGED who
            /\ UNCHANGED <<setting, reactorVars, callVars, killer, detached,
                           killOnClose, dup, roundVars>>

JobWait == Duplicate \/ Enumerate \/ JudgeRound \/ EndRound \/ WaitForAny
             \/ \E p \in Pid : OpenMember(p)
JobKill == \E t \in Thread : Terminate(t) \/ CloseTaken(t)
JobOwner == JobTearDown \/ CloseJob
JobNext == \/ JobBegin \/ JobWait \/ CancelWatcher
           \/ JobKill \/ JobDetach \/ JobOwner
           \/ \E t \in Thread : TakeHandle(t)
=============================================================================
