------------------------------ MODULE WaitTree ------------------------------
(***************************************************************************)
(* wait_tree over the mechanism that contains the child: Attached and its  *)
(* tokio counterpart wait_tree_drained_dispatch, composed with the tree,   *)
(* the threads that kill it and the owner who detaches or drops it.        *)
(*                                                                         *)
(*   src/src/containment/dispatch.rs   Attached::wait_drained, disarm      *)
(*   src/src/tokio/wait.rs             wait_tree_drained_dispatch          *)
(***************************************************************************)
EXTENDS CgroupDrain, JobDrain, MarkerDrain

vars == <<drainCallVars, leaf, jobVars, full>>

CallLabel == {"idle", "over", "open", "read", "check", "block", "clear",
              "dup", "round", "open_members",
              "check_read_end", "arm", "arm_probe", "clock", "kevent", "last", "drain"}

(* Every variable holds a value of its kind.                               *)
TypeOK == /\ DrainCallTypeOK
          /\ pc \in CallLabel
          /\ leaf \in {"present", "removed"}
          /\ slot \in {"live", "null"}
          /\ {killOnClose, dup, refused, elapsed, full} \subseteq BOOLEAN
          /\ todo \subseteq Pid /\ opened \subseteq Pid

Init == /\ DrainCallInit
        /\ leaf = "present"
        /\ slot = "live"
        /\ killOnClose = TRUE
        /\ dup = FALSE
        /\ todo = {} /\ opened = {}
        /\ refused = FALSE
        /\ elapsed = FALSE
        /\ full = FALSE

Cgroup == CgroupNext /\ UNCHANGED <<jobVars, full>>
Job == JobNext /\ UNCHANGED <<leaf, full>>
Marker == MarkerNext /\ UNCHANGED <<leaf, jobVars>>

Host == /\ HostStep(opened)
        /\ CASE InLeaf -> CgroupNotice
             [] InJob -> UNCHANGED <<changed, queued>>
             [] OnMarker -> MarkerNotice
        /\ UNCHANGED <<setting, ready, newer, pc, late, cancelled, verdict, handleVars,
                       leaf, jobVars, full>>

Clock == DeadlinePasses /\ UNCHANGED <<leaf, jobVars, full>>

Owner == (Drop \/ (~ InJob /\ DropFuture)) /\ UNCHANGED <<leaf, jobVars, full>>

Next == Host \/ Clock \/ Owner \/ Cgroup \/ Job \/ Marker

Spec == Init /\ [][Next]_vars

-----------------------------------------------------------------------------
(* Whoever is inside a call goes on, the reactor delivers, time passes,    *)
(* and a process that was killed exits.  Nobody has to fork, exit, kill,   *)
(* cancel, detach or drop.                                                 *)
CallGoesOn == \/ CgroupWait /\ UNCHANGED <<jobVars, full>>
              \/ JobWait /\ UNCHANGED <<leaf, full>>
              \/ MarkerWait /\ UNCHANGED <<leaf, jobVars>>
ReactorTurns == \/ CgroupDeliver /\ UNCHANGED <<jobVars, full>>
                \/ MarkerDeliver /\ UNCHANGED <<leaf, jobVars>>
OwnerGoesOn == \/ CgroupOwner /\ UNCHANGED <<jobVars, full>>
               \/ JobOwner /\ UNCHANGED <<leaf, full>>
KillGoesOn == JobKill /\ UNCHANGED <<leaf, full>>
DoomedExit == Host /\ \E p \in Pid : who[p] = "doomed" /\ who'[p] = "free"

Fairness == /\ WF_vars(CallGoesOn)
            /\ WF_vars(ReactorTurns)
            /\ WF_vars(OwnerGoesOn)
            /\ WF_vars(KillGoesOn)
            /\ WF_vars(Clock)
            /\ WF_vars(DoomedExit)

FairSpec == Spec /\ Fairness

-----------------------------------------------------------------------------
(* What the tree can no longer tell: system calls fail, the job's handle   *)
(* is gone, a member may not be opened, or a copy of the marker's write    *)
(* end has stayed in this process.                                         *)
Impaired == Faults \/ slot = "null" \/ setting.denied # {} \/ setting.ownCopy

Promise == INSTANCE TreeDrain WITH
             live <- Live,
             call <- IF cancelled THEN "abandoned"
                     ELSE IF pc = "idle" THEN "none"
                     ELSE IF Waiting THEN "waiting" ELSE "answered",
             impaired <- Impaired,
             mayMiss <- Mechanism = "marker" /\ (Async \/ setting.ownCopy),
             verdict <- IF verdict \in {"AllMembersExited", "AllMarkersClosed"} THEN "Drained"
                        ELSE verdict

(* Each mechanism's wait is a TreeDrain: a drain is reported only of an    *)
(* empty tree, and MembersRemain only when time is up and the tree was not *)
(* empty throughout, whatever forks, exits, kills, removals and stale      *)
(* readiness come in between.                                              *)
ImplementsDrain == Promise!Spec

(* No lost wake-up: if the tree is empty for good, no wait stays waiting,  *)
(* deadline or not (read-before-arm, the sticky EOF, the re-enumeration).  *)
DrainIsSeen == <>[](Live = {}) => []<>(~ Waiting)

(* A bounded wait ends, and so does the watcher a dropped future leaves    *)
(* behind.  Apart: a job whose members keep forking, and a tokio wait on a *)
(* marker that is being written full all the time.                         *)
BoundedWaitEnds ==
  (Waiting /\ (cancelled \/ (Bounded /\ ~ (InJob /\ setting.forks)
                                     /\ ~ (Async /\ setting.writes))))
     ~> ~ Waiting

(* Dropping a handle that was not opted out brings the tree down: by       *)
(* cgroup.kill, by TerminateJobObject or, where that fails, by the last    *)
(* handle closing, be it the one a watcher still holds.                    *)
DroppedTreeDies ==
  (owner = "released" /\ ~ OptedOut /\ (InJob \/ ~ Faults) /\ ~ setting.adopts) ~> (Live = {})

(* detach leaves the tree running: from then on nothing the crate does     *)
(* kills one of its members, unless kill_tree is asked for.                *)
Kills == \E p \in Pid : who[p] = "member" /\ who'[p] = "doomed"
DetachedTreeRuns == [][detached /\ setting.killers = {} => ~ Kills]_vars

(* ... which disarm sees to for a job, when the kernel lets it, although a *)
(* watcher's duplicate may be what closes last.                            *)
DetachedJobRuns == [][InJob /\ ~ Faults /\ detached /\ setting.killers = {} => ~ Kills]_vars
=============================================================================
