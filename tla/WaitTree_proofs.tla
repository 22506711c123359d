-------------------------- MODULE WaitTree_proofs --------------------------
(***************************************************************************)
(* Every wait keeps the promise of TreeDrain, and a detached job is left   *)
(* alone, for any set of pids and threads and any host and call the        *)
(* settings may describe.                                                  *)
(***************************************************************************)
EXTENDS WaitTree, TLAPS

-----------------------------------------------------------------------------
(* The inductive invariant.  A wait is only ever in its own mechanism.     *)
LabelsFit == /\ pc \in {"open", "read", "check"} => InLeaf
             /\ pc \in {"dup", "round", "open_members"} => InJob
             /\ pc \in {"check_read_end", "arm", "arm_probe", "clock", "kevent", "last", "drain"}
                  => OnMarker
             /\ pc = "clear" => ~ InJob
             /\ pc = "idle" => ~ cancelled
             /\ pc \in {"arm_probe", "last"} => late

(* What has been empty since the call began is empty, and so is a leaf     *)
(* that could be removed.                                                  *)
EmptyIsEmpty == /\ gone => Live = {}
                /\ leaf = "removed" => InLeaf /\ Live = {}

(* A wait on a leaf or a job has looked before it blocks, and saw someone. *)
LookedFirst == /\ InLeaf /\ pc \in {"check", "block", "clear"} => ~ gone
               /\ InJob /\ pc \in {"open_members", "block"} => ~ gone

(* The end of file stays pending until a wait has taken it.                *)
EofIsPending == OnMarker /\ Armed /\ gone /\ ~ setting.ownCopy => changed

RefusalHasCause == refused => setting.denied # {}

DrainInv == LabelsFit /\ EmptyIsEmpty /\ LookedFirst /\ EofIsPending /\ RefusalHasCause

-----------------------------------------------------------------------------
(* SIGKILL and TerminateJobObject leave everyone where they are for now.   *)
LEMMA DoomKeepsLive ==
  ASSUME who' = Doom(who) \/ who' = who, who \in [Pid -> Occupant]
  PROVE  Live' = Live /\ who' \in [Pid -> Occupant]
BY DEF Doom, Live, Occupant

(* The kinds of the variables, group by group.                             *)
TreeKinds == setting \in Settings /\ who \in [Pid -> Occupant]
CallKinds == /\ pc \in CallLabel
             /\ verdict \in Outcome
             /\ late \in BOOLEAN /\ gone \in BOOLEAN /\ cancelled \in BOOLEAN
ReactorKinds == /\ changed \in BOOLEAN /\ queued \in BOOLEAN
                /\ ready \in BOOLEAN /\ newer \in BOOLEAN
HandleKinds == /\ killer \in [Thread -> {"idle", "took", "closing", "failed", "Ok", "Err"}]
               /\ owner \in {"held", "dropping", "releasing", "rekill", "rmdir", "released"}
               /\ detached \in BOOLEAN
JobKinds == /\ slot \in {"live", "null"}
            /\ killOnClose \in BOOLEAN /\ dup \in BOOLEAN
            /\ refused \in BOOLEAN /\ elapsed \in BOOLEAN
            /\ todo \subseteq Pid /\ opened \subseteq Pid
RestKinds == leaf \in {"present", "removed"} /\ full \in BOOLEAN

Kinds == TreeKinds /\ CallKinds /\ ReactorKinds /\ HandleKinds /\ JobKinds /\ RestKinds

LEMMA KindsAreTypes == (TypeOK <=> Kinds) /\ (TypeOK' <=> Kinds')
<1> USE DEF TypeOK, DrainCallTypeOK, Kinds, TreeKinds, CallKinds, ReactorKinds, HandleKinds,
        JobKinds, RestKinds
<1>1. TypeOK <=> Kinds
  OBVIOUS
<1>2. TypeOK' <=> Kinds'
  OBVIOUS
<1> QED
  BY <1>1, <1>2

(* A group nobody touches keeps its kinds.                                 *)
LEMMA Frames ==
  ASSUME Kinds
  PROVE  /\ treeVars' = treeVars => TreeKinds'
         /\ callVars' = callVars => CallKinds'
         /\ reactorVars' = reactorVars => ReactorKinds'
         /\ handleVars' = handleVars => HandleKinds'
         /\ jobVars' = jobVars => JobKinds'
         /\ leaf' = leaf /\ full' = full => RestKinds'
<1>1. treeVars' = treeVars => TreeKinds'
  BY DEF Kinds, TreeKinds, treeVars
<1>2. callVars' = callVars => CallKinds'
  BY DEF Kinds, CallKinds, callVars
<1>3. reactorVars' = reactorVars => ReactorKinds'
  BY DEF Kinds, ReactorKinds, reactorVars
<1>4. handleVars' = handleVars => HandleKinds'
  BY DEF Kinds, HandleKinds, handleVars
<1>5. jobVars' = jobVars => JobKinds'
  BY DEF Kinds, JobKinds, jobVars
<1>6. leaf' = leaf /\ full' = full => RestKinds'
  BY DEF Kinds, RestKinds
<1> QED
  BY <1>1, <1>2, <1>3, <1>4, <1>5, <1>6

(* The kinds of the variables, under each step on a leaf.                  *)
LEMMA TypeOfCgroup ==
  ASSUME TypeOK, Cgroup
  PROVE  TypeOK'
<1> SUFFICES ASSUME Kinds
             PROVE  Kinds'
  BY KindsAreTypes
<1>0. UNCHANGED <<jobVars, full>> /\ CgroupNext
  BY DEF Cgroup
<1>a. TreeKinds /\ CallKinds /\ ReactorKinds /\ HandleKinds /\ JobKinds /\ RestKinds
  BY DEF Kinds
<1>1. CASE CgroupBegin
  <2>1. /\ treeVars' = treeVars
       /\ reactorVars' = reactorVars
       /\ handleVars' = handleVars
       /\ jobVars' = jobVars
       /\ leaf' = leaf /\ full' = full
    BY <1>0, <1>1 DEF CgroupBegin, Begin
  <2>2. CallKinds'
    BY <1>0, <1>a, <1>1 DEF CgroupBegin, Begin, CallKinds, CallLabel, Outcome
  <2> QED
    BY <2>1, <2>2, Frames DEF Kinds
<1>2. CASE OpenEvents
  <2>1. /\ treeVars' = treeVars
       /\ handleVars' = handleVars
       /\ jobVars' = jobVars
       /\ leaf' = leaf /\ full' = full
    BY <1>0, <1>2 DEF OpenEvents, Goto, Answer
  <2>2. CallKinds'
    BY <1>0, <1>a, <1>2 DEF OpenEvents, Goto, Answer, CallKinds, CallLabel, Outcome
  <2>3. ReactorKinds'
    BY <1>0, <1>a, DrainAssumption, <1>2
       DEF OpenEvents, Goto, Answer, ReactorKinds, Async, TreeKinds
  <2> QED
    BY <2>1, <2>2, <2>3, Frames DEF Kinds
<1>3. CASE ReadPopulated
  <2>1. /\ treeVars' = treeVars
       /\ handleVars' = handleVars
       /\ jobVars' = jobVars
       /\ leaf' = leaf /\ full' = full
    BY <1>0, <1>3 DEF ReadPopulated, Goto, Answer
  <2>2. CallKinds'
    BY <1>0, <1>a, <1>3 DEF ReadPopulated, Goto, Answer, CallKinds, CallLabel, Outcome
  <2>3. ReactorKinds'
    BY <1>0, <1>a, <1>3 DEF ReadPopulated, Goto, Answer, ReactorKinds, Async
  <2> QED
    BY <2>1, <2>2, <2>3, Frames DEF Kinds
<1>4. CASE CheckDeadline
  <2>1. /\ treeVars' = treeVars
       /\ reactorVars' = reactorVars
       /\ handleVars' = handleVars
       /\ jobVars' = jobVars
       /\ leaf' = leaf /\ full' = full
    BY <1>0, <1>4 DEF CheckDeadline, Goto, Answer
  <2>2. CallKinds'
    BY <1>0, <1>a, <1>4 DEF CheckDeadline, Goto, Answer, CallKinds, CallLabel, Outcome
  <2> QED
    BY <2>1, <2>2, Frames DEF Kinds
<1>5. CASE Poll
  <2>1. /\ treeVars' = treeVars
       /\ reactorVars' = reactorVars
       /\ handleVars' = handleVars
       /\ jobVars' = jobVars
       /\ leaf' = leaf /\ full' = full
    BY <1>0, <1>5 DEF Poll, Goto, Answer
  <2>2. CallKinds'
    BY <1>0, <1>a, <1>5 DEF Poll, Goto, Answer, CallKinds, CallLabel, Outcome
  <2> QED
    BY <2>1, <2>2, Frames DEF Kinds
<1>6. CASE CgroupWakes
  <2>1. /\ treeVars' = treeVars
       /\ handleVars' = handleVars
       /\ jobVars' = jobVars
       /\ leaf' = leaf /\ full' = full
    BY <1>0, <1>6 DEF CgroupWakes, TakeReady, Goto
  <2>2. CallKinds'
    BY <1>0, <1>a, <1>6 DEF CgroupWakes, TakeReady, Goto, CallKinds, CallLabel, Outcome
  <2>3. ReactorKinds'
    BY <1>0, <1>a, <1>6 DEF CgroupWakes, TakeReady, Goto, ReactorKinds, Async
  <2> QED
    BY <2>1, <2>2, <2>3, Frames DEF Kinds
<1>7. CASE CgroupClears
  <2>1. /\ treeVars' = treeVars
       /\ handleVars' = handleVars
       /\ jobVars' = jobVars
       /\ leaf' = leaf /\ full' = full
    BY <1>0, <1>7 DEF CgroupClears, ClearReady, Goto
  <2>2. CallKinds'
    BY <1>0, <1>a, <1>7 DEF CgroupClears, ClearReady, Goto, CallKinds, CallLabel, Outcome
  <2>3. ReactorKinds'
    BY <1>0, <1>a, <1>7 DEF CgroupClears, ClearReady, Goto, ReactorKinds, Async
  <2> QED
    BY <2>1, <2>2, <2>3, Frames DEF Kinds
<1>8. CASE CgroupTimerWins
  <2>1. /\ treeVars' = treeVars
       /\ reactorVars' = reactorVars
       /\ handleVars' = handleVars
       /\ jobVars' = jobVars
       /\ leaf' = leaf /\ full' = full
    BY <1>0, <1>8 DEF CgroupTimerWins, TimerWins, Answer
  <2>2. CallKinds'
    BY <1>0, <1>a, <1>8 DEF CgroupTimerWins, TimerWins, Answer, CallKinds, CallLabel, Outcome
  <2> QED
    BY <2>1, <2>2, Frames DEF Kinds
<1>9. CASE CgroupDeliver
  <2>1. /\ treeVars' = treeVars
       /\ callVars' = callVars
       /\ handleVars' = handleVars
       /\ jobVars' = jobVars
       /\ leaf' = leaf /\ full' = full
    BY <1>0, <1>9 DEF CgroupDeliver, Deliver
  <2>2. ReactorKinds'
    BY <1>0, <1>a, <1>9 DEF CgroupDeliver, Deliver, ReactorKinds, Async
  <2> QED
    BY <2>1, <2>2, Frames DEF Kinds
<1>10. CASE ManagerRemoves
  <2>1. /\ treeVars' = treeVars
       /\ callVars' = callVars
       /\ reactorVars' = reactorVars
       /\ handleVars' = handleVars
       /\ jobVars' = jobVars
    BY <1>0, <1>10 DEF ManagerRemoves, drainCallVars
  <2>2. RestKinds'
    BY <1>0, <1>a, <1>10 DEF ManagerRemoves, drainCallVars, RestKinds
  <2> QED
    BY <2>1, <2>2, Frames DEF Kinds
<1>11. CASE CgroupDetach
  <2>1. /\ treeVars' = treeVars
       /\ callVars' = callVars
       /\ reactorVars' = reactorVars
       /\ jobVars' = jobVars
       /\ leaf' = leaf /\ full' = full
    BY <1>0, <1>11 DEF CgroupDetach, Detach
  <2>2. HandleKinds'
    BY <1>0, <1>a, <1>11 DEF CgroupDetach, Detach, HandleKinds
  <2> QED
    BY <2>1, <2>2, Frames DEF Kinds
<1>12. CASE CgroupTearDown
  <2>1. /\ callVars' = callVars
       /\ reactorVars' = reactorVars
       /\ jobVars' = jobVars
       /\ leaf' = leaf /\ full' = full
    BY <1>0, <1>12 DEF CgroupTearDown, TearDown, WriteKill
  <2>2. TreeKinds'
    <3>1. setting' = setting /\ (who' = Doom(who) \/ who' = who)
      BY <1>12 DEF CgroupTearDown, TearDown, WriteKill
    <3> QED
      BY <1>a, <3>1, DoomKeepsLive DEF TreeKinds
  <2>3. HandleKinds'
    BY <1>0, <1>a, <1>12 DEF CgroupTearDown, TearDown, WriteKill, HandleKinds
  <2> QED
    BY <2>1, <2>2, <2>3, Frames DEF Kinds
<1>13. CASE RemoveLeaf
  <2>1. /\ treeVars' = treeVars
       /\ callVars' = callVars
       /\ reactorVars' = reactorVars
       /\ jobVars' = jobVars
    BY <1>0, <1>13 DEF RemoveLeaf, Release, Rmdir, treeVars
  <2>2. HandleKinds'
    BY <1>0, <1>a, <1>13 DEF RemoveLeaf, Release, Rmdir, treeVars, HandleKinds
  <2>3. RestKinds'
    BY <1>0, <1>a, <1>13 DEF RemoveLeaf, Release, Rmdir, treeVars, RestKinds
  <2> QED
    BY <2>1, <2>2, <2>3, Frames DEF Kinds
<1>14. CASE KillOccupants
  <2>1. /\ callVars' = callVars
       /\ reactorVars' = reactorVars
       /\ jobVars' = jobVars
       /\ leaf' = leaf /\ full' = full
    BY <1>0, <1>14 DEF KillOccupants, Release, WriteKill
  <2>2. TreeKinds'
    <3>1. setting' = setting /\ (who' = Doom(who) \/ who' = who)
      BY <1>14 DEF KillOccupants, Release, WriteKill
    <3> QED
      BY <1>a, <3>1, DoomKeepsLive DEF TreeKinds
  <2>3. HandleKinds'
    BY <1>0, <1>a, <1>14 DEF KillOccupants, Release, WriteKill, HandleKinds
  <2> QED
    BY <2>1, <2>2, <2>3, Frames DEF Kinds
<1>15. CASE RetryRemoval
  <2>1. /\ treeVars' = treeVars
       /\ callVars' = callVars
       /\ reactorVars' = reactorVars
       /\ jobVars' = jobVars
    BY <1>0, <1>15 DEF RetryRemoval, Release, Rmdir, treeVars
  <2>2. HandleKinds'
    BY <1>0, <1>a, <1>15 DEF RetryRemoval, Release, Rmdir, treeVars, HandleKinds
  <2>3. RestKinds'
    BY <1>0, <1>a, <1>15 DEF RetryRemoval, Release, Rmdir, treeVars, RestKinds
  <2> QED
    BY <2>1, <2>2, <2>3, Frames DEF Kinds
<1>16. ASSUME NEW t \in Thread, CgroupKill(t)
       PROVE  Kinds'
  <2>1. /\ callVars' = callVars
       /\ reactorVars' = reactorVars
       /\ jobVars' = jobVars
       /\ leaf' = leaf /\ full' = full
    BY <1>0, <1>16 DEF CgroupKill, WriteKill
  <2>2. TreeKinds'
    <3>1. setting' = setting /\ (who' = Doom(who) \/ who' = who)
      BY <1>16 DEF CgroupKill, WriteKill
    <3> QED
      BY <1>a, <3>1, DoomKeepsLive DEF TreeKinds
  <2>3. HandleKinds'
    BY <1>0, <1>a, <1>16 DEF CgroupKill, WriteKill, HandleKinds
  <2> QED
    BY <2>1, <2>2, <2>3, Frames DEF Kinds
<1> QED
  BY <1>0, <1>1, <1>2, <1>3, <1>4, <1>5, <1>6, <1>7, <1>8, <1>9, <1>10, <1>11, <1>12, <1>13, <1>14, <1>15, <1>16
     DEF CgroupNext, CgroupWait, CgroupOwner

(* ... under each step on a job, whose rounds list members of the tree     *)
(* only.                                                                   *)
LEMMA TypeOfJob ==
  ASSUME TypeOK, Job
  PROVE  TypeOK'
<1> SUFFICES ASSUME Kinds
             PROVE  Kinds'
  BY KindsAreTypes
<1>0. UNCHANGED <<leaf, full>> /\ JobNext
  BY DEF Job
<1>a. TreeKinds /\ CallKinds /\ ReactorKinds /\ HandleKinds /\ JobKinds /\ RestKinds
  BY DEF Kinds
<1>1. CASE JobBegin
  <2>1. /\ treeVars' = treeVars
       /\ reactorVars' = reactorVars
       /\ handleVars' = handleVars
       /\ jobVars' = jobVars
       /\ leaf' = leaf /\ full' = full
    BY <1>0, <1>1 DEF JobBegin, Begin
  <2>2. CallKinds'
    BY <1>0, <1>a, <1>1 DEF JobBegin, Begin, CallKinds, CallLabel, Outcome
  <2> QED
    BY <2>1, <2>2, Frames DEF Kinds
<1>2. CASE Duplicate
  <2>1. /\ treeVars' = treeVars
       /\ reactorVars' = reactorVars
       /\ handleVars' = handleVars
       /\ leaf' = leaf /\ full' = full
    BY <1>0, <1>2 DEF Duplicate, Goto, Answer
  <2>2. CallKinds'
    BY <1>0, <1>a, <1>2 DEF Duplicate, Goto, Answer, CallKinds, CallLabel, Outcome
  <2>3. JobKinds'
    BY <1>0, <1>a, <1>2 DEF Duplicate, Goto, Answer, JobKinds, Live, roundVars
  <2> QED
    BY <2>1, <2>2, <2>3, Frames DEF Kinds
<1>3. CASE Enumerate
  <2>1. /\ reactorVars' = reactorVars
       /\ handleVars' = handleVars
       /\ leaf' = leaf /\ full' = full
    BY <1>0, <1>3 DEF Enumerate, EndWait, CloseHandle, Goto, Answer
  <2>2. TreeKinds'
    <3>1. setting' = setting /\ (who' = Doom(who) \/ who' = who)
      BY <1>3 DEF Enumerate, EndWait, CloseHandle, Goto, Answer
    <3> QED
      BY <1>a, <3>1, DoomKeepsLive DEF TreeKinds
  <2>3. CallKinds'
    BY <1>0, <1>a, <1>3
       DEF Enumerate, EndWait, CloseHandle, Goto, Answer, CallKinds, CallLabel, Outcome
  <2>4. JobKinds'
    BY <1>0, <1>a, <1>3 DEF Enumerate, EndWait, CloseHandle, Goto, Answer, JobKinds, Live, roundVars
  <2> QED
    BY <2>1, <2>2, <2>3, <2>4, Frames DEF Kinds
<1>4. ASSUME NEW p \in Pid, OpenMember(p)
      PROVE  Kinds'
  <2>1. /\ treeVars' = treeVars
       /\ callVars' = callVars
       /\ reactorVars' = reactorVars
       /\ handleVars' = handleVars
       /\ leaf' = leaf /\ full' = full
    BY <1>0, <1>4 DEF OpenMember, drainCallVars, Live
  <2>2. JobKinds'
    BY <1>0, <1>a, <1>4 DEF OpenMember, drainCallVars, Live, JobKinds, Live, roundVars
  <2> QED
    BY <2>1, <2>2, Frames DEF Kinds
<1>5. CASE JudgeRound
  <2>1. /\ reactorVars' = reactorVars
       /\ handleVars' = handleVars
       /\ leaf' = leaf /\ full' = full
    BY <1>0, <1>5 DEF JudgeRound, Goto
  <2>2. TreeKinds'
    <3>1. setting' = setting /\ (who' = Doom(who) \/ who' = who)
      BY <1>5 DEF JudgeRound, Goto
    <3> QED
      BY <1>a, <3>1, DoomKeepsLive DEF TreeKinds
  <2>3. CallKinds'
    BY <1>0, <1>a, <1>5 DEF JudgeRound, Goto, CallKinds, CallLabel, Outcome
  <2>4. JobKinds'
    BY <1>0, <1>a, <1>5 DEF JudgeRound, Goto, JobKinds, Live, roundVars, CallKinds
  <2> QED
    BY <2>1, <2>2, <2>3, <2>4, Frames DEF Kinds
<1>6. CASE EndRound
  <2>1. /\ reactorVars' = reactorVars
       /\ handleVars' = handleVars
       /\ leaf' = leaf /\ full' = full
    BY <1>0, <1>6 DEF EndRound, EndWait, CloseHandle, Answer
  <2>2. TreeKinds'
    <3>1. setting' = setting /\ (who' = Doom(who) \/ who' = who)
      BY <1>6 DEF EndRound, EndWait, CloseHandle, Answer
    <3> QED
      BY <1>a, <3>1, DoomKeepsLive DEF TreeKinds
  <2>3. CallKinds'
    BY <1>0, <1>a, <1>6 DEF EndRound, EndWait, CloseHandle, Answer, CallKinds, CallLabel, Outcome
  <2>4. JobKinds'
    BY <1>0, <1>a, <1>6 DEF EndRound, EndWait, CloseHandle, Answer, JobKinds, Live, roundVars
  <2> QED
    BY <2>1, <2>2, <2>3, <2>4, Frames DEF Kinds
<1>7. CASE WaitForAny
  <2>1. /\ reactorVars' = reactorVars
       /\ handleVars' = handleVars
       /\ leaf' = leaf /\ full' = full
    BY <1>0, <1>7 DEF WaitForAny, EndWait, CloseHandle, Goto, Answer
  <2>2. TreeKinds'
    <3>1. setting' = setting /\ (who' = Doom(who) \/ who' = who)
      BY <1>7 DEF WaitForAny, EndWait, CloseHandle, Goto, Answer
    <3> QED
      BY <1>a, <3>1, DoomKeepsLive DEF TreeKinds
  <2>3. CallKinds'
    BY <1>0, <1>a, <1>7
       DEF WaitForAny, EndWait, CloseHandle, Goto, Answer, CallKinds, CallLabel, Outcome
  <2>4. JobKinds'
    BY <1>0, <1>a, <1>7
       DEF WaitForAny, EndWait, CloseHandle, Goto, Answer, JobKinds, Live, roundVars
  <2> QED
    BY <2>1, <2>2, <2>3, <2>4, Frames DEF Kinds
<1>8. CASE CancelWatcher
  <2>1. /\ treeVars' = treeVars
       /\ reactorVars' = reactorVars
       /\ handleVars' = handleVars
       /\ jobVars' = jobVars
       /\ leaf' = leaf /\ full' = full
    BY <1>0, <1>8 DEF CancelWatcher
  <2>2. CallKinds'
    BY <1>0, <1>a, <1>8 DEF CancelWatcher, CallKinds, CallLabel, Outcome
  <2> QED
    BY <2>1, <2>2, Frames DEF Kinds
<1>9. ASSUME NEW t \in Thread, TakeHandle(t)
      PROVE  Kinds'
  <2>1. /\ treeVars' = treeVars
       /\ callVars' = callVars
       /\ reactorVars' = reactorVars
       /\ leaf' = leaf /\ full' = full
    BY <1>0, <1>9 DEF TakeHandle
  <2>2. HandleKinds'
    BY <1>0, <1>a, <1>9 DEF TakeHandle, HandleKinds
  <2>3. JobKinds'
    BY <1>0, <1>a, <1>9 DEF TakeHandle, JobKinds, Live, roundVars
  <2> QED
    BY <2>1, <2>2, <2>3, Frames DEF Kinds
<1>10. ASSUME NEW t \in Thread, Terminate(t)
       PROVE  Kinds'
  <2>1. /\ callVars' = callVars
       /\ reactorVars' = reactorVars
       /\ jobVars' = jobVars
       /\ leaf' = leaf /\ full' = full
    BY <1>0, <1>10 DEF Terminate
  <2>2. TreeKinds'
    <3>1. setting' = setting /\ (who' = Doom(who) \/ who' = who)
      BY <1>10 DEF Terminate
    <3> QED
      BY <1>a, <3>1, DoomKeepsLive DEF TreeKinds
  <2>3. HandleKinds'
    BY <1>0, <1>a, <1>10 DEF Terminate, HandleKinds
  <2> QED
    BY <2>1, <2>2, <2>3, Frames DEF Kinds
<1>11. ASSUME NEW t \in Thread, CloseTaken(t)
       PROVE  Kinds'
  <2>1. /\ callVars' = callVars
       /\ reactorVars' = reactorVars
       /\ jobVars' = jobVars
       /\ leaf' = leaf /\ full' = full
    BY <1>0, <1>11 DEF CloseTaken, CloseHandle
  <2>2. TreeKinds'
    <3>1. setting' = setting /\ (who' = Doom(who) \/ who' = who)
      BY <1>11 DEF CloseTaken, CloseHandle
    <3> QED
      BY <1>a, <3>1, DoomKeepsLive DEF TreeKinds
  <2>3. HandleKinds'
    BY <1>0, <1>a, <1>11 DEF CloseTaken, CloseHandle, HandleKinds
  <2> QED
    BY <2>1, <2>2, <2>3, Frames DEF Kinds
<1>12. CASE JobDetach
  <2>1. /\ treeVars' = treeVars
       /\ callVars' = callVars
       /\ reactorVars' = reactorVars
       /\ leaf' = leaf /\ full' = full
    BY <1>0, <1>12 DEF JobDetach, Detach, Disarm
  <2>2. HandleKinds'
    BY <1>0, <1>a, <1>12 DEF JobDetach, Detach, Disarm, HandleKinds
  <2>3. JobKinds'
    BY <1>0, <1>a, <1>12 DEF JobDetach, Detach, Disarm, JobKinds, Live, roundVars
  <2> QED
    BY <2>1, <2>2, <2>3, Frames DEF Kinds
<1>13. CASE JobTearDown
  <2>1. /\ callVars' = callVars
       /\ reactorVars' = reactorVars
       /\ jobVars' = jobVars
       /\ leaf' = leaf /\ full' = full
    BY <1>0, <1>13 DEF JobTearDown, TearDown, TerminateJob
  <2>2. TreeKinds'
    <3>1. setting' = setting /\ (who' = Doom(who) \/ who' = who)
      BY <1>13 DEF JobTearDown, TearDown, TerminateJob
    <3> QED
      BY <1>a, <3>1, DoomKeepsLive DEF TreeKinds
  <2>3. HandleKinds'
    BY <1>0, <1>a, <1>13 DEF JobTearDown, TearDown, TerminateJob, HandleKinds
  <2> QED
    BY <2>1, <2>2, <2>3, Frames DEF Kinds
<1>14. CASE CloseJob
  <2>1. /\ callVars' = callVars
       /\ reactorVars' = reactorVars
       /\ leaf' = leaf /\ full' = full
    BY <1>0, <1>14 DEF CloseJob, CloseHandle
  <2>2. TreeKinds'
    <3>1. setting' = setting /\ (who' = Doom(who) \/ who' = who)
      BY <1>14 DEF CloseJob, CloseHandle
    <3> QED
      BY <1>a, <3>1, DoomKeepsLive DEF TreeKinds
  <2>3. HandleKinds'
    BY <1>0, <1>a, <1>14 DEF CloseJob, CloseHandle, HandleKinds
  <2>4. JobKinds'
    BY <1>0, <1>a, <1>14 DEF CloseJob, CloseHandle, JobKinds, Live, roundVars
  <2> QED
    BY <2>1, <2>2, <2>3, <2>4, Frames DEF Kinds
<1> QED
  BY <1>0, <1>1, <1>2, <1>3, <1>4, <1>5, <1>6, <1>7, <1>8, <1>9, <1>10, <1>11, <1>12, <1>13, <1>14
     DEF JobNext, JobWait, JobKill, JobOwner

(* ... and under each step on a marker.                                    *)
LEMMA TypeOfMarker ==
  ASSUME TypeOK, Marker
  PROVE  TypeOK'
<1> SUFFICES ASSUME Kinds
             PROVE  Kinds'
  BY KindsAreTypes
<1>0. UNCHANGED <<leaf, jobVars>> /\ MarkerNext
  BY DEF Marker
<1>a. TreeKinds /\ CallKinds /\ ReactorKinds /\ HandleKinds /\ JobKinds /\ RestKinds
  BY DEF Kinds
<1>1. CASE MarkerBegin
  <2>1. /\ treeVars' = treeVars
       /\ reactorVars' = reactorVars
       /\ handleVars' = handleVars
       /\ jobVars' = jobVars
       /\ leaf' = leaf /\ full' = full
    BY <1>0, <1>1 DEF MarkerBegin, Begin
  <2>2. CallKinds'
    BY <1>0, <1>a, <1>1 DEF MarkerBegin, Begin, CallKinds, CallLabel, Outcome
  <2> QED
    BY <2>1, <2>2, Frames DEF Kinds
<1>2. CASE CheckReadEnd
  <2>1. /\ treeVars' = treeVars
       /\ reactorVars' = reactorVars
       /\ handleVars' = handleVars
       /\ jobVars' = jobVars
       /\ leaf' = leaf /\ full' = full
    BY <1>0, <1>2 DEF CheckReadEnd, Goto, Answer
  <2>2. CallKinds'
    BY <1>0, <1>a, <1>2 DEF CheckReadEnd, Goto, Answer, CallKinds, CallLabel, Outcome
  <2> QED
    BY <2>1, <2>2, Frames DEF Kinds
<1>3. CASE Arm
  <2>1. /\ treeVars' = treeVars
       /\ handleVars' = handleVars
       /\ jobVars' = jobVars
       /\ leaf' = leaf /\ full' = full
    BY <1>0, <1>3 DEF Arm, AfterArm, Goto, Answer
  <2>2. CallKinds'
    BY <1>0, <1>a, <1>3 DEF Arm, AfterArm, Goto, Answer, CallKinds, CallLabel, Outcome
  <2>3. ReactorKinds'
    BY <1>0, <1>a, DrainAssumption, <1>3
       DEF Arm, AfterArm, Goto, Answer, ReactorKinds, Async, TreeKinds
  <2> QED
    BY <2>1, <2>2, <2>3, Frames DEF Kinds
<1>4. CASE StartRound
  <2>1. /\ treeVars' = treeVars
       /\ reactorVars' = reactorVars
       /\ handleVars' = handleVars
       /\ jobVars' = jobVars
       /\ leaf' = leaf /\ full' = full
    BY <1>0, <1>4 DEF StartRound, Goto
  <2>2. CallKinds'
    BY <1>0, <1>a, <1>4 DEF StartRound, Goto, CallKinds, CallLabel, Outcome
  <2> QED
    BY <2>1, <2>2, Frames DEF Kinds
<1>5. CASE Kevent
  <2>1. /\ treeVars' = treeVars
       /\ handleVars' = handleVars
       /\ jobVars' = jobVars
    BY <1>0, <1>5 DEF Kevent, Swallow, Goto, Answer
  <2>2. CallKinds'
    BY <1>0, <1>a, <1>5 DEF Kevent, Swallow, Goto, Answer, CallKinds, CallLabel, Outcome
  <2>3. ReactorKinds'
    BY <1>0, <1>a, <1>5 DEF Kevent, Swallow, Goto, Answer, ReactorKinds, Async
  <2>4. RestKinds'
    BY <1>0, <1>a, <1>5 DEF Kevent, Swallow, Goto, Answer, RestKinds
  <2> QED
    BY <2>1, <2>2, <2>3, <2>4, Frames DEF Kinds
<1>6. CASE DrainKqueue
  <2>1. /\ treeVars' = treeVars
       /\ handleVars' = handleVars
       /\ jobVars' = jobVars
    BY <1>0, <1>6 DEF DrainKqueue, Swallow, Goto, Answer
  <2>2. CallKinds'
    BY <1>0, <1>a, <1>6 DEF DrainKqueue, Swallow, Goto, Answer, CallKinds, CallLabel, Outcome
  <2>3. ReactorKinds'
    BY <1>0, <1>a, <1>6 DEF DrainKqueue, Swallow, Goto, Answer, ReactorKinds, Async
  <2>4. RestKinds'
    BY <1>0, <1>a, <1>6 DEF DrainKqueue, Swallow, Goto, Answer, RestKinds
  <2> QED
    BY <2>1, <2>2, <2>3, <2>4, Frames DEF Kinds
<1>7. CASE MarkerWakes
  <2>1. /\ treeVars' = treeVars
       /\ handleVars' = handleVars
       /\ jobVars' = jobVars
       /\ leaf' = leaf /\ full' = full
    BY <1>0, <1>7 DEF MarkerWakes, TakeReady, Goto
  <2>2. CallKinds'
    BY <1>0, <1>a, <1>7 DEF MarkerWakes, TakeReady, Goto, CallKinds, CallLabel, Outcome
  <2>3. ReactorKinds'
    BY <1>0, <1>a, <1>7 DEF MarkerWakes, TakeReady, Goto, ReactorKinds, Async
  <2> QED
    BY <2>1, <2>2, <2>3, Frames DEF Kinds
<1>8. CASE MarkerClears
  <2>1. /\ treeVars' = treeVars
       /\ handleVars' = handleVars
       /\ jobVars' = jobVars
       /\ leaf' = leaf /\ full' = full
    BY <1>0, <1>8 DEF MarkerClears, ClearReady, Goto
  <2>2. CallKinds'
    BY <1>0, <1>a, <1>8 DEF MarkerClears, ClearReady, Goto, CallKinds, CallLabel, Outcome
  <2>3. ReactorKinds'
    BY <1>0, <1>a, <1>8 DEF MarkerClears, ClearReady, Goto, ReactorKinds, Async
  <2> QED
    BY <2>1, <2>2, <2>3, Frames DEF Kinds
<1>9. CASE MarkerTimerWins
  <2>1. /\ treeVars' = treeVars
       /\ reactorVars' = reactorVars
       /\ handleVars' = handleVars
       /\ jobVars' = jobVars
       /\ leaf' = leaf /\ full' = full
    BY <1>0, <1>9 DEF MarkerTimerWins, TimerWins, Answer
  <2>2. CallKinds'
    BY <1>0, <1>a, <1>9 DEF MarkerTimerWins, TimerWins, Answer, CallKinds, CallLabel, Outcome
  <2> QED
    BY <2>1, <2>2, Frames DEF Kinds
<1>10. CASE MarkerDeliver
  <2>1. /\ treeVars' = treeVars
       /\ callVars' = callVars
       /\ handleVars' = handleVars
       /\ jobVars' = jobVars
       /\ leaf' = leaf /\ full' = full
    BY <1>0, <1>10 DEF MarkerDeliver, Deliver
  <2>2. ReactorKinds'
    BY <1>0, <1>a, <1>10 DEF MarkerDeliver, Deliver, ReactorKinds, Async
  <2> QED
    BY <2>1, <2>2, Frames DEF Kinds
<1>11. CASE FillPipe
  <2>1. /\ treeVars' = treeVars
       /\ callVars' = callVars
       /\ handleVars' = handleVars
       /\ jobVars' = jobVars
    BY <1>0, <1>11 DEF FillPipe
  <2>2. ReactorKinds'
    BY <1>0, <1>a, <1>11 DEF FillPipe, ReactorKinds, Async
  <2>3. RestKinds'
    BY <1>0, <1>a, <1>11 DEF FillPipe, RestKinds
  <2> QED
    BY <2>1, <2>2, <2>3, Frames DEF Kinds
<1> QED
  BY <1>0, <1>1, <1>2, <1>3, <1>4, <1>5, <1>6, <1>7, <1>8, <1>9, <1>10, <1>11
     DEF MarkerNext, MarkerWait

(* Every variable of a wait keeps its kind.                                *)
THEOREM TypeCorrect == Spec => []TypeOK
<1>1. Init => TypeOK
  BY DEF Init, DrainCallInit, TypeOK, DrainCallTypeOK, CallLabel, Outcome, Occupant
<1>2. TypeOK /\ [Next]_vars => TypeOK'
  <2> SUFFICES ASSUME TypeOK, [Next]_vars
               PROVE  TypeOK'
    OBVIOUS
  <2>1. CASE Host
    <3> USE <2>1, DrainAssumption DEF Host, TypeOK, DrainCallTypeOK, handleVars, jobVars
    <3>1. who' \in [Pid -> Occupant] /\ gone' \in BOOLEAN
      BY DEF HostStep, Fork, Exit, Unrelated, Leave, Adopt, Occupant
    <3>2. changed' \in BOOLEAN /\ queued' \in BOOLEAN
      BY DEF CgroupNotice, MarkerNotice, Async, InLeaf, InJob, OnMarker, Mechanism
    <3> QED
      BY <3>1, <3>2
  <2>2. CASE Clock \/ Owner
    BY <2>2 DEF Clock, DeadlinePasses, Owner, Drop, DropFuture, TypeOK, DrainCallTypeOK,
       CallLabel, treeVars, reactorVars, callVars, handleVars, jobVars
  <2>3. CASE UNCHANGED vars
    BY <2>3 DEF vars, drainCallVars, treeVars, reactorVars, callVars, handleVars, jobVars, TypeOK,
       DrainCallTypeOK
  <2> QED
    BY <2>1, <2>2, <2>3, TypeOfCgroup, TypeOfJob, TypeOfMarker DEF Next
<1> QED
  BY <1>1, <1>2, PTL DEF Spec

-----------------------------------------------------------------------------
(* Who is in the tree and which kind of call this is do not change under   *)
(* the feet of an action that is none of the host's.                       *)
LEMMA CallsKeepTheTree ==
  ASSUME TypeOK, Cgroup \/ Job \/ Marker \/ Clock \/ Owner
  PROVE  Live' = Live /\ setting' = setting
<1> USE DEF TypeOK, DrainCallTypeOK, drainCallVars, treeVars, reactorVars, callVars, handleVars,
        jobVars, roundVars
<1>1. setting' = setting /\ (who' = Doom(who) \/ who' = who)
  <2>1. CASE Cgroup
    BY <2>1 DEF Cgroup, CgroupNext, CgroupBegin, Begin, CgroupWait, OpenEvents, ReadPopulated,
       CheckDeadline, Poll, CgroupWakes, CgroupClears, CgroupTimerWins, TakeReady, ClearReady,
       TimerWins, CgroupDeliver, Deliver, ManagerRemoves, CgroupDetach, Detach, CgroupOwner,
       CgroupTearDown, TearDown, WriteKill, RemoveLeaf, KillOccupants, RetryRemoval, Release,
       CgroupKill
  <2>2. CASE Job
    BY <2>2 DEF Job, JobNext, JobBegin, Begin, JobWait, Duplicate, Enumerate, OpenMember,
       JudgeRound, EndRound, WaitForAny, EndWait, CloseHandle, CancelWatcher, TakeHandle, JobKill,
       Terminate, CloseTaken, JobDetach, Detach, JobOwner, JobTearDown, TearDown, TerminateJob,
       CloseJob
  <2>3. CASE Marker
    BY <2>3 DEF Marker, MarkerNext, MarkerBegin, Begin, MarkerWait, CheckReadEnd, Arm, StartRound,
       Kevent, DrainKqueue, MarkerWakes, MarkerClears, MarkerTimerWins, TakeReady, ClearReady,
       TimerWins, MarkerDeliver, Deliver, FillPipe
  <2>4. CASE Clock \/ Owner
    BY <2>4 DEF Clock, DeadlinePasses, Owner, Drop, DropFuture
  <2> QED
    BY <2>1, <2>2, <2>3, <2>4
<1> QED
  BY <1>1, DoomKeepsLive

-----------------------------------------------------------------------------
(* The invariant, under each mechanism's steps.                            *)
LEMMA CgroupKeepsInv ==
  ASSUME TypeOK, DrainInv, Cgroup
  PROVE  DrainInv'
<1> USE DEF DrainInv, LabelsFit, EmptyIsEmpty, LookedFirst, EofIsPending, RefusalHasCause, Armed,
        InLeaf, InJob, OnMarker, Mechanism, Removed, Populated,
        drainCallVars, treeVars, reactorVars, callVars, handleVars, jobVars
<1>1. UNCHANGED <<jobVars, full>> /\ CgroupNext /\ Live' = Live /\ setting' = setting
  BY CallsKeepTheTree DEF Cgroup
<1>2. CASE CgroupBegin
  BY <1>1, <1>2 DEF CgroupBegin, Begin
<1>3. CASE OpenEvents
  BY <1>1, <1>3 DEF OpenEvents, Goto, Answer
<1>4. CASE ReadPopulated
  BY <1>1, <1>4 DEF ReadPopulated, Goto, Answer
<1>5. CASE CheckDeadline
  BY <1>1, <1>5 DEF CheckDeadline, Goto, Answer
<1>6. CASE Poll
  BY <1>1, <1>6 DEF Poll, Goto, Answer
<1>7. CASE CgroupWakes
  BY <1>1, <1>7 DEF CgroupWakes, TakeReady, Goto
<1>8. CASE CgroupClears
  BY <1>1, <1>8 DEF CgroupClears, ClearReady, Goto
<1>9. CASE CgroupTimerWins
  BY <1>1, <1>9 DEF CgroupTimerWins, TimerWins, Answer
<1>10. CASE CgroupDeliver \/ ManagerRemoves \/ CgroupDetach
  BY <1>1, <1>10 DEF CgroupDeliver, Deliver, ManagerRemoves, CgroupDetach, Detach
<1>11. CASE CgroupOwner
  BY <1>1, <1>11 DEF CgroupOwner, CgroupTearDown, TearDown, RemoveLeaf, KillOccupants,
     RetryRemoval, Release, Rmdir
<1>12. ASSUME NEW t \in Thread, CgroupKill(t)
       PROVE  DrainInv'
  BY <1>1, <1>12 DEF CgroupKill
<1> QED
  BY <1>1, <1>2, <1>3, <1>4, <1>5, <1>6, <1>7, <1>8, <1>9, <1>10, <1>11, <1>12
     DEF CgroupNext, CgroupWait

(* ... a job's, where a round without anyone to wait for does not block.   *)
LEMMA JobKeepsInv ==
  ASSUME TypeOK, DrainInv, Job
  PROVE  DrainInv'
<1> USE DEF DrainInv, LabelsFit, EmptyIsEmpty, LookedFirst, EofIsPending, RefusalHasCause, Armed,
        InLeaf, InJob, OnMarker, Mechanism,
        drainCallVars, treeVars, reactorVars, callVars, handleVars, jobVars, roundVars
<1>1. UNCHANGED <<leaf, full>> /\ JobNext /\ Live' = Live /\ setting' = setting
  BY CallsKeepTheTree DEF Job
<1>2. CASE JobBegin
  BY <1>1, <1>2 DEF JobBegin, Begin
<1>3. CASE Duplicate
  BY <1>1, <1>3 DEF Duplicate, Goto, Answer
<1>4. CASE Enumerate
  BY <1>1, <1>4 DEF Enumerate, EndWait, Goto, Answer
<1>5. ASSUME NEW p \in Pid, OpenMember(p)
      PROVE  DrainInv'
  BY <1>1, <1>5 DEF OpenMember
<1>6. CASE JudgeRound
  BY <1>1, <1>6 DEF JudgeRound, Goto
<1>7. CASE EndRound
  BY <1>1, <1>7 DEF EndRound, EndWait, Answer
<1>8. CASE WaitForAny
  BY <1>1, <1>8 DEF WaitForAny, EndWait, Goto, Answer
<1>9. CASE CancelWatcher \/ JobDetach
  BY <1>1, <1>9 DEF CancelWatcher, JobDetach, Detach, Disarm
<1>10. ASSUME NEW t \in Thread, TakeHandle(t) \/ Terminate(t) \/ CloseTaken(t)
       PROVE  DrainInv'
  BY <1>1, <1>10 DEF TakeHandle, Terminate, CloseTaken
<1>11. CASE JobOwner
  BY <1>1, <1>11 DEF JobOwner, JobTearDown, TearDown, CloseJob
<1> QED
  BY <1>1, <1>2, <1>3, <1>4, <1>5, <1>6, <1>7, <1>8, <1>9, <1>10, <1>11
     DEF JobNext, JobWait, JobKill

(* ... a marker's, where only what is no end of file is swallowed.         *)
LEMMA MarkerKeepsInv ==
  ASSUME TypeOK, DrainInv, Marker
  PROVE  DrainInv'
<1> USE DEF DrainInv, LabelsFit, EmptyIsEmpty, LookedFirst, EofIsPending, RefusalHasCause, Armed,
        InLeaf, InJob, OnMarker, Mechanism, Eof,
        drainCallVars, treeVars, reactorVars, callVars, handleVars, jobVars
<1>1. UNCHANGED <<leaf, jobVars>> /\ MarkerNext /\ Live' = Live /\ setting' = setting
  BY CallsKeepTheTree DEF Marker
<1>2. CASE MarkerBegin
  BY <1>1, <1>2 DEF MarkerBegin, Begin
<1>3. CASE CheckReadEnd
  BY <1>1, <1>3 DEF CheckReadEnd, Goto, Answer
<1>4. CASE Arm
  <2>1. pc' # "over" /\ gone /\ ~ setting.ownCopy => changed'
    BY <1>4, <1>1 DEF Arm, Answer
  <2> QED
    BY <1>1, <1>4, <2>1 DEF Arm, AfterArm, Goto, Answer
<1>5. CASE StartRound
  BY <1>1, <1>5 DEF StartRound, Goto
<1>6. CASE Kevent
  BY <1>1, <1>6 DEF Kevent, Swallow, Goto, Answer
<1>7. CASE DrainKqueue
  BY <1>1, <1>7 DEF DrainKqueue, Swallow, Goto, Answer
<1>8. CASE MarkerWakes
  BY <1>1, <1>8 DEF MarkerWakes, TakeReady, Goto
<1>9. CASE MarkerClears
  BY <1>1, <1>9 DEF MarkerClears, ClearReady, Goto
<1>10. CASE MarkerTimerWins
  BY <1>1, <1>10 DEF MarkerTimerWins, TimerWins, Answer
<1>11. CASE MarkerDeliver
  BY <1>1, <1>11 DEF MarkerDeliver, Deliver
<1>12. CASE FillPipe
  <2>1. changed => changed'
    BY <1>12 DEF FillPipe
  <2> QED
    BY <1>1, <1>12, <2>1 DEF FillPipe
<1> QED
  BY <1>1, <1>2, <1>3, <1>4, <1>5, <1>6, <1>7, <1>8, <1>9, <1>10, <1>11, <1>12
     DEF MarkerNext, MarkerWait

(* ... and whatever the host does: it cannot fill what was removed, and    *)
(* the last holder's exit is what makes the end of file pending.           *)
LEMMA HostKeepsInv ==
  ASSUME TypeOK, DrainInv, Host
  PROVE  DrainInv'
<1> USE DEF DrainInv, LabelsFit, EmptyIsEmpty, LookedFirst, EofIsPending, RefusalHasCause, Armed,
        InLeaf, InJob, OnMarker, Mechanism, handleVars, jobVars, TypeOK, DrainCallTypeOK
<1>1. /\ UNCHANGED <<setting, pc, late, cancelled, leaf, refused>>
      /\ gone' = (gone /\ Live' = {})
  BY DEF Host, HostStep
<1>2. LabelsFit' /\ LookedFirst' /\ RefusalHasCause'
  BY <1>1
<1>3. EmptyIsEmpty'
  <2>1. ASSUME leaf = "removed"
        PROVE  Live' = {}
    BY <2>1 DEF Host, CgroupNotice, Removed, Filled
  <2> QED
    BY <1>1, <2>1
<1>4. EofIsPending'
  <2>1. OnMarker /\ gone' => (changed' = changed \/ changed' = TRUE)
    BY DEF Host, MarkerNotice
  <2> QED
    BY <1>1, <2>1
<1> QED
  BY <1>2, <1>3, <1>4

(* So it holds throughout.                                                 *)
LEMMA InvHolds == Spec => []DrainInv
<1>1. Init => DrainInv
  BY DEF Init, DrainCallInit, DrainInv, LabelsFit, EmptyIsEmpty, LookedFirst, EofIsPending,
     RefusalHasCause, Armed
<1>2. TypeOK /\ DrainInv /\ [Next]_vars => DrainInv'
  <2> SUFFICES ASSUME TypeOK, DrainInv, [Next]_vars
               PROVE  DrainInv'
    OBVIOUS
  <2>1. CASE Clock \/ Owner
    <3>1. Live' = Live /\ setting' = setting
      BY <2>1, CallsKeepTheTree
    <3> QED
      BY <2>1, <3>1 DEF Clock, DeadlinePasses, Owner, Drop, DropFuture, Waiting, DrainInv,
         LabelsFit, EmptyIsEmpty, LookedFirst, EofIsPending, RefusalHasCause, Armed, InLeaf, InJob,
         OnMarker, Mechanism, treeVars, reactorVars, callVars, handleVars, jobVars
  <2>2. CASE UNCHANGED vars
    BY <2>2 DEF vars, drainCallVars, treeVars, reactorVars, callVars, handleVars, jobVars, DrainInv,
       LabelsFit, EmptyIsEmpty, LookedFirst, EofIsPending, RefusalHasCause, Armed, InLeaf, InJob,
       OnMarker, Mechanism, Live
  <2> QED
    BY <2>1, <2>2, CgroupKeepsInv, JobKeepsInv, MarkerKeepsInv, HostKeepsInv DEF Next
<1> QED
  BY <1>1, <1>2, TypeCorrect, PTL DEF Spec

-----------------------------------------------------------------------------
(* The refinement.  A step is quiet if the promise's caller sees nothing   *)
(* of it; a step answers with v if it ends the wait with that.             *)
Quiet == /\ UNCHANGED <<setting, cancelled, verdict, gone>>
         /\ late' \in {late, TRUE}
         /\ pc' = pc \/ (Waiting /\ Waiting')

Answers(v) == /\ UNCHANGED <<setting, late, gone, cancelled>>
              /\ Waiting
              /\ pc' = "over"
              /\ verdict' = IF cancelled THEN verdict ELSE v

Drained == {"AllMembersExited", "AllMarkersClosed"}
MayMiss == Mechanism = "marker" /\ (Async \/ setting.ownCopy)

(* A quiet step is one of the tree's and the clock's.                      *)
LEMMA QuietIsHost ==
  ASSUME TypeOK, DrainInv, Quiet, Live' = Live
  PROVE  Promise!Host
<1>1. Live' \in SUBSET Pid
  BY DEF Live
<1>2. gone' = (gone /\ Live' = {})
  BY DEF Quiet, DrainInv, EmptyIsEmpty, TypeOK, DrainCallTypeOK
<1> QED
  BY <1>1, <1>2 DEF Quiet, Waiting, Mechanism, Async, Impaired, Promise!Host

(* An answer is kept to if there is the evidence for it.                   *)
LEMMA AnswerIsPromised ==
  ASSUME TypeOK, DrainInv, Live' = Live, NEW v \in Outcome \ {"none"}, Answers(v),
         v \in Drained => Live = {},
         v = "MembersRemain" /\ ~ cancelled => late /\ (gone => MayMiss),
         v = "Err" => Impaired
  PROVE  Promise!Next
<1>1. CASE cancelled
  <2>1. Live' \in SUBSET Pid
    BY DEF Live
  <2>2. gone' = (gone /\ Live' = {})
    BY DEF Answers, DrainInv, EmptyIsEmpty, TypeOK, DrainCallTypeOK
  <2>3. Promise!Host
    BY <1>1, <2>1, <2>2 DEF Answers, Mechanism, Async, Impaired, Promise!Host
  <2> QED
    BY <2>3 DEF Promise!Next
<1>2. CASE ~ cancelled
  <2> USE DEF Answers, Waiting, Mechanism, Async, Impaired, Outcome, Drained, MayMiss,
          Promise!Answer
  <2>1. CASE v \in Drained
    <3>1. Promise!SeesDrain
      BY <1>2, <2>1 DEF Promise!SeesDrain
    <3> QED
      BY <3>1 DEF Promise!Next
  <2>2. CASE v = "MembersRemain"
    <3>1. Promise!GivesUp
      BY <1>2, <2>2 DEF Promise!GivesUp
    <3> QED
      BY <3>1 DEF Promise!Next
  <2>3. CASE v = "Err"
    <3>1. Promise!Fails
      BY <1>2, <2>3 DEF Promise!Fails
    <3> QED
      BY <3>1 DEF Promise!Next
  <2> QED
    BY <2>1, <2>2, <2>3
<1> QED
  BY <1>1, <1>2

(* A call begins ...                                                       *)
LEMMA BeginIsPromised ==
  ASSUME TypeOK, DrainInv, Live' = Live, setting' = setting, slot' = slot,
         NEW first \in CallLabel \ {"idle", "over"}, Begin(first)
  PROVE  Promise!Begin
BY DrainAssumption DEF Begin, DrainInv, LabelsFit, CallLabel, Waiting, Mechanism, Async, Impaired,
   Faults, Bounded, callVars, treeVars, reactorVars, handleVars, TypeOK, DrainCallTypeOK,
   Promise!Begin

(* ... or dropped where it awaits, or left to its watcher.                 *)
LEMMA AbandonIsPromised ==
  ASSUME Live' = Live, UNCHANGED <<setting, slot, late, gone, verdict>>,
         Waiting, ~ cancelled, cancelled'
  PROVE  Promise!Abandon
BY DEF Waiting, Mechanism, Async, Impaired, Faults, Promise!Abandon

-----------------------------------------------------------------------------
(* A leaf.  What was removed was empty; who blocks has seen someone.       *)
LEMMA CgroupIsPromised ==
  ASSUME TypeOK, DrainInv, Cgroup
  PROVE  [Promise!Next]_(Promise!vars)
<1>1. UNCHANGED <<jobVars, full>> /\ CgroupNext /\ Live' = Live /\ setting' = setting
  BY CallsKeepTheTree DEF Cgroup
<1> USE DEF drainCallVars, treeVars, reactorVars, callVars, handleVars, jobVars
<1>2. CASE CgroupBegin
  <2>1. "open" \in CallLabel \ {"idle", "over"}
    BY DEF CallLabel
  <2> QED
    BY <1>1, <1>2, <2>1, BeginIsPromised DEF CgroupBegin, Promise!Next
<1>3. CASE CgroupWait
  <2>1. Quiet \/ \E v \in {"AllMembersExited", "MembersRemain", "Err"} :
           /\ Answers(v)
           /\ v = "AllMembersExited" => Removed \/ ~ Populated
           /\ v = "MembersRemain" => late /\ ~ gone
           /\ v = "Err" => Faults
    BY <1>1, <1>3 DEF CgroupWait, OpenEvents, ReadPopulated, CheckDeadline, Poll, CgroupWakes,
       CgroupClears, CgroupTimerWins, TakeReady, ClearReady, TimerWins, Goto, Answer, Quiet,
       Answers, Waiting, DrainInv, LabelsFit, LookedFirst
  <2>2. CASE Quiet
    BY <1>1, <2>2, QuietIsHost DEF Promise!Next
  <2>3. ASSUME NEW v \in {"AllMembersExited", "MembersRemain", "Err"}, Answers(v),
               v = "AllMembersExited" => Removed \/ ~ Populated,
               v = "MembersRemain" => late /\ ~ gone,
               v = "Err" => Faults
        PROVE  Promise!Next
    BY <1>1, <2>3, AnswerIsPromised DEF Outcome, Drained, Impaired, Removed, Populated, DrainInv,
       EmptyIsEmpty
  <2> QED
    BY <2>1, <2>2, <2>3
<1>4. CASE CgroupDeliver \/ ManagerRemoves \/ CgroupDetach
  <2>1. Quiet
    BY <1>4, <1>1 DEF CgroupDeliver, Deliver, ManagerRemoves, CgroupDetach, Detach, Quiet
  <2> QED
    BY <1>1, <2>1, QuietIsHost DEF Promise!Next
<1>5. CASE CgroupOwner
  <2>1. Quiet
    BY <1>5, <1>1 DEF CgroupOwner, CgroupTearDown, TearDown, RemoveLeaf, KillOccupants,
       RetryRemoval, Release, Quiet
  <2> QED
    BY <1>1, <2>1, QuietIsHost DEF Promise!Next
<1>6. ASSUME NEW t \in Thread, CgroupKill(t)
      PROVE  Promise!Next
  <2>1. Quiet
    BY <1>6, <1>1 DEF CgroupKill, Quiet
  <2> QED
    BY <1>1, <2>1, QuietIsHost DEF Promise!Next
<1> QED
  BY <1>1, <1>2, <1>3, <1>4, <1>5, <1>6 DEF CgroupNext

(* A job.  A round that found the list empty saw the tree empty; the       *)
(* others have someone to wait for.                                        *)
LEMMA JobIsPromised ==
  ASSUME TypeOK, DrainInv, Job
  PROVE  [Promise!Next]_(Promise!vars)
<1>1. UNCHANGED <<leaf, full>> /\ JobNext /\ Live' = Live /\ setting' = setting
  BY CallsKeepTheTree DEF Job
<1> USE DEF drainCallVars, treeVars, reactorVars, callVars, handleVars, jobVars, roundVars
<1>2. CASE JobBegin
  <2>1. "dup" \in CallLabel \ {"idle", "over"}
    BY DEF CallLabel
  <2> QED
    BY <1>1, <1>2, <2>1, BeginIsPromised DEF JobBegin, Promise!Next
<1>3. CASE Duplicate \/ Enumerate \/ JudgeRound \/ EndRound \/ WaitForAny
  <2>1. Quiet \/ \E v \in {"AllMembersExited", "MembersRemain", "Err"} :
           /\ Answers(v)
           /\ v = "AllMembersExited" => Live = {}
           /\ v = "MembersRemain" /\ ~ cancelled => late /\ ~ gone
           /\ v = "Err" => Impaired
    BY <1>1, <1>3 DEF Duplicate, Enumerate, JudgeRound, EndRound, WaitForAny, EndWait, Goto,
       Answer, Quiet, Answers, Waiting, Impaired, DrainInv, LabelsFit, LookedFirst,
       RefusalHasCause
  <2>2. CASE Quiet
    BY <1>1, <2>2, QuietIsHost DEF Promise!Next
  <2>3. ASSUME NEW v \in {"AllMembersExited", "MembersRemain", "Err"}, Answers(v),
               v = "AllMembersExited" => Live = {},
               v = "MembersRemain" /\ ~ cancelled => late /\ ~ gone,
               v = "Err" => Impaired
        PROVE  Promise!Next
    BY <1>1, <2>3, AnswerIsPromised DEF Outcome, Drained
  <2> QED
    BY <2>1, <2>2, <2>3
<1>4. ASSUME NEW p \in Pid, OpenMember(p)
      PROVE  Promise!Next
  <2>1. Quiet
    BY <1>4, <1>1 DEF OpenMember, Quiet
  <2> QED
    BY <1>1, <2>1, QuietIsHost DEF Promise!Next
<1>5. CASE CancelWatcher
  <2>1. UNCHANGED <<setting, slot, late, gone, verdict, pc>> /\ Waiting /\ ~ cancelled /\ cancelled'
    BY <1>5, <1>1 DEF CancelWatcher, Waiting
  <2>2. Promise!Abandon
    BY <1>1, <2>1, AbandonIsPromised
  <2> QED
    BY <2>2 DEF Promise!Next
<1>6. CASE JobDetach \/ JobOwner
  <2>1. Quiet
    BY <1>6, <1>1 DEF JobDetach, Detach, JobOwner, JobTearDown, TearDown, CloseJob, Quiet
  <2> QED
    BY <1>1, <2>1, QuietIsHost DEF Promise!Next
<1>7. ASSUME NEW t \in Thread, TakeHandle(t) \/ Terminate(t) \/ CloseTaken(t)
      PROVE  Promise!Next
  <2>1. Quiet
    BY <1>7, <1>1 DEF TakeHandle, Terminate, CloseTaken, Quiet
  <2> QED
    BY <1>1, <2>1, QuietIsHost DEF Promise!Next
<1> QED
  BY <1>1, <1>2, <1>3, <1>4, <1>5, <1>6, <1>7 DEF JobNext, JobWait, JobKill

(* A marker.  No event is pending means no end of file, unless this        *)
(* process holds a copy of the write end itself.                           *)
LEMMA MarkerIsPromised ==
  ASSUME TypeOK, DrainInv, Marker
  PROVE  [Promise!Next]_(Promise!vars)
<1>1. UNCHANGED <<leaf, jobVars>> /\ MarkerNext /\ Live' = Live /\ setting' = setting
  BY CallsKeepTheTree DEF Marker
<1> USE DEF drainCallVars, treeVars, reactorVars, callVars, handleVars, jobVars
<1>2. CASE MarkerBegin
  <2>1. "check_read_end" \in CallLabel \ {"idle", "over"}
    BY DEF CallLabel
  <2> QED
    BY <1>1, <1>2, <2>1, BeginIsPromised DEF MarkerBegin, Promise!Next
<1>3. CASE MarkerWait
  <2>1. Quiet \/ \E v \in {"AllMarkersClosed", "MembersRemain", "Err"} :
           /\ Answers(v)
           /\ v = "AllMarkersClosed" => Eof
           /\ v = "MembersRemain" => late /\ (gone => MayMiss)
           /\ v = "Err" => Faults \/ setting.ownCopy
    <3> USE <1>1 DEF Goto, Answer, Quiet, Answers, Waiting, Eof
    <3>1. CASE CheckReadEnd \/ StartRound \/ MarkerWakes \/ MarkerClears
      BY <3>1 DEF CheckReadEnd, StartRound, MarkerWakes, TakeReady, MarkerClears, ClearReady
    <3>2. CASE Arm
      BY <3>2 DEF Arm, AfterArm, Refused, Scan
    <3>3. CASE Kevent
      <4>1. OnMarker /\ Armed
        BY <3>3 DEF Kevent, Armed, DrainInv, LabelsFit
      <4>2. gone /\ ~ MayMiss => changed /\ Eof
        BY <4>1 DEF DrainInv, EofIsPending, EmptyIsEmpty, MayMiss, OnMarker
      <4> QED
        BY <3>3, <4>2 DEF Kevent, Swallow, DrainInv, LabelsFit
    <3>4. CASE DrainKqueue
      BY <3>4 DEF DrainKqueue, Swallow
    <3>5. CASE MarkerTimerWins
      BY <3>5 DEF MarkerTimerWins, TimerWins, MayMiss, OnMarker
    <3> QED
      BY <1>3, <3>1, <3>2, <3>3, <3>4, <3>5 DEF MarkerWait
  <2>2. CASE Quiet
    BY <1>1, <2>2, QuietIsHost DEF Promise!Next
  <2>3. ASSUME NEW v \in {"AllMarkersClosed", "MembersRemain", "Err"}, Answers(v),
               v = "AllMarkersClosed" => Eof,
               v = "MembersRemain" => late /\ (gone => MayMiss),
               v = "Err" => Faults \/ setting.ownCopy
        PROVE  Promise!Next
    BY <1>1, <2>3, AnswerIsPromised DEF Outcome, Drained, Impaired, Eof
  <2> QED
    BY <2>1, <2>2, <2>3
<1>4. CASE MarkerDeliver \/ FillPipe
  <2>1. Quiet
    BY <1>4, <1>1 DEF MarkerDeliver, Deliver, FillPipe, Quiet
  <2> QED
    BY <1>1, <2>1, QuietIsHost DEF Promise!Next
<1> QED
  BY <1>1, <1>2, <1>3, <1>4 DEF MarkerNext

-----------------------------------------------------------------------------
(* wait_tree keeps its promise, on every mechanism: a drain is reported    *)
(* only of an empty tree, and members only while the tree has not been     *)
(* empty throughout (Attached::wait_drained, wait_tree_drained_dispatch).  *)
THEOREM WaitKeepsPromise == Spec => ImplementsDrain
<1>1. Init => Promise!Init
  BY DEF Init, DrainCallInit, Live, Impaired, Mechanism, Async, Promise!Init
<1>2. TypeOK /\ DrainInv /\ [Next]_vars => [Promise!Next]_(Promise!vars)
  <2> SUFFICES ASSUME TypeOK, DrainInv, [Next]_vars
               PROVE  [Promise!Next]_(Promise!vars)
    OBVIOUS
  <2>1. CASE Host
    <3>1. Live' \in SUBSET Pid
      BY DEF Live
    <3>2. Promise!Host
      BY <2>1, <3>1 DEF Host, HostStep, Waiting, Mechanism, Async, Impaired, Promise!Host
    <3> QED
      BY <3>2 DEF Promise!Next
  <2>2. CASE Clock \/ (Drop /\ UNCHANGED <<leaf, jobVars, full>>)
    <3>1. Quiet
      BY <2>2 DEF Clock, DeadlinePasses, Drop, treeVars, reactorVars, callVars, handleVars, Quiet
    <3>2. Live' = Live
      BY <2>2, CallsKeepTheTree DEF Owner
    <3> QED
      BY <3>1, <3>2, QuietIsHost DEF Promise!Next
  <2>3. CASE ~ InJob /\ DropFuture /\ UNCHANGED <<leaf, jobVars, full>>
    <3>1. /\ UNCHANGED <<setting, slot, late, gone, verdict>>
          /\ Waiting /\ pc' = "over" /\ cancelled'
      BY <2>3 DEF DropFuture, Waiting, treeVars, handleVars, jobVars
    <3>2. Live' = Live
      BY <2>3, CallsKeepTheTree DEF Owner
    <3>3. CASE ~ cancelled
      BY <3>1, <3>2, <3>3, AbandonIsPromised DEF Promise!Next
    <3>4. CASE cancelled
      <4>1. Answers("MembersRemain")
        BY <2>3, <3>1, <3>4 DEF DropFuture, Answers, TypeOK, DrainCallTypeOK
      <4> QED
        BY <3>2, <3>4, <4>1, AnswerIsPromised DEF Outcome, Drained
    <3> QED
      BY <3>3, <3>4
  <2>4. CASE UNCHANGED vars
    BY <2>4 DEF vars, drainCallVars, treeVars, callVars, handleVars, jobVars, Live, Impaired,
       Waiting, Mechanism, Async, Faults, Promise!vars
  <2> QED
    BY <2>1, <2>2, <2>3, <2>4, CgroupIsPromised, JobIsPromised, MarkerIsPromised DEF Next, Owner
<1> QED
  BY <1>1, <1>2, TypeCorrect, InvHolds, PTL DEF Spec, ImplementsDrain, Promise!Spec

-----------------------------------------------------------------------------
(* A detached job: nobody has taken the handle, so disarm reached it.      *)
DisarmInv ==
  InJob /\ setting.killers = {} =>
    /\ \A t \in Thread : killer[t] = "idle"
    /\ owner # "released" => slot = "live"
    /\ detached /\ ~ Faults => ~ killOnClose

(* A step of the mechanisms that are not the job's touches none of it.     *)
LEMMA OthersLeaveTheJobAlone ==
  ASSUME InJob, Cgroup \/ Marker \/ Clock \/ Owner
  PROVE  /\ UNCHANGED <<setting, who, killer, detached, slot, killOnClose>>
         /\ owner' = owner \/ (owner = "held" /\ owner' = "dropping")
<1> USE DEF InLeaf, InJob, OnMarker, drainCallVars, treeVars, reactorVars, callVars, handleVars,
        jobVars
<1>1. CASE Cgroup
  BY <1>1 DEF Cgroup, CgroupNext, CgroupBegin, CgroupWait, OpenEvents, ReadPopulated,
     CheckDeadline, Poll, CgroupWakes, CgroupClears, CgroupTimerWins, CgroupDeliver,
     ManagerRemoves, CgroupDetach, CgroupOwner, CgroupTearDown, RemoveLeaf, KillOccupants,
     RetryRemoval, Release, CgroupKill
<1>2. CASE Marker
  BY <1>2 DEF Marker, MarkerNext, MarkerBegin, MarkerWait, CheckReadEnd, Arm, StartRound,
     Kevent, DrainKqueue, MarkerWakes, MarkerClears, MarkerTimerWins, MarkerDeliver, FillPipe
<1>3. CASE Clock \/ Owner
  BY <1>3 DEF Clock, DeadlinePasses, Owner, Drop, DropFuture
<1> QED
  BY <1>1, <1>2, <1>3

(* Without a killer the job's steps are the wait's and the owner's.        *)
LEMMA JobKeepsDisarmed ==
  ASSUME TypeOK, DisarmInv, Job, InJob, setting.killers = {}
  PROVE  /\ DisarmInv'
         /\ ~ Faults /\ detached => who' = who
<1>1. setting' = setting /\ JobNext
  BY CallsKeepTheTree DEF Job
<1>2. ASSUME NEW t \in Thread
      PROVE  ~ (TakeHandle(t) \/ Terminate(t) \/ CloseTaken(t))
  BY <1>2 DEF DisarmInv, TakeHandle, MayKill, Terminate, CloseTaken
<1> USE DEF DisarmInv, InJob, Mechanism, Faults, drainCallVars, treeVars, reactorVars, callVars,
        handleVars, jobVars, roundVars
<1>3. CASE JobBegin \/ JobWait \/ CancelWatcher
  <2>1. UNCHANGED <<handleVars, slot, killOnClose>>
    BY <1>3 DEF JobBegin, Begin, JobWait, Duplicate, Enumerate, OpenMember, JudgeRound, EndRound,
       WaitForAny, EndWait, CancelWatcher
  <2>2. who' = who \/ killOnClose
    BY <1>3 DEF JobBegin, Begin, JobWait, Duplicate, Enumerate, OpenMember, JudgeRound, EndRound,
       WaitForAny, EndWait, CloseHandle, CancelWatcher
  <2> QED
    BY <1>1, <2>1, <2>2
<1>4. CASE JobDetach
  BY <1>1, <1>4 DEF JobDetach, Detach, Disarm
<1>5. CASE JobTearDown
  BY <1>1, <1>5 DEF JobTearDown, TearDown, OptedOut
<1>6. CASE CloseJob
  BY <1>1, <1>6 DEF CloseJob, CloseHandle
<1> QED
  BY <1>1, <1>2, <1>3, <1>4, <1>5, <1>6 DEF JobNext, JobKill, JobOwner

(* The host and the call at hand stay what they are.                       *)
LEMMA SettingIsRigid ==
  ASSUME TypeOK, [Next]_vars
  PROVE  setting' = setting
BY CallsKeepTheTree DEF Next, Host, vars, drainCallVars, treeVars

(* So disarm has always reached the job of a detached child.               *)
LEMMA DisarmHolds == Spec => []DisarmInv
<1>1. Init => DisarmInv
  BY DEF Init, DrainCallInit, DisarmInv
<1>2. TypeOK /\ DisarmInv /\ [Next]_vars => DisarmInv'
  <2>1. SUFFICES ASSUME TypeOK, DisarmInv, [Next]_vars, InJob, setting.killers = {},
                        setting' = setting
                 PROVE  DisarmInv'
    BY SettingIsRigid DEF DisarmInv, InJob, Mechanism
  <2>2. CASE Job
    BY <2>1, <2>2, JobKeepsDisarmed
  <2>3. CASE Cgroup \/ Marker \/ Clock \/ Owner
    BY <2>1, <2>3, OthersLeaveTheJobAlone DEF DisarmInv, InJob, Mechanism, Faults
  <2>4. CASE Host \/ UNCHANGED vars
    BY <2>1, <2>4 DEF Host, vars, drainCallVars, treeVars, handleVars, jobVars, DisarmInv, InJob,
       Mechanism, Faults
  <2> QED
    BY <2>1, <2>2, <2>3, <2>4 DEF Next
<1> QED
  BY <1>1, <1>2, TypeCorrect, PTL DEF Spec

(* A detached job runs on: Child::detach and Job::disarm clear the limit   *)
(* before any handle closes, a watcher's duplicate included.               *)
THEOREM DetachedJobIsLeftAlone == Spec => DetachedJobRuns
<1>1. TypeOK /\ DisarmInv /\ [Next]_vars
        => [InJob /\ ~ Faults /\ detached /\ setting.killers = {} => ~ Kills]_vars
  <2> SUFFICES ASSUME TypeOK, DisarmInv, Next, InJob, ~ Faults, detached, setting.killers = {}
               PROVE  ~ Kills
    BY DEF Kills, vars, drainCallVars, treeVars
  <2>1. CASE Host
    BY <2>1 DEF Host, HostStep, Fork, Exit, Unrelated, Leave, Adopt, Kills, TypeOK,
       DrainCallTypeOK
  <2>2. CASE Job
    BY <2>2, JobKeepsDisarmed DEF Kills
  <2>3. CASE Cgroup \/ Marker \/ Clock \/ Owner
    BY <2>3, OthersLeaveTheJobAlone DEF Kills
  <2> QED
    BY <2>1, <2>2, <2>3 DEF Next
<1> QED
  BY <1>1, TypeCorrect, DisarmHolds, PTL DEF Spec, DetachedJobRuns

=============================================================================
