------------------------- MODULE ReaperPool_proofs -------------------------
(***************************************************************************)
(* Proofs about ReaperPool, for any number of children and any pool width. *)
(*                                                                         *)
(* The inductive invariant has three layers, each proved on the one below: *)
(* TypeOK, then PoolInv (the init lock, the attempts and their workers),   *)
(* then JobInv (where each child's resources are).                         *)
(* With it ReaperPool is shown to implement ReapService.                   *)
(***************************************************************************)
EXTENDS ReaperPool, FunctionTheorems, FiniteSetTheorems, TLAPS

-----------------------------------------------------------------------------
(* The states of a drop before an init attempt of its own, and those of a  *)
(* drop that has signalled its child and not yet settled it.               *)
Early == {"owned", "tree", "submit", "lock", "recheck"}
Owing == {"submit", "lock", "recheck", "spawn", "join", "decide", "send", "release"}

(* The init mutex is held from the lock to the end of the spawn loop.      *)
LockHeld == \A c \in Child : pc[c] \in {"recheck", "spawn"} => init = c

(* An attempt has a channel from the loop on, and nothing is published     *)
(* while an attempt is being made.                                         *)
AttemptOpen == \A c \in Child : /\ pc[c] \in Early => tx[c] = "none"
                                /\ pc[c] = "spawn" => tx[c] = "open" /\ cell = NoOne

(* What a worker's state says of the attempt that started it.              *)
WorkersOfAttempt ==
  \A c \in Child : \A i \in Slot :
     /\ i <= tried[c] => worker[<<c, i>>] # "unborn"
     /\ worker[<<c, i>>] = "exited" => tx[c] = "dropped"
     /\ worker[<<c, i>>] \in {"wait", "free"} => cell = c

SomeFailed(c) == \E i \in Slot : worker[<<c, i>>] = "failed"

(* An attempt that is being abandoned was fully made, and failed.          *)
AbandonedFailed ==
  \A c \in Child : /\ pc[c] = "join" => cell # c /\ tried[c] = Bound /\ SomeFailed(c)
                   /\ pc[c] = "decide" => cell # NoOne \/ SomeFailed(c)
                   /\ pc[c] = "release" => SomeFailed(c)

PoolInv == /\ LockHeld
           /\ AttemptOpen
           /\ WorkersOfAttempt
           /\ AbandonedFailed
           /\ PoolNeverShrinks

(* Where the resources and the process of a child are while its drop runs. *)
Whereabouts ==
  \A c \in Child : /\ pc[c] # "done" => os[c] = "handle"
                   /\ pc[c] \notin {"owned", "done"} => c \in tree
                   /\ pc[c] \in Owing => proc[c] \in {"killed", "exited"}

(* A worker has a job in hand exactly while it waits or releases.          *)
JobInHand == \A w \in Worker : job[w] = NoOne <=> worker[w] \notin {"wait", "free"}

JobInv == /\ Whereabouts
          /\ JobInHand
          /\ JobsAccountedFor
          /\ WaitIsBoundedAndPinned

(* A worker that is about to release a job saw the root's exit, unless its *)
(* wait panicked.                                                          *)
ExitSeen == \A w \in Worker : worker[w] = "free" =>
               proc[job[w]] = "exited" \/ job[w] \in Panicky

-----------------------------------------------------------------------------
(* Every variable has its type in every reachable state.                   *)
THEOREM TypeCorrect == Spec => []TypeOK
<1>1. Init => TypeOK
  BY PoolAssumption DEF Init, TypeOK, DropState, ProcState, WorkerState
<1>2. TypeOK /\ [Next]_vars => TypeOK'
  <2> SUFFICES ASSUME TypeOK, [Next]_vars
               PROVE  TypeOK'
    OBVIOUS
  <2> USE PoolAssumption DEF TypeOK, DropState, ProcState, WorkerState, Worker, Slot,
          Goto, Signalled, Released, dropVars, poolVars, workVars
  <2>1. ASSUME NEW c \in Child, Exit(c) PROVE TypeOK'
    BY <2>1 DEF Exit
  <2>2. ASSUME NEW c \in Child, UserWait(c) PROVE TypeOK'
    BY <2>2 DEF UserWait
  <2>3. ASSUME NEW c \in Child, OrphanReap(c) PROVE TypeOK'
    BY <2>3 DEF OrphanReap
  <2>4. ASSUME NEW c \in Child, DropDetached(c) PROVE TypeOK'
    BY <2>4 DEF DropDetached
  <2>5. ASSUME NEW c \in Child, DropSignalTree(c) PROVE TypeOK'
    BY <2>5 DEF DropSignalTree
  <2>6. ASSUME NEW c \in Child, DropAlreadyReaped(c) PROVE TypeOK'
    BY <2>6 DEF DropAlreadyReaped
  <2>7. ASSUME NEW c \in Child, DropKillRoot(c) PROVE TypeOK'
    BY <2>7 DEF DropKillRoot
  <2>8. ASSUME NEW c \in Child, DropKillRefused(c) PROVE TypeOK'
    BY <2>8 DEF DropKillRefused
  <2>9. ASSUME NEW c \in Child, CellHit(c) PROVE TypeOK'
    BY <2>9 DEF CellHit
  <2>10. ASSUME NEW c \in Child, CellMiss(c) PROVE TypeOK'
    BY <2>10 DEF CellMiss
  <2>11. ASSUME NEW c \in Child, LockInit(c) PROVE TypeOK'
    BY <2>11 DEF LockInit
  <2>12. ASSUME NEW c \in Child, RecheckHit(c) PROVE TypeOK'
    BY <2>12 DEF RecheckHit
  <2>13. ASSUME NEW c \in Child, RecheckMiss(c) PROVE TypeOK'
    BY <2>13 DEF RecheckMiss
  <2>14. ASSUME NEW c \in Child, SpawnWorker(c) PROVE TypeOK'
    BY <2>14 DEF SpawnWorker, MoreToStart
  <2>15. ASSUME NEW c \in Child, Publish(c) PROVE TypeOK'
    BY <2>15 DEF Publish
  <2>16. ASSUME NEW c \in Child, Abandon(c) PROVE TypeOK'
    BY <2>16 DEF Abandon
  <2>17. ASSUME NEW c \in Child, Joined(c) PROVE TypeOK'
    BY <2>17 DEF Joined
  <2>18. ASSUME NEW c \in Child, Decide(c) PROVE TypeOK'
    BY <2>18 DEF Decide
  <2>19. ASSUME NEW c \in Child, Dispatch(c) PROVE TypeOK'
    BY <2>19 DEF Dispatch
  <2>20. ASSUME NEW c \in Child, ReleaseJob(c) PROVE TypeOK'
    BY <2>20 DEF ReleaseJob
  <2>21. ASSUME NEW w \in Worker, Receive(w) PROVE TypeOK'
    BY <2>21 DEF Receive
  <2>22. ASSUME NEW w \in Worker, Disconnect(w) PROVE TypeOK'
    BY <2>22 DEF Disconnect
  <2>23. ASSUME NEW w \in Worker, WaitReturns(w) PROVE TypeOK'
    BY <2>23 DEF WaitReturns
  <2>24. ASSUME NEW w \in Worker, WaitPanics(w) PROVE TypeOK'
    BY <2>24 DEF WaitPanics
  <2>25. ASSUME NEW w \in Worker, FreeJob(w) PROVE TypeOK'
    BY <2>25 DEF FreeJob
  <2>26. CASE UNCHANGED vars
    BY <2>26 DEF vars
  <2> QED
    BY <2>1, <2>2, <2>3, <2>4, <2>5, <2>6, <2>7, <2>8, <2>9, <2>10, <2>11, <2>12, <2>13, <2>14, <2>15, <2>16, <2>17, <2>18, <2>19, <2>20, <2>21, <2>22, <2>23, <2>24, <2>25, <2>26
       DEF Next, ChildStep, DropStep, WorkStep
<1> QED
  BY <1>1, <1>2, PTL DEF Spec

-----------------------------------------------------------------------------
(* A step that leaves the pool alone and moves one drop to a label outside  *)
(* its init attempt keeps the layer.                                       *)
LEMMA PoolUntouched ==
  ASSUME TypeOK, PoolInv, NEW c \in Child,
         NEW l \in DropState \ {"recheck", "spawn", "join", "decide", "release"},
         l \in Early => pc[c] \in Early,
         pc' = [pc EXCEPT ![c] = l],
         UNCHANGED <<cell, init, tx, tried, worker>>
  PROVE  PoolInv'
<1>1. pc'[c] = l /\ \A d \in Child : d # c => pc'[d] = pc[d]
  BY DEF TypeOK
<1>2. LockHeld'
  BY <1>1 DEF PoolInv, LockHeld
<1>3. AttemptOpen'
  BY <1>1 DEF PoolInv, AttemptOpen
<1>4. WorkersOfAttempt'
  BY DEF PoolInv, WorkersOfAttempt
<1>5. \A d \in Child : SomeFailed(d)' <=> SomeFailed(d)
  BY DEF SomeFailed
<1>6. AbandonedFailed'
  BY <1>1, <1>5 DEF PoolInv, AbandonedFailed
<1>7. PoolNeverShrinks'
  BY DEF PoolInv, PoolNeverShrinks
<1> QED
  BY <1>2, <1>3, <1>4, <1>6, <1>7 DEF PoolInv

(* ... and so does one that moves nothing of a drop.                       *)
LEMMA PoolUnmoved ==
  ASSUME PoolInv, UNCHANGED <<pc, cell, init, tx, tried, worker>>
  PROVE  PoolInv'
BY DEF PoolInv, LockHeld, AttemptOpen, WorkersOfAttempt, AbandonedFailed, SomeFailed,
   PoolNeverShrinks

(* The layer of the init lock and the attempts.                            *)
LEMMA PoolInvHolds == Spec => []PoolInv
<1>1. Init => PoolInv
  BY PoolAssumption
     DEF Init, PoolInv, LockHeld, AttemptOpen, WorkersOfAttempt, AbandonedFailed,
         PoolNeverShrinks, Worker, Slot, Early
<1>2. TypeOK /\ PoolInv /\ [Next]_vars => PoolInv'
  <2> SUFFICES ASSUME TypeOK, PoolInv, [Next]_vars
               PROVE  PoolInv'
    OBVIOUS
  <2> USE PoolAssumption DEF TypeOK, PoolInv, Worker, Slot, Goto, dropVars, poolVars, workVars
  <2>1. ASSUME NEW c \in Child, Exit(c) PROVE PoolInv'
    <3>1. UNCHANGED <<pc, cell, init, tx, tried, worker>>
      BY <2>1 DEF Exit
    <3> QED
      BY <3>1, PoolUnmoved
  <2>2. ASSUME NEW c \in Child, UserWait(c) PROVE PoolInv'
    <3>1. UNCHANGED <<pc, cell, init, tx, tried, worker>>
      BY <2>2 DEF UserWait
    <3> QED
      BY <3>1, PoolUnmoved
  <2>3. ASSUME NEW c \in Child, OrphanReap(c) PROVE PoolInv'
    <3>1. UNCHANGED <<pc, cell, init, tx, tried, worker>>
      BY <2>3 DEF OrphanReap
    <3> QED
      BY <3>1, PoolUnmoved
  <2>4. ASSUME NEW c \in Child, DropDetached(c) PROVE PoolInv'
    <3>1. /\ pc[c] = "owned" /\ pc' = [pc EXCEPT ![c] = "done"]
          /\ UNCHANGED <<cell, init, tx, tried, worker>>
      BY <2>4 DEF DropDetached
    <3>2. /\ "done" \in DropState \ {"recheck", "spawn", "join", "decide", "release"}
          /\ "done" \in Early => pc[c] \in Early
      BY <3>1 DEF DropState, Early
    <3> QED
      BY <3>1, <3>2, PoolUntouched
  <2>5. ASSUME NEW c \in Child, DropSignalTree(c) PROVE PoolInv'
    <3>1. /\ pc[c] = "owned" /\ pc' = [pc EXCEPT ![c] = "tree"]
          /\ UNCHANGED <<cell, init, tx, tried, worker>>
      BY <2>5 DEF DropSignalTree
    <3>2. /\ "tree" \in DropState \ {"recheck", "spawn", "join", "decide", "release"}
          /\ "tree" \in Early => pc[c] \in Early
      BY <3>1 DEF DropState, Early
    <3> QED
      BY <3>1, <3>2, PoolUntouched
  <2>6. ASSUME NEW c \in Child, DropAlreadyReaped(c) PROVE PoolInv'
    <3>1. /\ pc[c] = "tree" /\ pc' = [pc EXCEPT ![c] = "done"]
          /\ UNCHANGED <<cell, init, tx, tried, worker>>
      BY <2>6 DEF DropAlreadyReaped
    <3>2. /\ "done" \in DropState \ {"recheck", "spawn", "join", "decide", "release"}
          /\ "done" \in Early => pc[c] \in Early
      BY <3>1 DEF DropState, Early
    <3> QED
      BY <3>1, <3>2, PoolUntouched
  <2>7. ASSUME NEW c \in Child, DropKillRoot(c) PROVE PoolInv'
    <3>1. /\ pc[c] = "tree" /\ pc' = [pc EXCEPT ![c] = "submit"]
          /\ UNCHANGED <<cell, init, tx, tried, worker>>
      BY <2>7 DEF DropKillRoot
    <3>2. /\ "submit" \in DropState \ {"recheck", "spawn", "join", "decide", "release"}
          /\ "submit" \in Early => pc[c] \in Early
      BY <3>1 DEF DropState, Early
    <3> QED
      BY <3>1, <3>2, PoolUntouched
  <2>8. ASSUME NEW c \in Child, DropKillRefused(c) PROVE PoolInv'
    <3>1. /\ pc[c] = "tree" /\ pc' = [pc EXCEPT ![c] = "done"]
          /\ UNCHANGED <<cell, init, tx, tried, worker>>
      BY <2>8 DEF DropKillRefused
    <3>2. /\ "done" \in DropState \ {"recheck", "spawn", "join", "decide", "release"}
          /\ "done" \in Early => pc[c] \in Early
      BY <3>1 DEF DropState, Early
    <3> QED
      BY <3>1, <3>2, PoolUntouched
  <2>9. ASSUME NEW c \in Child, CellHit(c) PROVE PoolInv'
    <3>1. /\ pc[c] = "submit" /\ pc' = [pc EXCEPT ![c] = "send"]
          /\ UNCHANGED <<cell, init, tx, tried, worker>>
      BY <2>9 DEF CellHit
    <3>2. /\ "send" \in DropState \ {"recheck", "spawn", "join", "decide", "release"}
          /\ "send" \in Early => pc[c] \in Early
      BY <3>1 DEF DropState, Early
    <3> QED
      BY <3>1, <3>2, PoolUntouched
  <2>10. ASSUME NEW c \in Child, CellMiss(c) PROVE PoolInv'
    <3>1. /\ pc[c] = "submit" /\ pc' = [pc EXCEPT ![c] = "lock"]
          /\ UNCHANGED <<cell, init, tx, tried, worker>>
      BY <2>10 DEF CellMiss
    <3>2. /\ "lock" \in DropState \ {"recheck", "spawn", "join", "decide", "release"}
          /\ "lock" \in Early => pc[c] \in Early
      BY <3>1 DEF DropState, Early
    <3> QED
      BY <3>1, <3>2, PoolUntouched
  <2>11. ASSUME NEW c \in Child, LockInit(c) PROVE PoolInv'
    <3>1. /\ pc[c] = "lock" /\ pc' = [pc EXCEPT ![c] = "recheck"]
          /\ init = NoOne /\ init' = c
          /\ UNCHANGED <<cell, tx, tried, worker>>
      BY <2>11 DEF LockInit
    <3>2. LockHeld'
      BY <3>1 DEF LockHeld
    <3>3. AttemptOpen'
      BY <3>1 DEF AttemptOpen, Early
    <3>4. WorkersOfAttempt' /\ PoolNeverShrinks'
      BY <3>1 DEF WorkersOfAttempt, PoolNeverShrinks
    <3>5. AbandonedFailed'
      BY <3>1 DEF AbandonedFailed, SomeFailed
    <3> QED
      BY <3>2, <3>3, <3>4, <3>5
  <2>12. ASSUME NEW c \in Child, RecheckHit(c) PROVE PoolInv'
    <3>1. /\ pc[c] = "recheck" /\ pc' = [pc EXCEPT ![c] = "decide"]
          /\ cell # NoOne /\ init' = NoOne
          /\ UNCHANGED <<cell, tx, tried, worker>>
      BY <2>12 DEF RecheckHit
    <3>2. LockHeld'
      BY <3>1 DEF LockHeld
    <3>3. AttemptOpen'
      BY <3>1 DEF AttemptOpen, Early
    <3>4. WorkersOfAttempt' /\ PoolNeverShrinks'
      BY <3>1 DEF WorkersOfAttempt, PoolNeverShrinks
    <3>5. AbandonedFailed'
      BY <3>1 DEF AbandonedFailed, SomeFailed
    <3> QED
      BY <3>2, <3>3, <3>4, <3>5
  <2>13. ASSUME NEW c \in Child, RecheckMiss(c) PROVE PoolInv'
    <3>1. /\ pc[c] = "recheck" /\ pc' = [pc EXCEPT ![c] = "spawn"]
          /\ cell = NoOne /\ tx' = [tx EXCEPT ![c] = "open"]
          /\ UNCHANGED <<cell, init, tried, worker>>
      BY <2>13 DEF RecheckMiss
    <3>2. LockHeld'
      BY <3>1 DEF LockHeld
    <3>3. AttemptOpen'
      BY <3>1 DEF AttemptOpen, Early
    <3>4. WorkersOfAttempt'
      <4>1. /\ tx[c] = "none"
            /\ \A d \in Child : d # c => tx'[d] = tx[d]
        BY <3>1 DEF AttemptOpen, Early
      <4>2. \A d \in Child : \A i \in Slot : worker[<<d, i>>] = "exited" => tx'[d] = "dropped"
        BY <4>1 DEF WorkersOfAttempt
      <4>3. WorkersOfAttempt /\ UNCHANGED <<cell, tried, worker>>
        BY <3>1
      <4> HIDE DEF TypeOK, PoolInv
      <4> QED
        BY <4>2, <4>3 DEF WorkersOfAttempt
    <3>6. PoolNeverShrinks'
      BY <3>1 DEF PoolNeverShrinks
    <3>5. AbandonedFailed'
      BY <3>1 DEF AbandonedFailed, SomeFailed
    <3> QED
      BY <3>2, <3>3, <3>4, <3>5, <3>6
  <2>14. ASSUME NEW c \in Child, SpawnWorker(c) PROVE PoolInv'
    <3>1. /\ pc[c] = "spawn" /\ tried[c] + 1 \in Slot
          /\ UNCHANGED <<pc, cell, init, tx>>
          /\ tried' = [tried EXCEPT ![c] = tried[c] + 1]
          /\ worker'[<<c, tried[c] + 1>>] \in {"recv", "failed"}
          /\ \A v \in Worker : v # <<c, tried[c] + 1>> => worker'[v] = worker[v]
      BY <2>14 DEF SpawnWorker, MoreToStart
    <3>2. cell = NoOne /\ tx[c] = "open"
      BY <3>1 DEF AttemptOpen
    <3>3. LockHeld' /\ AttemptOpen'
      BY <3>1 DEF LockHeld, AttemptOpen, Early
    <3>4. ASSUME NEW d \in Child, NEW i \in Slot
          PROVE  /\ i <= tried'[d] => worker'[<<d, i>>] # "unborn"
                 /\ worker'[<<d, i>>] = "exited" => tx'[d] = "dropped"
                 /\ worker'[<<d, i>>] \in {"wait", "free"} => cell' = d
      <4>1. CASE d = c /\ i = tried[c] + 1
        BY <3>1, <4>1
      <4>2. CASE d # c \/ i # tried[c] + 1
        <5>1. worker'[<<d, i>>] = worker[<<d, i>>]
          BY <3>1, <4>2
        <5>2. i <= tried'[d] => i <= tried[d]
          BY <3>1, <4>2
        <5> QED
          BY <3>1, <5>1, <5>2 DEF WorkersOfAttempt
      <4> QED
        BY <4>1, <4>2
    <3>5. \A d \in Child : d # c /\ SomeFailed(d) => SomeFailed(d)'
      BY <3>1 DEF SomeFailed
    <3>6. AbandonedFailed'
      BY <3>1, <3>5 DEF AbandonedFailed
    <3>7. PoolNeverShrinks'
      BY <3>1, <3>2 DEF PoolNeverShrinks
    <3> QED
      BY <3>3, <3>4, <3>6, <3>7 DEF WorkersOfAttempt
  <2>15. ASSUME NEW c \in Child, Publish(c) PROVE PoolInv'
    <3>1. /\ pc[c] = "spawn" /\ tried[c] = Bound
          /\ cell' = c /\ init' = NoOne /\ pc' = [pc EXCEPT ![c] = "decide"]
          /\ UNCHANGED <<tx, tried, worker>>
      BY <2>15 DEF Publish
    <3>2. init = c /\ cell = NoOne /\ tx[c] = "open"
      BY <3>1 DEF LockHeld, AttemptOpen
    <3>3. \A i \in Slot : worker[<<c, i>>] \in WorkerState \ {"unborn", "failed", "exited"}
      BY <2>15, <3>1, <3>2 DEF Publish, AllStarted, WorkersOfAttempt
    <3>4. LockHeld' /\ AttemptOpen'
      BY <3>1, <3>2 DEF LockHeld, AttemptOpen, Early
    <3>5. WorkersOfAttempt'
      BY <3>1, <3>2 DEF WorkersOfAttempt
    <3>6. AbandonedFailed'
      BY <3>1, <3>2 DEF AbandonedFailed, SomeFailed
    <3>7. PoolNeverShrinks'
      BY <3>1, <3>2, <3>3 DEF PoolNeverShrinks, WorkerState
    <3> QED
      BY <3>4, <3>5, <3>6, <3>7
  <2>16. ASSUME NEW c \in Child, Abandon(c) PROVE PoolInv'
    <3>1. /\ pc[c] = "spawn" /\ tried[c] = Bound
          /\ init' = NoOne /\ pc' = [pc EXCEPT ![c] = "join"]
          /\ tx' = [tx EXCEPT ![c] = "dropped"]
          /\ UNCHANGED <<cell, tried, worker>>
      BY <2>16 DEF Abandon
    <3>2. init = c /\ cell = NoOne /\ SomeFailed(c)
      BY <2>16, <3>1 DEF Abandon, AllStarted, LockHeld, AttemptOpen, SomeFailed
    <3>3. LockHeld' /\ AttemptOpen'
      BY <3>1, <3>2 DEF LockHeld, AttemptOpen, Early
    <3>4. WorkersOfAttempt' /\ PoolNeverShrinks'
      BY <3>1, <3>2 DEF WorkersOfAttempt, PoolNeverShrinks
    <3>5. AbandonedFailed'
      <4>1. \A d \in Child : SomeFailed(d)' <=> SomeFailed(d)
        BY <3>1 DEF SomeFailed
      <4> QED
        BY <3>1, <3>2, <4>1 DEF AbandonedFailed
    <3> QED
      BY <3>3, <3>4, <3>5
  <2>17. ASSUME NEW c \in Child, Joined(c) PROVE PoolInv'
    <3>1. /\ pc[c] = "join" /\ pc' = [pc EXCEPT ![c] = "decide"]
          /\ UNCHANGED <<cell, init, tx, tried, worker>>
      BY <2>17 DEF Joined
    <3>2. LockHeld' /\ AttemptOpen'
      BY <3>1 DEF LockHeld, AttemptOpen, Early
    <3>3. WorkersOfAttempt' /\ PoolNeverShrinks'
      BY <3>1 DEF WorkersOfAttempt, PoolNeverShrinks
    <3>4. AbandonedFailed'
      BY <3>1 DEF AbandonedFailed, SomeFailed
    <3> QED
      BY <3>2, <3>3, <3>4
  <2>18. ASSUME NEW c \in Child, Decide(c) PROVE PoolInv'
    <3>1. /\ pc[c] = "decide"
          /\ pc' = [pc EXCEPT ![c] = IF cell # NoOne THEN "send" ELSE "release"]
          /\ UNCHANGED <<cell, init, tx, tried, worker>>
      BY <2>18 DEF Decide
    <3>2. LockHeld'
      BY <3>1 DEF LockHeld
    <3>3. AttemptOpen'
      BY <3>1 DEF AttemptOpen, Early
    <3>4. WorkersOfAttempt' /\ PoolNeverShrinks'
      BY <3>1 DEF WorkersOfAttempt, PoolNeverShrinks
    <3>5. AbandonedFailed'
      BY <3>1 DEF AbandonedFailed, SomeFailed
    <3> QED
      BY <3>2, <3>3, <3>4, <3>5
  <2>19. ASSUME NEW c \in Child, Dispatch(c) PROVE PoolInv'
    <3>1. /\ pc[c] = "send" /\ pc' = [pc EXCEPT ![c] = "done"]
          /\ UNCHANGED <<cell, init, tx, tried, worker>>
      BY <2>19 DEF Dispatch
    <3>2. /\ "done" \in DropState \ {"recheck", "spawn", "join", "decide", "release"}
          /\ "done" \in Early => pc[c] \in Early
      BY <3>1 DEF DropState, Early
    <3> QED
      BY <3>1, <3>2, PoolUntouched
  <2>20. ASSUME NEW c \in Child, ReleaseJob(c) PROVE PoolInv'
    <3>1. /\ pc[c] = "release" /\ pc' = [pc EXCEPT ![c] = "done"]
          /\ UNCHANGED <<cell, init, tx, tried, worker>>
      BY <2>20 DEF ReleaseJob
    <3>2. /\ "done" \in DropState \ {"recheck", "spawn", "join", "decide", "release"}
          /\ "done" \in Early => pc[c] \in Early
      BY <3>1 DEF DropState, Early
    <3> QED
      BY <3>1, <3>2, PoolUntouched
  <2>21. ASSUME NEW w \in Worker, Receive(w) PROVE PoolInv'
    <3>1. /\ worker[w] = "recv" /\ w[1] = cell
          /\ UNCHANGED <<pc, cell, init, tx, tried>>
          /\ worker'[w] = "wait"
          /\ \A v \in Worker : v # w => worker'[v] = worker[v]
      BY <2>21 DEF Receive
    <3>2. LockHeld' /\ AttemptOpen'
      BY <3>1 DEF LockHeld, AttemptOpen, Early
    <3>3. ASSUME NEW d \in Child, NEW i \in Slot
          PROVE  \/ worker'[<<d, i>>] = worker[<<d, i>>]
                 \/ d = w[1] /\ worker[<<d, i>>] = worker[w] /\ worker'[<<d, i>>] = "wait"
      BY <3>1
    <3>4. ASSUME NEW d \in Child, NEW i \in Slot
          PROVE  /\ i <= tried'[d] => worker'[<<d, i>>] # "unborn"
                 /\ worker'[<<d, i>>] = "exited" => tx'[d] = "dropped"
                 /\ worker'[<<d, i>>] \in {"wait", "free"} => cell' = d
      <4>1. CASE worker'[<<d, i>>] = worker[<<d, i>>]
        BY <3>1, <4>1 DEF WorkersOfAttempt
      <4>2. CASE d = w[1] /\ worker[<<d, i>>] = worker[w] /\ worker'[<<d, i>>] = "wait"
        BY <3>1, <4>2 DEF WorkersOfAttempt
      <4> QED
        BY <3>3, <4>1, <4>2
    <3>5. PoolNeverShrinks'
      BY <3>1, <3>3 DEF PoolNeverShrinks
    <3>6. ASSUME NEW d \in Child, SomeFailed(d)
          PROVE  SomeFailed(d)'
      <4>1. PICK i \in Slot : worker[<<d, i>>] = "failed"
        BY <3>6 DEF SomeFailed
      <4> QED
        BY <3>1, <3>3, <4>1 DEF SomeFailed
    <3>7. AbandonedFailed'
      BY <3>1, <3>6 DEF AbandonedFailed
    <3> QED
      BY <3>2, <3>4, <3>5, <3>7 DEF WorkersOfAttempt
  <2>22. ASSUME NEW w \in Worker, Disconnect(w) PROVE PoolInv'
    <3>1. /\ worker[w] = "recv" /\ tx[w[1]] = "dropped"
          /\ UNCHANGED <<pc, cell, init, tx, tried>>
          /\ worker'[w] = "exited"
          /\ \A v \in Worker : v # w => worker'[v] = worker[v]
      BY <2>22 DEF Disconnect
    <3>2. LockHeld' /\ AttemptOpen'
      BY <3>1 DEF LockHeld, AttemptOpen, Early
    <3>3. ASSUME NEW d \in Child, NEW i \in Slot
          PROVE  \/ worker'[<<d, i>>] = worker[<<d, i>>]
                 \/ d = w[1] /\ worker[<<d, i>>] = worker[w] /\ worker'[<<d, i>>] = "exited"
      BY <3>1
    <3>4. ASSUME NEW d \in Child, NEW i \in Slot
          PROVE  /\ i <= tried'[d] => worker'[<<d, i>>] # "unborn"
                 /\ worker'[<<d, i>>] = "exited" => tx'[d] = "dropped"
                 /\ worker'[<<d, i>>] \in {"wait", "free"} => cell' = d
      <4>1. CASE worker'[<<d, i>>] = worker[<<d, i>>]
        BY <3>1, <4>1 DEF WorkersOfAttempt
      <4>2. CASE d = w[1] /\ worker[<<d, i>>] = worker[w] /\ worker'[<<d, i>>] = "exited"
        BY <3>1, <4>2 DEF WorkersOfAttempt
      <4> QED
        BY <3>3, <4>1, <4>2
    <3>5. PoolNeverShrinks'
      BY <3>1, <3>3 DEF PoolNeverShrinks
    <3>6. ASSUME NEW d \in Child, SomeFailed(d)
          PROVE  SomeFailed(d)'
      <4>1. PICK i \in Slot : worker[<<d, i>>] = "failed"
        BY <3>6 DEF SomeFailed
      <4> QED
        BY <3>1, <3>3, <4>1 DEF SomeFailed
    <3>7. AbandonedFailed'
      BY <3>1, <3>6 DEF AbandonedFailed
    <3> QED
      BY <3>2, <3>4, <3>5, <3>7 DEF WorkersOfAttempt
  <2>23. ASSUME NEW w \in Worker, WaitReturns(w) PROVE PoolInv'
    <3>1. /\ worker[w] = "wait"
          /\ UNCHANGED <<pc, cell, init, tx, tried>>
          /\ worker'[w] = "free"
          /\ \A v \in Worker : v # w => worker'[v] = worker[v]
      BY <2>23 DEF WaitReturns
    <3>2. LockHeld' /\ AttemptOpen'
      BY <3>1 DEF LockHeld, AttemptOpen, Early
    <3>3. ASSUME NEW d \in Child, NEW i \in Slot
          PROVE  \/ worker'[<<d, i>>] = worker[<<d, i>>]
                 \/ d = w[1] /\ worker[<<d, i>>] = worker[w] /\ worker'[<<d, i>>] = "free"
      BY <3>1
    <3>4. ASSUME NEW d \in Child, NEW i \in Slot
          PROVE  /\ i <= tried'[d] => worker'[<<d, i>>] # "unborn"
                 /\ worker'[<<d, i>>] = "exited" => tx'[d] = "dropped"
                 /\ worker'[<<d, i>>] \in {"wait", "free"} => cell' = d
      <4>1. CASE worker'[<<d, i>>] = worker[<<d, i>>]
        BY <3>1, <4>1 DEF WorkersOfAttempt
      <4>2. CASE d = w[1] /\ worker[<<d, i>>] = worker[w] /\ worker'[<<d, i>>] = "free"
        BY <3>1, <4>2 DEF WorkersOfAttempt
      <4> QED
        BY <3>3, <4>1, <4>2
    <3>5. PoolNeverShrinks'
      BY <3>1, <3>3 DEF PoolNeverShrinks
    <3>6. ASSUME NEW d \in Child, SomeFailed(d)
          PROVE  SomeFailed(d)'
      <4>1. PICK i \in Slot : worker[<<d, i>>] = "failed"
        BY <3>6 DEF SomeFailed
      <4> QED
        BY <3>1, <3>3, <4>1 DEF SomeFailed
    <3>7. AbandonedFailed'
      BY <3>1, <3>6 DEF AbandonedFailed
    <3> QED
      BY <3>2, <3>4, <3>5, <3>7 DEF WorkersOfAttempt
  <2>24. ASSUME NEW w \in Worker, WaitPanics(w) PROVE PoolInv'
    <3>1. /\ worker[w] = "wait"
          /\ UNCHANGED <<pc, cell, init, tx, tried>>
          /\ worker'[w] = "free"
          /\ \A v \in Worker : v # w => worker'[v] = worker[v]
      BY <2>24 DEF WaitPanics
    <3>2. LockHeld' /\ AttemptOpen'
      BY <3>1 DEF LockHeld, AttemptOpen, Early
    <3>3. ASSUME NEW d \in Child, NEW i \in Slot
          PROVE  \/ worker'[<<d, i>>] = worker[<<d, i>>]
                 \/ d = w[1] /\ worker[<<d, i>>] = worker[w] /\ worker'[<<d, i>>] = "free"
      BY <3>1
    <3>4. ASSUME NEW d \in Child, NEW i \in Slot
          PROVE  /\ i <= tried'[d] => worker'[<<d, i>>] # "unborn"
                 /\ worker'[<<d, i>>] = "exited" => tx'[d] = "dropped"
                 /\ worker'[<<d, i>>] \in {"wait", "free"} => cell' = d
      <4>1. CASE worker'[<<d, i>>] = worker[<<d, i>>]
        BY <3>1, <4>1 DEF WorkersOfAttempt
      <4>2. CASE d = w[1] /\ worker[<<d, i>>] = worker[w] /\ worker'[<<d, i>>] = "free"
        BY <3>1, <4>2 DEF WorkersOfAttempt
      <4> QED
        BY <3>3, <4>1, <4>2
    <3>5. PoolNeverShrinks'
      BY <3>1, <3>3 DEF PoolNeverShrinks
    <3>6. ASSUME NEW d \in Child, SomeFailed(d)
          PROVE  SomeFailed(d)'
      <4>1. PICK i \in Slot : worker[<<d, i>>] = "failed"
        BY <3>6 DEF SomeFailed
      <4> QED
        BY <3>1, <3>3, <4>1 DEF SomeFailed
    <3>7. AbandonedFailed'
      BY <3>1, <3>6 DEF AbandonedFailed
    <3> QED
      BY <3>2, <3>4, <3>5, <3>7 DEF WorkersOfAttempt
  <2>25. ASSUME NEW w \in Worker, FreeJob(w) PROVE PoolInv'
    <3>1. /\ worker[w] = "free"
          /\ UNCHANGED <<pc, cell, init, tx, tried>>
          /\ worker'[w] = "recv"
          /\ \A v \in Worker : v # w => worker'[v] = worker[v]
      BY <2>25 DEF FreeJob
    <3>2. LockHeld' /\ AttemptOpen'
      BY <3>1 DEF LockHeld, AttemptOpen, Early
    <3>3. ASSUME NEW d \in Child, NEW i \in Slot
          PROVE  \/ worker'[<<d, i>>] = worker[<<d, i>>]
                 \/ d = w[1] /\ worker[<<d, i>>] = worker[w] /\ worker'[<<d, i>>] = "recv"
      BY <3>1
    <3>4. ASSUME NEW d \in Child, NEW i \in Slot
          PROVE  /\ i <= tried'[d] => worker'[<<d, i>>] # "unborn"
                 /\ worker'[<<d, i>>] = "exited" => tx'[d] = "dropped"
                 /\ worker'[<<d, i>>] \in {"wait", "free"} => cell' = d
      <4>1. CASE worker'[<<d, i>>] = worker[<<d, i>>]
        BY <3>1, <4>1 DEF WorkersOfAttempt
      <4>2. CASE d = w[1] /\ worker[<<d, i>>] = worker[w] /\ worker'[<<d, i>>] = "recv"
        BY <3>1, <4>2 DEF WorkersOfAttempt
      <4> QED
        BY <3>3, <4>1, <4>2
    <3>5. PoolNeverShrinks'
      BY <3>1, <3>3 DEF PoolNeverShrinks
    <3>6. ASSUME NEW d \in Child, SomeFailed(d)
          PROVE  SomeFailed(d)'
      <4>1. PICK i \in Slot : worker[<<d, i>>] = "failed"
        BY <3>6 DEF SomeFailed
      <4> QED
        BY <3>1, <3>3, <4>1 DEF SomeFailed
    <3>7. AbandonedFailed'
      BY <3>1, <3>6 DEF AbandonedFailed
    <3> QED
      BY <3>2, <3>4, <3>5, <3>7 DEF WorkersOfAttempt
  <2>26. CASE UNCHANGED vars
    BY <2>26
       DEF vars, LockHeld, AttemptOpen, WorkersOfAttempt, AbandonedFailed, SomeFailed,
       PoolNeverShrinks, Early
  <2> QED
    BY <2>1, <2>2, <2>3, <2>4, <2>5, <2>6, <2>7, <2>8, <2>9, <2>10, <2>11, <2>12, <2>13, <2>14, <2>15, <2>16, <2>17, <2>18, <2>19, <2>20, <2>21, <2>22, <2>23, <2>24, <2>25, <2>26
       DEF Next, ChildStep, DropStep, WorkStep
<1> QED
  BY <1>1, <1>2, TypeCorrect, PTL DEF Spec
-----------------------------------------------------------------------------
(* The layer of the jobs.                                                  *)
LEMMA JobInvHolds == Spec => []JobInv
<1>1. Init => JobInv
  BY PoolAssumption
     DEF Init, JobInv, Whereabouts, JobInHand, JobsAccountedFor, WaitIsBoundedAndPinned,
         Worker, Slot, Owing
<1>2. TypeOK /\ PoolInv /\ JobInv /\ [Next]_vars => JobInv'
  <2> SUFFICES ASSUME TypeOK, PoolInv, JobInv, [Next]_vars
               PROVE  JobInv'
    OBVIOUS
  <2> USE PoolAssumption DEF TypeOK, JobInv, Worker, Goto, dropVars, poolVars, workVars
  <2>1. ASSUME NEW c \in Child, Exit(c) PROVE JobInv'
    BY <2>1
       DEF Exit, Whereabouts, JobInHand, JobsAccountedFor, WaitIsBoundedAndPinned,
       Owing, Signalled, Released
  <2>2. ASSUME NEW c \in Child, UserWait(c) PROVE JobInv'
    <3>1. /\ pc[c] = "owned" /\ os[c] = "handle"
          /\ proc' = [proc EXCEPT ![c] = "reaped"]
          /\ UNCHANGED <<pc, tree, os, worker, job, queue>>
      BY <2>2 DEF UserWait, Whereabouts
    <3>2. Whereabouts' /\ WaitIsBoundedAndPinned'
      BY <3>1 DEF Whereabouts, WaitIsBoundedAndPinned, Owing
    <3>3. JobInHand' /\ JobsAccountedFor'
      BY <3>1 DEF JobInHand, JobsAccountedFor
    <3> QED
      BY <3>2, <3>3
  <2>3. ASSUME NEW c \in Child, OrphanReap(c) PROVE JobInv'
    BY <2>3
       DEF OrphanReap, Whereabouts, JobInHand, JobsAccountedFor, WaitIsBoundedAndPinned,
       Owing, Signalled, Released
  <2>4. ASSUME NEW c \in Child, DropDetached(c) PROVE JobInv'
    BY <2>4
       DEF DropDetached, Whereabouts, JobInHand, JobsAccountedFor, WaitIsBoundedAndPinned,
       Owing, Signalled, Released
  <2>5. ASSUME NEW c \in Child, DropSignalTree(c) PROVE JobInv'
    BY <2>5
       DEF DropSignalTree, Whereabouts, JobInHand, JobsAccountedFor, WaitIsBoundedAndPinned,
       Owing, Signalled, Released
  <2>6. ASSUME NEW c \in Child, DropAlreadyReaped(c) PROVE JobInv'
    <3>1. /\ pc[c] = "tree" /\ os[c] = "handle"
          /\ pc' = [pc EXCEPT ![c] = "done"]
          /\ os' = [os EXCEPT ![c] = "released"]
          /\ \A d \in Child : d # c => proc'[d] = proc[d]
          /\ UNCHANGED <<tree, worker, job, queue>>
      BY <2>6 DEF DropAlreadyReaped, Released, Whereabouts
    <3>2. Whereabouts'
      BY <3>1 DEF Whereabouts, Owing
    <3>3. WaitIsBoundedAndPinned'
      BY <3>1 DEF WaitIsBoundedAndPinned
    <3>4. JobInHand'
      BY <3>1 DEF JobInHand
    <3>5. JobsAccountedFor'
      BY <3>1 DEF JobsAccountedFor
    <3> QED
      BY <3>2, <3>3, <3>4, <3>5
  <2>7. ASSUME NEW c \in Child, DropKillRoot(c) PROVE JobInv'
    <3>1. /\ pc[c] = "tree" /\ os[c] = "handle" /\ c \in tree
          /\ pc' = [pc EXCEPT ![c] = "submit"]
          /\ proc'[c] \in {"killed", "exited"}
          /\ \A d \in Child : d # c => proc'[d] = proc[d]
          /\ UNCHANGED <<tree, os, worker, job, queue>>
      BY <2>7 DEF DropKillRoot, Signalled, Whereabouts, ProcState
    <3>2. Whereabouts'
      BY <3>1 DEF Whereabouts, Owing
    <3>3. WaitIsBoundedAndPinned'
      BY <3>1 DEF WaitIsBoundedAndPinned
    <3>4. JobInHand' /\ JobsAccountedFor'
      BY <3>1 DEF JobInHand, JobsAccountedFor
    <3> QED
      BY <3>2, <3>3, <3>4
  <2>8. ASSUME NEW c \in Child, DropKillRefused(c) PROVE JobInv'
    <3>1. /\ pc[c] = "tree" /\ os[c] = "handle"
          /\ pc' = [pc EXCEPT ![c] = "done"]
          /\ os' = [os EXCEPT ![c] = "released"]
          /\ \A d \in Child : d # c => proc'[d] = proc[d]
          /\ UNCHANGED <<tree, worker, job, queue>>
      BY <2>8 DEF DropKillRefused, Released, Whereabouts
    <3>2. Whereabouts'
      BY <3>1 DEF Whereabouts, Owing
    <3>3. WaitIsBoundedAndPinned'
      BY <3>1 DEF WaitIsBoundedAndPinned
    <3>4. JobInHand'
      BY <3>1 DEF JobInHand
    <3>5. JobsAccountedFor'
      BY <3>1 DEF JobsAccountedFor
    <3> QED
      BY <3>2, <3>3, <3>4, <3>5
  <2>9. ASSUME NEW c \in Child, CellHit(c) PROVE JobInv'
    BY <2>9
       DEF CellHit, Whereabouts, JobInHand, JobsAccountedFor, WaitIsBoundedAndPinned,
       Owing, Signalled, Released
  <2>10. ASSUME NEW c \in Child, CellMiss(c) PROVE JobInv'
    BY <2>10
       DEF CellMiss, Whereabouts, JobInHand, JobsAccountedFor, WaitIsBoundedAndPinned,
       Owing, Signalled, Released
  <2>11. ASSUME NEW c \in Child, LockInit(c) PROVE JobInv'
    BY <2>11
       DEF LockInit, Whereabouts, JobInHand, JobsAccountedFor, WaitIsBoundedAndPinned,
       Owing, Signalled, Released
  <2>12. ASSUME NEW c \in Child, RecheckHit(c) PROVE JobInv'
    BY <2>12
       DEF RecheckHit, Whereabouts, JobInHand, JobsAccountedFor, WaitIsBoundedAndPinned,
       Owing, Signalled, Released
  <2>13. ASSUME NEW c \in Child, RecheckMiss(c) PROVE JobInv'
    BY <2>13
       DEF RecheckMiss, Whereabouts, JobInHand, JobsAccountedFor, WaitIsBoundedAndPinned,
       Owing, Signalled, Released
  <2>14. ASSUME NEW c \in Child, SpawnWorker(c) PROVE JobInv'
    <3> DEFINE new == <<c, tried[c] + 1>>
    <3>1. /\ pc[c] = "spawn" /\ new \in Worker
          /\ worker'[new] \notin {"wait", "free"}
          /\ \A v \in Worker : v # new => worker'[v] = worker[v]
          /\ UNCHANGED <<pc, proc, tree, os, job, queue>>
      BY <2>14 DEF SpawnWorker, MoreToStart, Slot
    <3>2. worker[new] \notin {"wait", "free"}
      BY <3>1 DEF PoolInv, AttemptOpen, WorkersOfAttempt
    <3>3. \A v \in Worker : worker'[v] \in {"wait", "free"} <=> worker[v] \in {"wait", "free"}
      BY <3>1, <3>2
    <3> HIDE DEF new
    <3>4. Whereabouts' /\ WaitIsBoundedAndPinned'
      BY <3>1 DEF Whereabouts, WaitIsBoundedAndPinned
    <3>5. JobInHand'
      BY <3>1, <3>3 DEF JobInHand
    <3>6. JobsAccountedFor'
      BY <3>1 DEF JobsAccountedFor
    <3> QED
      BY <3>4, <3>5, <3>6
  <2>15. ASSUME NEW c \in Child, Publish(c) PROVE JobInv'
    BY <2>15
       DEF Publish, Whereabouts, JobInHand, JobsAccountedFor, WaitIsBoundedAndPinned,
       Owing, Signalled, Released
  <2>16. ASSUME NEW c \in Child, Abandon(c) PROVE JobInv'
    BY <2>16
       DEF Abandon, Whereabouts, JobInHand, JobsAccountedFor, WaitIsBoundedAndPinned,
       Owing, Signalled, Released
  <2>17. ASSUME NEW c \in Child, Joined(c) PROVE JobInv'
    BY <2>17
       DEF Joined, Whereabouts, JobInHand, JobsAccountedFor, WaitIsBoundedAndPinned,
       Owing, Signalled, Released
  <2>18. ASSUME NEW c \in Child, Decide(c) PROVE JobInv'
    BY <2>18
       DEF Decide, Whereabouts, JobInHand, JobsAccountedFor, WaitIsBoundedAndPinned,
       Owing, Signalled, Released
  <2>19. ASSUME NEW c \in Child, Dispatch(c) PROVE JobInv'
    <3>1. /\ pc[c] = "send" /\ os[c] = "handle"
          /\ pc' = [pc EXCEPT ![c] = "done"]
          /\ os' = [os EXCEPT ![c] = "queue"]
          /\ queue' = Append(queue, c)
          /\ UNCHANGED <<proc, tree, worker, job>>
      BY <2>19 DEF Dispatch, Whereabouts
    <3>2. /\ DOMAIN queue = 1 .. Len(queue) /\ Len(queue) \in Nat
          /\ DOMAIN queue' = 1 .. (Len(queue) + 1)
          /\ queue'[Len(queue) + 1] = c
          /\ \A i \in DOMAIN queue : queue'[i] = queue[i] /\ i \in DOMAIN queue'
      BY <3>1
    <3>3. \A i \in DOMAIN queue' : i \in DOMAIN queue \/ i = Len(queue) + 1
      BY <3>2
    <3>4. ASSUME NEW i \in DOMAIN queue
          PROVE  queue[i] \in Child /\ queue[i] # c
      <4>1. os[c] # "queue"
        BY <3>1
      <4>2. queue[i] # c
        BY <4>1 DEF JobsAccountedFor
      <4> QED
        BY <3>2, <4>2
    <3>5. Whereabouts'
      BY <3>1 DEF Whereabouts, Owing
    <3>6. WaitIsBoundedAndPinned'
      BY <3>1 DEF WaitIsBoundedAndPinned, Whereabouts, Owing
    <3>7. JobInHand'
      BY <3>1 DEF JobInHand
    <3>8. \A i, j \in DOMAIN queue' : queue'[i] = queue'[j] => i = j
      BY <3>2, <3>3, <3>4 DEF JobsAccountedFor
    <3>9. ASSUME NEW d \in Child
          PROVE  (os'[d] = "queue") <=> (\E i \in DOMAIN queue' : queue'[i] = d)
      <4>1. CASE d = c
        <5>1. os'[d] = "queue"
          BY <3>1, <4>1
        <5>2. Len(queue) + 1 \in DOMAIN queue' /\ queue'[Len(queue) + 1] = d
          BY <3>2, <4>1
        <5> QED
          BY <5>1, <5>2
      <4>2. CASE d # c
        <5>1. (os'[d] = "queue") <=> (\E i \in DOMAIN queue : queue[i] = d)
          BY <3>1, <4>2 DEF JobsAccountedFor
        <5>2. (\E i \in DOMAIN queue : queue[i] = d) <=> (\E i \in DOMAIN queue' : queue'[i] = d)
          BY <3>2, <3>3, <4>2
        <5> QED
          BY <5>1, <5>2
      <4> QED
        BY <4>1, <4>2
    <3>10. /\ \A d \in Child : (os'[d] = "worker") <=> (\E w \in Worker : job'[w] = d)
           /\ \A v, w \in Worker : job'[v] = job'[w] /\ job'[v] # NoOne => v = w
      BY <3>1 DEF JobsAccountedFor
    <3> QED
      BY <3>5, <3>6, <3>7, <3>8, <3>9, <3>10 DEF JobsAccountedFor
  <2>20. ASSUME NEW c \in Child, ReleaseJob(c) PROVE JobInv'
    BY <2>20
       DEF ReleaseJob, Whereabouts, JobInHand, JobsAccountedFor, WaitIsBoundedAndPinned,
       Owing, Signalled, Released
  <2>21. ASSUME NEW w \in Worker, Receive(w) PROVE JobInv'
    <3> DEFINE c == Head(queue)
    <3>1. /\ worker[w] = "recv" /\ queue # <<>>
          /\ worker' = [worker EXCEPT ![w] = "wait"]
          /\ job' = [job EXCEPT ![w] = c]
          /\ os' = [os EXCEPT ![c] = "worker"]
          /\ queue' = Tail(queue)
          /\ UNCHANGED <<pc, proc, tree>>
      BY <2>21 DEF Receive
    <3>2. /\ c \in Child /\ Len(queue) \in Nat \ {0} /\ c = queue[1]
          /\ DOMAIN queue = 1 .. Len(queue)
          /\ DOMAIN queue' = 1 .. (Len(queue) - 1)
          /\ \A i \in DOMAIN queue' : queue'[i] = queue[i + 1]
      BY <3>1
    <3> HIDE DEF c
    <3>3. os[c] = "queue" /\ job[w] = NoOne /\ \A v \in Worker : job[v] # c
      <4>1. 1 \in DOMAIN queue /\ queue[1] = c
        BY <3>2
      <4>2. os[c] = "queue"
        BY <3>2, <4>1 DEF JobsAccountedFor
      <4>3. \A v \in Worker : job[v] # c
        BY <3>2, <4>2 DEF JobsAccountedFor
      <4> QED
        BY <3>1, <4>2, <4>3 DEF JobInHand
    <3>4. pc[c] = "done"
      BY <3>2, <3>3 DEF Whereabouts
    <3>5. Whereabouts'
      BY <3>1, <3>2, <3>4 DEF Whereabouts
    <3>6. WaitIsBoundedAndPinned'
      BY <3>1, <3>2, <3>3 DEF WaitIsBoundedAndPinned
    <3>7. JobInHand'
      BY <3>1, <3>2 DEF JobInHand
    <3>8. ASSUME NEW i \in DOMAIN queue', NEW j \in DOMAIN queue', queue'[i] = queue'[j]
          PROVE  i = j
      <4>1. /\ i + 1 \in DOMAIN queue /\ j + 1 \in DOMAIN queue
            /\ queue[i + 1] = queue[j + 1]
            /\ i \in Nat /\ j \in Nat
        <5> HIDE DEF TypeOK, JobInv, Worker
        <5>1. i \in 1 .. (Len(queue) - 1) /\ j \in 1 .. (Len(queue) - 1)
          BY <3>2
        <5>2. i + 1 \in 1 .. Len(queue) /\ j + 1 \in 1 .. Len(queue) /\ i \in Nat /\ j \in Nat
          BY <3>2, <5>1
        <5>3. queue[i + 1] = queue[j + 1]
          BY <3>2, <3>8
        <5> QED
          BY <3>2, <5>2, <5>3
      <4>2. i + 1 = j + 1
        BY <4>1 DEF JobsAccountedFor
      <4> QED
        BY <4>1, <4>2
    <3>9. ASSUME NEW d \in Child
          PROVE  (os'[d] = "queue") <=> (\E i \in DOMAIN queue' : queue'[i] = d)
      <4>1. CASE d = c
        <5>1. os'[d] # "queue"
          BY <3>1, <4>1
        <5>2. ASSUME NEW i \in DOMAIN queue', queue'[i] = c
              PROVE  FALSE
          <6>1. /\ i + 1 \in DOMAIN queue /\ 1 \in DOMAIN queue
                /\ queue[i + 1] = queue[1]
                /\ i \in Nat \ {0}
            BY <3>2, <5>2
          <6>2. i + 1 = 1
            BY <6>1 DEF JobsAccountedFor
          <6> QED
            BY <6>1, <6>2
        <5> QED
          BY <4>1, <5>1, <5>2
      <4>2. CASE d # c
        <5>1. (os'[d] = "queue") <=> (\E i \in DOMAIN queue : queue[i] = d)
          BY <3>1, <4>2 DEF JobsAccountedFor
        <5>2. ASSUME NEW i \in DOMAIN queue, queue[i] = d
              PROVE  \E j \in DOMAIN queue' : queue'[j] = d
          <6>1. i \in 1 .. Len(queue) /\ i # 1
            BY <3>2, <4>2, <5>2
          <6>2. i - 1 \in DOMAIN queue' /\ (i - 1) + 1 = i
            BY <3>2, <6>1
          <6>3. queue'[i - 1] = d
            BY <3>2, <5>2, <6>2
          <6> QED
            BY <6>2, <6>3
        <5>3. ASSUME NEW j \in DOMAIN queue', queue'[j] = d
              PROVE  \E i \in DOMAIN queue : queue[i] = d
          <6>1. j + 1 \in DOMAIN queue /\ queue[j + 1] = d
            <7>1. j \in 1 .. (Len(queue) - 1)
              BY <3>2
            <7>2. j + 1 \in 1 .. Len(queue)
              BY <3>2, <7>1
            <7> QED
              BY <3>2, <5>3, <7>2
          <6> QED
            BY <6>1
        <5> QED
          BY <5>1, <5>2, <5>3
      <4> QED
        BY <4>1, <4>2
    <3>10. ASSUME NEW d \in Child
           PROVE  (os'[d] = "worker") <=> (\E v \in Worker : job'[v] = d)
      <4>1. CASE d = c
        BY <3>1, <3>2, <4>1
      <4>2. CASE d # c
        BY <3>1, <3>2, <3>3, <4>2 DEF JobsAccountedFor
      <4> QED
        BY <4>1, <4>2
    <3>11. \A u, v \in Worker : job'[u] = job'[v] /\ job'[u] # NoOne => u = v
      BY <3>1, <3>3 DEF JobsAccountedFor
    <3> QED
      BY <3>5, <3>6, <3>7, <3>8, <3>9, <3>10, <3>11 DEF JobsAccountedFor
  <2>22. ASSUME NEW w \in Worker, Disconnect(w) PROVE JobInv'
    BY <2>22
       DEF Disconnect, Whereabouts, JobInHand, JobsAccountedFor, WaitIsBoundedAndPinned,
       Owing, Signalled, Released
  <2>23. ASSUME NEW w \in Worker, WaitReturns(w) PROVE JobInv'
    BY <2>23
       DEF WaitReturns, Whereabouts, JobInHand, JobsAccountedFor, WaitIsBoundedAndPinned,
       Owing, Signalled, Released
  <2>24. ASSUME NEW w \in Worker, WaitPanics(w) PROVE JobInv'
    BY <2>24
       DEF WaitPanics, Whereabouts, JobInHand, JobsAccountedFor, WaitIsBoundedAndPinned,
       Owing, Signalled, Released
  <2>25. ASSUME NEW w \in Worker, FreeJob(w) PROVE JobInv'
    BY <2>25
       DEF FreeJob, Whereabouts, JobInHand, JobsAccountedFor, WaitIsBoundedAndPinned,
       Owing, Signalled, Released
  <2>26. CASE UNCHANGED vars
    BY <2>26
       DEF vars, Whereabouts, JobInHand, JobsAccountedFor, WaitIsBoundedAndPinned,
       Owing, Signalled, Released
  <2> QED
    BY <2>1, <2>2, <2>3, <2>4, <2>5, <2>6, <2>7, <2>8, <2>9, <2>10, <2>11, <2>12, <2>13, <2>14, <2>15, <2>16, <2>17, <2>18, <2>19, <2>20, <2>21, <2>22, <2>23, <2>24, <2>25, <2>26
       DEF Next, ChildStep, DropStep, WorkStep
<1> QED
  BY <1>1, <1>2, TypeCorrect, PoolInvHolds, PTL DEF Spec
-----------------------------------------------------------------------------
(* The exit a worker waited for stays uncollected until it releases.       *)
LEMMA ExitSeenHolds == Spec => []ExitSeen
<1>1. Init => ExitSeen
  BY DEF Init, ExitSeen
<1>2. TypeOK /\ JobInv /\ ExitSeen /\ [Next]_vars => ExitSeen'
  <2> SUFFICES ASSUME TypeOK, JobInv, ExitSeen, [Next]_vars,
                      NEW v \in Worker, worker'[v] = "free"
               PROVE  proc'[job'[v]] = "exited" \/ job'[v] \in Panicky
    BY DEF ExitSeen
  <2> USE PoolAssumption DEF TypeOK, JobInv, Worker, Goto, dropVars, poolVars, workVars
  <2>0. ASSUME NEW c \in Child, worker[v] = "free", os[c] # "worker"
        PROVE  job[v] \in Child /\ job[v] # c
    BY <2>0 DEF JobInHand, JobsAccountedFor
  <2>1. ASSUME NEW c \in Child, Exit(c)
        PROVE  proc'[job'[v]] = "exited" \/ job'[v] \in Panicky
    BY <2>1, <2>0 DEF Exit, ExitSeen, Signalled, Released, Whereabouts
  <2>2. ASSUME NEW c \in Child, UserWait(c)
        PROVE  proc'[job'[v]] = "exited" \/ job'[v] \in Panicky
    BY <2>2, <2>0 DEF UserWait, ExitSeen, Signalled, Released, Whereabouts
  <2>3. ASSUME NEW c \in Child, OrphanReap(c)
        PROVE  proc'[job'[v]] = "exited" \/ job'[v] \in Panicky
    BY <2>3, <2>0 DEF OrphanReap, ExitSeen, Signalled, Released, Whereabouts
  <2>4. ASSUME NEW c \in Child, DropDetached(c)
        PROVE  proc'[job'[v]] = "exited" \/ job'[v] \in Panicky
    BY <2>4, <2>0 DEF DropDetached, ExitSeen, Signalled, Released, Whereabouts
  <2>5. ASSUME NEW c \in Child, DropSignalTree(c)
        PROVE  proc'[job'[v]] = "exited" \/ job'[v] \in Panicky
    BY <2>5, <2>0 DEF DropSignalTree, ExitSeen, Signalled, Released, Whereabouts
  <2>6. ASSUME NEW c \in Child, DropAlreadyReaped(c)
        PROVE  proc'[job'[v]] = "exited" \/ job'[v] \in Panicky
    BY <2>6, <2>0 DEF DropAlreadyReaped, ExitSeen, Signalled, Released, Whereabouts
  <2>7. ASSUME NEW c \in Child, DropKillRoot(c)
        PROVE  proc'[job'[v]] = "exited" \/ job'[v] \in Panicky
    BY <2>7, <2>0 DEF DropKillRoot, ExitSeen, Signalled, Released, Whereabouts
  <2>8. ASSUME NEW c \in Child, DropKillRefused(c)
        PROVE  proc'[job'[v]] = "exited" \/ job'[v] \in Panicky
    BY <2>8, <2>0 DEF DropKillRefused, ExitSeen, Signalled, Released, Whereabouts
  <2>9. ASSUME NEW c \in Child, CellHit(c)
        PROVE  proc'[job'[v]] = "exited" \/ job'[v] \in Panicky
    BY <2>9, <2>0 DEF CellHit, ExitSeen, Signalled, Released, Whereabouts
  <2>10. ASSUME NEW c \in Child, CellMiss(c)
        PROVE  proc'[job'[v]] = "exited" \/ job'[v] \in Panicky
    BY <2>10, <2>0 DEF CellMiss, ExitSeen, Signalled, Released, Whereabouts
  <2>11. ASSUME NEW c \in Child, LockInit(c)
        PROVE  proc'[job'[v]] = "exited" \/ job'[v] \in Panicky
    BY <2>11, <2>0 DEF LockInit, ExitSeen, Signalled, Released, Whereabouts
  <2>12. ASSUME NEW c \in Child, RecheckHit(c)
        PROVE  proc'[job'[v]] = "exited" \/ job'[v] \in Panicky
    BY <2>12, <2>0 DEF RecheckHit, ExitSeen, Signalled, Released, Whereabouts
  <2>13. ASSUME NEW c \in Child, RecheckMiss(c)
        PROVE  proc'[job'[v]] = "exited" \/ job'[v] \in Panicky
    BY <2>13, <2>0 DEF RecheckMiss, ExitSeen, Signalled, Released, Whereabouts
  <2>14. ASSUME NEW c \in Child, SpawnWorker(c)
        PROVE  proc'[job'[v]] = "exited" \/ job'[v] \in Panicky
    BY <2>14, <2>0 DEF SpawnWorker, ExitSeen, Signalled, Released, Whereabouts
  <2>15. ASSUME NEW c \in Child, Publish(c)
        PROVE  proc'[job'[v]] = "exited" \/ job'[v] \in Panicky
    BY <2>15, <2>0 DEF Publish, ExitSeen, Signalled, Released, Whereabouts
  <2>16. ASSUME NEW c \in Child, Abandon(c)
        PROVE  proc'[job'[v]] = "exited" \/ job'[v] \in Panicky
    BY <2>16, <2>0 DEF Abandon, ExitSeen, Signalled, Released, Whereabouts
  <2>17. ASSUME NEW c \in Child, Joined(c)
        PROVE  proc'[job'[v]] = "exited" \/ job'[v] \in Panicky
    BY <2>17, <2>0 DEF Joined, ExitSeen, Signalled, Released, Whereabouts
  <2>18. ASSUME NEW c \in Child, Decide(c)
        PROVE  proc'[job'[v]] = "exited" \/ job'[v] \in Panicky
    BY <2>18, <2>0 DEF Decide, ExitSeen, Signalled, Released, Whereabouts
  <2>19. ASSUME NEW c \in Child, Dispatch(c)
        PROVE  proc'[job'[v]] = "exited" \/ job'[v] \in Panicky
    BY <2>19, <2>0 DEF Dispatch, ExitSeen, Signalled, Released, Whereabouts
  <2>20. ASSUME NEW c \in Child, ReleaseJob(c)
        PROVE  proc'[job'[v]] = "exited" \/ job'[v] \in Panicky
    BY <2>20, <2>0 DEF ReleaseJob, ExitSeen, Signalled, Released, Whereabouts
  <2>21. ASSUME NEW w \in Worker, Receive(w)
        PROVE  proc'[job'[v]] = "exited" \/ job'[v] \in Panicky
    BY <2>21, <2>0 DEF Receive, ExitSeen, Signalled, Released, Whereabouts
  <2>22. ASSUME NEW w \in Worker, Disconnect(w)
        PROVE  proc'[job'[v]] = "exited" \/ job'[v] \in Panicky
    BY <2>22, <2>0 DEF Disconnect, ExitSeen, Signalled, Released, Whereabouts
  <2>23. ASSUME NEW w \in Worker, WaitReturns(w)
        PROVE  proc'[job'[v]] = "exited" \/ job'[v] \in Panicky
    BY <2>23, <2>0 DEF WaitReturns, ExitSeen, Signalled, Released, Whereabouts
  <2>24. ASSUME NEW w \in Worker, WaitPanics(w)
        PROVE  proc'[job'[v]] = "exited" \/ job'[v] \in Panicky
    BY <2>24, <2>0 DEF WaitPanics, ExitSeen, Signalled, Released, Whereabouts
  <2>25. ASSUME NEW w \in Worker, FreeJob(w)
        PROVE  proc'[job'[v]] = "exited" \/ job'[v] \in Panicky
    <3>1. /\ worker[w] = "free" /\ worker' = [worker EXCEPT ![w] = "recv"]
          /\ job' = [job EXCEPT ![w] = NoOne]
          /\ \A d \in Child : d # job[w] => proc'[d] = proc[d]
      BY <2>25 DEF FreeJob, Released
    <3>2. v # w /\ worker[v] = "free" /\ job'[v] = job[v]
      BY <3>1
    <3>3. job[v] \in Child /\ job[v] # job[w]
      BY <3>1, <3>2 DEF JobInHand, JobsAccountedFor
    <3> QED
      BY <3>1, <3>2, <3>3 DEF ExitSeen
  <2>26. CASE UNCHANGED vars
    BY <2>26 DEF vars, ExitSeen
  <2> QED
    BY <2>1, <2>2, <2>3, <2>4, <2>5, <2>6, <2>7, <2>8, <2>9, <2>10, <2>11, <2>12, <2>13, <2>14, <2>15, <2>16, <2>17, <2>18, <2>19, <2>20, <2>21, <2>22, <2>23, <2>24, <2>25, <2>26
       DEF Next, ChildStep, DropStep, WorkStep
<1> QED
  BY <1>1, <1>2, TypeCorrect, JobInvHolds, PTL DEF Spec

-----------------------------------------------------------------------------
(* A published pool is at full width and stays there, whatever spawns fail *)
(* in the other drops' attempts and whatever its jobs do.                  *)
THEOREM PublishedPoolIsWhole == Spec => []PoolNeverShrinks
<1>1. PoolInv => PoolNeverShrinks
  BY DEF PoolInv
<1> QED
  BY <1>1, PoolInvHolds, PTL

(* A drop that joins the workers of its abandoned attempt waits for no     *)
(* child: none of them ever had a job.                                     *)
THEOREM JoinsAreBounded == Spec => []JoinsNeverWaitOnAReap
<1>1. TypeOK /\ PoolInv => JoinsNeverWaitOnAReap
  BY PoolAssumption
     DEF TypeOK, PoolInv, AbandonedFailed, WorkersOfAttempt, JoinsNeverWaitOnAReap,
         Worker, Slot, WorkerState
<1> QED
  BY <1>1, TypeCorrect, PoolInvHolds, PTL

(* The degraded mode is entered only by a drop whose own attempt failed.   *)
THEOREM DegradedOnlyByFailure == Spec => []ReleasedOnlyAfterOwnFailure
<1>1. PoolInv => ReleasedOnlyAfterOwnFailure
  BY DEF PoolInv, AbandonedFailed, SomeFailed, ReleasedOnlyAfterOwnFailure
<1> QED
  BY <1>1, PoolInvHolds, PTL

(* The resources of every child are in one place: no job is lost, doubled  *)
(* or held by two workers.                                                 *)
THEOREM NoJobLostOrDoubled == Spec => []JobsAccountedFor
<1>1. JobInv => JobsAccountedFor
  BY DEF JobInv
<1> QED
  BY <1>1, JobInvHolds, PTL

(* A reaper only waits on a child that was killed and not yet collected.   *)
THEOREM WaitsAreBoundedAndPinned == Spec => []WaitIsBoundedAndPinned
<1>1. JobInv => WaitIsBoundedAndPinned
  BY DEF JobInv
<1> QED
  BY <1>1, JobInvHolds, PTL

(* The three together: the pool is published whole or not at all, joined   *)
(* without delay and given up on for cause.                                *)
THEOREM PoolStaysSound == Spec => []PoolIsSound
<1>1. PoolNeverShrinks /\ JoinsNeverWaitOnAReap /\ ReleasedOnlyAfterOwnFailure => PoolIsSound
  BY DEF PoolIsSound
<1> QED
  BY <1>1, PublishedPoolIsWhole, JoinsAreBounded, DegradedOnlyByFailure, PTL

(* The two about the jobs together.                                        *)
THEOREM JobsStaySound == Spec => []JobsAreSound
<1>1. JobsAccountedFor /\ WaitIsBoundedAndPinned => JobsAreSound
  BY DEF JobsAreSound
<1> QED
  BY <1>1, NoJobLostOrDoubled, WaitsAreBoundedAndPinned, PTL

(* A worker's release of a job is the one that collects the root's exit.   *)
THEOREM ReleaseCollectsTheRoot == Spec => ReapBeforeRelease
<1>1. TypeOK /\ JobInv /\ ExitSeen /\ [Next]_vars
        => [\A c \in Child : os[c] = "worker" /\ os'[c] = "released"
              => proc'[c] = "reaped" \/ c \in Panicky]_vars
  <2> SUFFICES ASSUME TypeOK, JobInv, ExitSeen, [Next]_vars, ~ UNCHANGED vars,
                      NEW d \in Child, os[d] = "worker", os'[d] = "released"
               PROVE  proc'[d] = "reaped" \/ d \in Panicky
    OBVIOUS
  <2> USE DEF TypeOK, JobInv
  <2>1. ASSUME NEW c \in Child, ChildStep(c) \/ DropStep(c)
        PROVE  FALSE
    <3>1. os[c] # "worker" \/ UNCHANGED os
      BY <2>1 DEF ChildStep, DropStep, Whereabouts, Goto, poolVars, workVars, dropVars,
         Exit, UserWait, OrphanReap, DropDetached, DropSignalTree, DropAlreadyReaped,
         DropKillRoot, DropKillRefused, CellHit, CellMiss, LockInit, RecheckHit,
         RecheckMiss, SpawnWorker, Publish, Abandon, Joined, Decide, Dispatch, ReleaseJob
    <3>2. os'[d] = "released" => UNCHANGED os \/ os' = [os EXCEPT ![c] = "released"]
                                \/ os' = [os EXCEPT ![c] = "queue"]
      BY <2>1 DEF ChildStep, DropStep, Released, poolVars, workVars, dropVars,
         Exit, UserWait, OrphanReap, DropDetached, DropSignalTree, DropAlreadyReaped,
         DropKillRoot, DropKillRefused, CellHit, CellMiss, LockInit, RecheckHit,
         RecheckMiss, SpawnWorker, Publish, Abandon, Joined, Decide, Dispatch, ReleaseJob
    <3> QED
      BY <3>1, <3>2
  <2>2. ASSUME NEW w \in Worker, Receive(w) \/ Disconnect(w) \/ WaitReturns(w) \/ WaitPanics(w)
        PROVE  FALSE
    BY <2>2 DEF Receive, Disconnect, WaitReturns, WaitPanics
  <2>3. ASSUME NEW w \in Worker, FreeJob(w)
        PROVE  proc'[d] = "reaped" \/ d \in Panicky
    <3>1. job[w] = d
      BY <2>3 DEF FreeJob, Released
    <3> QED
      BY <2>3, <3>1 DEF FreeJob, Released, ExitSeen
  <2> QED
    BY <2>1, <2>2, <2>3 DEF Next, WorkStep
<1> QED
  BY <1>1, TypeCorrect, JobInvHolds, ExitSeenHolds, PTL DEF Spec, ReapBeforeRelease

-----------------------------------------------------------------------------
(* The refinement of ReapService: each step of the drops and the workers   *)
(* is one step of the service or leaves it where it was.                   *)

(* Jobs are sent only on a published channel.                              *)
SendsArePublished == \A c \in Child : pc[c] = "send" => cell # NoOne

(* The children a worker has in hand.                                      *)
Served == {c \in Child : os[c] = "worker"}

-----------------------------------------------------------------------------
(* The cell is written before the first send, and never cleared.           *)
LEMMA SendsArePublishedHolds == Spec => []SendsArePublished
<1>1. Init => SendsArePublished
  BY DEF Init, SendsArePublished
<1>2. TypeOK /\ SendsArePublished /\ [Next]_vars => SendsArePublished'
  <2> SUFFICES ASSUME TypeOK, SendsArePublished, [Next]_vars
               PROVE  SendsArePublished'
    OBVIOUS
  <2> USE PoolAssumption DEF TypeOK, SendsArePublished, Goto, dropVars, poolVars
  <2>1. ASSUME NEW c \in Child, ChildStep(c)
        PROVE  SendsArePublished'
    BY <2>1 DEF ChildStep, Exit, UserWait, OrphanReap, DropDetached, DropSignalTree
  <2>2. ASSUME NEW c \in Child, DropStep(c)
        PROVE  SendsArePublished'
    BY <2>2 DEF DropStep, DropAlreadyReaped, DropKillRoot, DropKillRefused, CellHit,
       CellMiss, LockInit, RecheckHit, RecheckMiss, SpawnWorker, Publish, Abandon, Joined,
       Decide, Dispatch, ReleaseJob
  <2>3. ASSUME NEW w \in Worker, WorkStep(w)
        PROVE  SendsArePublished'
    BY <2>3 DEF WorkStep, Receive, Disconnect, WaitReturns, WaitPanics, FreeJob
  <2>4. CASE UNCHANGED vars
    BY <2>4 DEF vars
  <2> QED
    BY <2>1, <2>2, <2>3, <2>4 DEF Next
<1> QED
  BY <1>1, <1>2, TypeCorrect, PTL DEF Spec

(* While a worker is idle, fewer children are served than the pool is      *)
(* wide: each has a worker of the published attempt to itself.             *)
LEMMA ServedBelowBound ==
  ASSUME TypeOK, PoolInv, JobInv, NEW w \in Worker, worker[w] = "recv", w[1] = cell
  PROVE  Cardinality(Served) < Bound
<1> USE PoolAssumption DEF TypeOK, PoolInv, JobInv
<1> DEFINE Busy == Slot \ {w[2]}
           Seat(c) == CHOOSE i \in Busy : job[<<cell, i>>] = c
           f == [c \in Served |-> Seat(c)]
<1>1. ASSUME NEW c \in Served
      PROVE  \E i \in Busy : job[<<cell, i>>] = c
  <2>1. PICK v \in Worker : job[v] = c
    BY DEF Served, JobsAccountedFor
  <2>2. c # NoOne /\ worker[v] \in {"wait", "free"}
    BY <2>1 DEF Served, JobInHand
  <2>3. PICK d \in Child, i \in Slot : v = <<d, i>>
    BY DEF Worker
  <2>4. d = cell
    BY <2>2, <2>3 DEF WorkersOfAttempt
  <2>5. w = <<w[1], w[2]>>
    BY DEF Worker
  <2>6. i # w[2]
    BY <2>2, <2>3, <2>4, <2>5
  <2> QED
    BY <2>1, <2>3, <2>4, <2>6
<1>2. \A c \in Served : Seat(c) \in Busy /\ job[<<cell, Seat(c)>>] = c
  BY <1>1
<1> HIDE DEF Seat, Busy
<1>3. f \in [Served -> Busy] /\ \A c, d \in Served : f[c] = f[d] => c = d
  BY <1>2
<1> HIDE DEF f
<1>4. f \in Injection(Served, Busy)
  BY <1>3, Fun_IsInj
<1>5. IsFiniteSet(Slot) /\ Cardinality(Slot) = Bound
  <2>1. 1 \in Int /\ Bound \in Int /\ ~ (1 > Bound) /\ Bound - 1 + 1 = Bound
    OBVIOUS
  <2>2. IsFiniteSet(1 .. Bound) /\ Cardinality(1 .. Bound) = Bound - 1 + 1
    BY <2>1, FS_Interval
  <2> QED
    BY <2>1, <2>2 DEF Slot
<1>6. w[2] \in Slot
  BY DEF Worker
<1>7. IsFiniteSet(Busy) /\ Cardinality(Busy) = Bound - 1
  <2>1. /\ IsFiniteSet(Slot \ {w[2]})
        /\ Cardinality(Slot \ {w[2]})
             = IF w[2] \in Slot THEN Cardinality(Slot) - 1 ELSE Cardinality(Slot)
    BY <1>5, FS_RemoveElement, Zenon
  <2> QED
    BY <1>5, <1>6, <2>1 DEF Busy
<1>8. IsFiniteSet(Served) /\ Cardinality(Served) <= Cardinality(Busy)
  BY <1>4, <1>7, FS_Injection, Zenon
<1>9. Cardinality(Served) \in Nat
  BY <1>8, FS_CardinalityType
<1> QED
  BY <1>7, <1>8, <1>9

-----------------------------------------------------------------------------
(* The service's view of the pool, before and after a step.                *)
LEMMA ServiceStutters ==
  ASSUME UNCHANGED <<cell, os, queue>>
  PROVE  UNCHANGED Service!vars
BY DEF Service!vars

(* A child its own thread releases was never handed to the service.        *)
LEMMA ServiceSettlesLocally ==
  ASSUME TypeOK, JobInv, NEW c \in Child, os[c] = "handle",
         os' = [os EXCEPT ![c] = "released"], UNCHANGED <<cell, queue>>
  PROVE  Service!SettleLocally(c)
<1>1. c \notin {d \in Child : os[d] = "released"} \cup Service!InService
  <2>1. \A i \in DOMAIN queue : queue[i] # c
    BY DEF TypeOK, JobInv, JobsAccountedFor
  <2> QED
    BY <2>1 DEF Service!InService
<1>2. /\ {d \in Child : os'[d] = "released"} = {d \in Child : os[d] = "released"} \cup {c}
      /\ {d \in Child : os'[d] = "worker"} = {d \in Child : os[d] = "worker"}
  BY DEF TypeOK
<1> QED
  BY <1>1, <1>2 DEF Service!SettleLocally

(* The reaper pool implements the first-in first-out service of bounded    *)
(* concurrency: jobs are served in the order they were handed over, at     *)
(* most Bound at a time, and each is settled once, by one thread.          *)
THEOREM PoolImplementsService == Spec => ImplementsService
<1>1. Init => Service!Init
  BY DEF Init, Service!Init
<1>2. TypeOK /\ PoolInv /\ JobInv /\ SendsArePublished /\ [Next]_vars
        => [Service!Next]_(Service!vars)
  <2> SUFFICES ASSUME TypeOK, PoolInv, JobInv, SendsArePublished, [Next]_vars
               PROVE  Service!Next \/ UNCHANGED Service!vars
    OBVIOUS
  <2>1. ASSUME NEW c \in Child,
               \/ Exit(c) \/ UserWait(c) \/ OrphanReap(c) \/ DropSignalTree(c)
               \/ DropKillRoot(c) \/ CellHit(c) \/ CellMiss(c) \/ LockInit(c)
               \/ RecheckHit(c) \/ RecheckMiss(c) \/ SpawnWorker(c) \/ Abandon(c)
               \/ Joined(c) \/ Decide(c)
        PROVE  UNCHANGED Service!vars
    <3>1. UNCHANGED <<cell, os, queue>>
      BY <2>1 DEF poolVars, Exit, UserWait, OrphanReap, DropSignalTree, DropKillRoot,
         CellHit, CellMiss, LockInit, RecheckHit, RecheckMiss, SpawnWorker, Abandon,
         Joined, Decide
    <3> QED
      BY <3>1, ServiceStutters
  <2>2. ASSUME NEW c \in Child,
               DropDetached(c) \/ DropAlreadyReaped(c) \/ DropKillRefused(c) \/ ReleaseJob(c)
        PROVE  Service!SettleLocally(c)
    <3>1. /\ os[c] = "handle"
          /\ os' = [os EXCEPT ![c] = "released"]
          /\ UNCHANGED <<cell, queue>>
      BY <2>2 DEF DropDetached, DropAlreadyReaped, DropKillRefused, ReleaseJob, Goto,
         Released, poolVars, JobInv, Whereabouts
    <3> QED
      BY <3>1, ServiceSettlesLocally
  <2>3. ASSUME NEW c \in Child, Publish(c)
        PROVE  Service!Open
    <3>1. cell = NoOne /\ cell' # NoOne /\ UNCHANGED <<os, queue>>
      BY <2>3, PoolAssumption DEF Publish, Goto, PoolInv, AttemptOpen
    <3> QED
      BY <3>1 DEF Service!Open
  <2>4. ASSUME NEW c \in Child, Dispatch(c)
        PROVE  Service!HandOver(c)
    <3>1. /\ cell # NoOne /\ os[c] = "handle"
          /\ os' = [os EXCEPT ![c] = "queue"]
          /\ queue' = Append(queue, c)
          /\ UNCHANGED cell
      BY <2>4 DEF Dispatch, Goto, poolVars, SendsArePublished, JobInv, Whereabouts
    <3>2. c \notin {d \in Child : os[d] = "released"} \cup Service!InService
      BY <3>1 DEF TypeOK, JobInv, JobsAccountedFor, Service!InService
    <3>3. /\ {d \in Child : os'[d] = "worker"} = {d \in Child : os[d] = "worker"}
          /\ {d \in Child : os'[d] = "released"} = {d \in Child : os[d] = "released"}
      BY <3>1 DEF TypeOK
    <3> QED
      BY <3>1, <3>2, <3>3 DEF Service!HandOver
  <2>5. ASSUME NEW w \in Worker, Receive(w)
        PROVE  Service!Serve
    <3>1. /\ worker[w] = "recv" /\ w[1] = cell /\ queue # <<>>
          /\ os' = [os EXCEPT ![Head(queue)] = "worker"]
          /\ queue' = Tail(queue)
          /\ UNCHANGED cell
      BY <2>5 DEF Receive, poolVars
    <3>2. Cardinality(Served) < Bound
      BY <3>1, ServedBelowBound
    <3>3. Head(queue) \in Child /\ os[Head(queue)] = "queue"
      <4>1. 1 \in DOMAIN queue /\ Head(queue) = queue[1] /\ Head(queue) \in Child
        BY <3>1 DEF TypeOK
      <4> QED
        BY <4>1 DEF JobInv, JobsAccountedFor
    <3>4. /\ {d \in Child : os'[d] = "worker"} = Served \cup {Head(queue)}
          /\ {d \in Child : os'[d] = "released"} = {d \in Child : os[d] = "released"}
      BY <3>1, <3>3 DEF TypeOK, Served
    <3>5. Service!Cardinality(Served) = Cardinality(Served)
      BY DEF Service!Cardinality, Cardinality
    <3> QED
      BY <3>1, <3>2, <3>4, <3>5 DEF Service!Serve, Served
  <2>6. ASSUME NEW w \in Worker, FreeJob(w)
        PROVE  \E c \in Child : Service!Settle(c)
    <3>1. job[w] \in Child /\ os[job[w]] = "worker"
      BY <2>6 DEF FreeJob, TypeOK, JobInv, JobInHand, JobsAccountedFor
    <3>2. os' = [os EXCEPT ![job[w]] = "released"] /\ UNCHANGED <<cell, queue>>
      BY <2>6 DEF FreeJob, Released, poolVars
    <3>3. /\ {d \in Child : os'[d] = "worker"} = {d \in Child : os[d] = "worker"} \ {job[w]}
          /\ {d \in Child : os'[d] = "released"}
               = {d \in Child : os[d] = "released"} \cup {job[w]}
      BY <3>1, <3>2 DEF TypeOK
    <3>4. Service!Settle(job[w])
      BY <3>1, <3>2, <3>3 DEF Service!Settle
    <3> QED
      BY <3>1, <3>4 DEF Service!Settle
  <2>7. ASSUME NEW w \in Worker, Disconnect(w) \/ WaitReturns(w) \/ WaitPanics(w)
        PROVE  UNCHANGED Service!vars
    <3>1. UNCHANGED <<cell, os, queue>>
      BY <2>7 DEF Disconnect, WaitReturns, WaitPanics, poolVars
    <3> QED
      BY <3>1, ServiceStutters
  <2>8. CASE UNCHANGED vars
    BY <2>8, ServiceStutters DEF vars
  <2> QED
    BY <2>1, <2>2, <2>3, <2>4, <2>5, <2>6, <2>7, <2>8
       DEF Next, ChildStep, DropStep, WorkStep, Service!Next
<1> QED
  BY <1>1, <1>2, TypeCorrect, PoolInvHolds, JobInvHolds, SendsArePublishedHolds, PTL
     DEF Spec, ImplementsService, Service!Spec
=============================================================================
