-------------------------- MODULE TreeWalk_proofs --------------------------
(***************************************************************************)
(* The walk is complete, follows no stranger where it claims not to, and   *)
(* what it found is killed: for any host and any number of pids.           *)
(***************************************************************************)
EXTENDS TreeWalk, ProcessTable_proofs, FiniteSetTheorems

Pids(ids) == {id[1] : id \in ids}
Snapped == {e[1] : e \in snap}

-----------------------------------------------------------------------------
(* The inductive invariant.                                                *)

(* Where the walk stands, and whom it found.                               *)
Shape == /\ pc = "idle" => /\ snap = {} /\ found = {} /\ frontier = {} /\ next = {}
         /\ pc # "rest" => aim = NoAim
         /\ pc # "walk" => frontier = {}
         /\ HandleKill => aim = NoAim
         /\ \A id \in found \cup todo \cup {RootId} : Past(id)
         /\ aim # NoAim => Past(aim)
         /\ pc # "rest" => todo = {}
         /\ Pids(found) \subseteq Snapped
         /\ frontier \cup next \subseteq {Root} \cup Snapped
         /\ todo \cup ({aim} \ {NoAim}) \subseteq found \cup {RootId}

(* An edge that was visited is decided, and one that was not hangs under   *)
(* nobody who was accepted, or under whose children are still to come.     *)
Accepted == {Root} \cup Pids(found)

LayersFit == /\ pc # "idle" => \A e \in snap \ pending : e[1] \in Pids(found) \cup pruned
             /\ pc # "idle" => \A e \in pending : e[2] \in Accepted => e[2] \in frontier \cup next
             /\ frontier = {} => next = {}

(* Whoever has had its turn does not run, or is aimed at.                  *)
Settled == pc \in {"rest", "done"} =>
  \A id \in (found \cup {RootId}) \ todo : Running(id) => id \in spared \/ id = aim

(* While the root is not collected its pid is its own.                     *)
RootStays == ~ RootReaped => Listed(Root) /\ token[Root] = RootToken

(* The links of the snapshot, for as long as no listed pid is recycled.    *)
SnapIsTrue == ~ MidWalkReuse =>
  \A e \in snap :
    /\ Reparents /\ e[2] # InitPid
         => e[2] \in Snapped /\ (Current(e[2]) \in genuine => Current(e[1]) \in genuine)
    /\ ~ RootReaped /\ e[2] = Root
         => Current(e[1]) \in genuine \/ token[e[1]] < RootToken

(* The root's own children, by the tokens of what holds their pids.        *)
RootLinks == ~ RootReaped =>
  \A p \in Pid : Listed(p) /\ ppid[p] = Root => Current(p) \in genuine \/ token[p] < RootToken

(* Where it claims to, the walk accepts members of the tree only.          *)
Followed == Reparents /\ ~ MidWalkReuse /\ ~ RootReaped =>
  /\ found \subseteq genuine
  /\ \A p \in frontier \cup next : Current(p) \in genuine

RootLayer == ~ MidWalkReuse /\ ~ RootReaped =>
  \A id \in found : <<id[1], Root>> \in snap => id \in genuine

WalkInv == /\ Shape /\ LayersFit /\ Settled /\ HandleHitsItsTarget
           /\ LinksAreTrue /\ RootStays /\ RootLinks /\ SnapIsTrue /\ Followed /\ RootLayer

-----------------------------------------------------------------------------
(* The kinds of the walk's variables.                                      *)
WalkKinds == /\ pc \in {"idle", "walk", "root", "rest", "done"}
             /\ snap \subseteq Edge /\ pending \subseteq snap
             /\ frontier \subseteq Pid /\ next \subseteq Pid /\ pruned \subseteq Pid
             /\ found \subseteq ProcessId /\ todo \subseteq ProcessId
             /\ signalled \cup spared \subseteq ProcessId /\ aim \in ProcessId \cup {NoAim}

LEMMA KindsAreTypes == /\ TypeOK <=> TableTypeOK /\ WalkKinds
                       /\ TypeOK' <=> TableTypeOK' /\ WalkKinds'
<1>1. TypeOK <=> TableTypeOK /\ WalkKinds
  BY DEF TypeOK, WalkKinds
<1>2. TypeOK' <=> TableTypeOK' /\ WalkKinds'
  BY DEF TypeOK, WalkKinds
<1> QED
  BY <1>1, <1>2

LEMMA RootIsThere == TableTypeOK => Root \in Pid /\ RootId \in ProcessId /\ NoAim \notin ProcessId
BY SettingFacts, TableAssumption DEF TableTypeOK, RootId, ProcessId, NoAim

LEMMA CurrentIsId == ASSUME TableTypeOK, NEW p \in Pid PROVE Current(p) \in ProcessId /\ Past(Current(p))
BY SettingFacts DEF TableTypeOK, Current, ProcessId, Past

(* A host's move is a move of the table, which leaves the call alone.      *)
WalkMove(p, q) == \/ Fork(p, q) /\ (q \in Snapped => MidWalkReuse)
                  \/ Exit(p)
                  \/ Collect(p) /\ (p = Root => RootReaped /\ pc = "idle")

LEMMA HostMoves ==
  ASSUME Host
  PROVE  /\ \E p, q \in Pid : WalkMove(p, q) /\ TableMove(p, q)
         /\ UNCHANGED <<pc, walkVars, killVars>>
<1>1. PICK p \in Pid : (\E q \in Pid : HostFork(p, q)) \/ Exit(p) \/ HostCollect(p)
  BY DEF Host
<1>2. CASE \E q \in Pid : HostFork(p, q)
  <2>1. PICK q \in Pid : HostFork(p, q)
    BY <1>2
  <2>2. WalkMove(p, q) /\ TableMove(p, q)
    BY <2>1 DEF HostFork, WalkMove, TableMove, Snapped
  <2> QED
    BY <2>2 DEF Host
<1>3. CASE Exit(p) \/ HostCollect(p)
  <2>1. WalkMove(p, p) /\ TableMove(p, p)
    BY <1>3 DEF HostCollect, WalkMove, TableMove
  <2> QED
    BY <2>1 DEF Host
<1> QED
  BY <1>1, <1>2, <1>3

(* What no kill undoes: who is listed, who is alive, who does not run.     *)
Doomed == \A p \in Pid : /\ Listed(p)' <=> Listed(p)
                         /\ state'[p] = "live" => state[p] = "live"
                         /\ state'[p] \in {"live", "doomed"} <=> state[p] \in {"live", "doomed"}

(* An attempt dooms whom it reaches, or is noted, and touches nothing else.*)
LEMMA DeliverEffect ==
  ASSUME TableTypeOK, NEW id \in ProcessId, Deliver(id)
  PROVE  /\ TableTypeOK' /\ UNCHANGED <<setting, token, ppid, now, genuine>> /\ Doomed
         /\ state'[id[1]] # "live" \/ id \in spared'
         /\ signalled' \subseteq signalled \cup {Current(id[1])}
         /\ signalled' \subseteq signalled \cup ProcessId
         /\ spared \subseteq spared' /\ spared' \subseteq spared \cup {id}
<1>0. id[1] \in Pid
  BY DEF ProcessId
<1>1. CASE Refused(id)
  BY <1>1 DEF Refused, Doomed, tableVars, TableTypeOK, Listed, Token, MaxToken, ProcessId
<1>2. CASE Delivered(id)
  <2>1. state' = [state EXCEPT ![id[1]] = IF @ = "live" THEN "doomed" ELSE @]
    BY <1>2 DEF Delivered, AfterKill
  <2>2. UNCHANGED <<setting, token, ppid, now, genuine, spared>>
    BY <1>2 DEF Delivered
  <2>3. TableTypeOK'
    BY <1>0, <2>1, <2>2 DEF TableTypeOK, State, Token, MaxToken, ProcessId
  <2>4. signalled' \subseteq signalled \cup {Current(id[1])}
    BY <1>2 DEF Delivered
  <2>5. Current(id[1]) \in ProcessId
    BY <1>0, CurrentIsId
  <2>6. Doomed
    BY <1>0, <2>1 DEF TableTypeOK, Listed, Doomed
  <2>7. state'[id[1]] # "live"
    BY <1>0, <2>1 DEF TableTypeOK
  <2> QED
    BY <2>2, <2>3, <2>4, <2>5, <2>6, <2>7
<1> QED
  BY <1>1, <1>2 DEF Deliver

(* The kill of one identity, whichever way the host does it.               *)
Killing(id) == KillAtOnce(id) \/ TakeAim(id)

(* An identity whose kill was attempted runs on only if it is noted or the *)
(* shot is still to come.                                                  *)
LEMMA KillEffect ==
  ASSUME TableTypeOK, aim = NoAim, NEW id \in ProcessId, Killing(id)
  PROVE  /\ TableTypeOK' /\ UNCHANGED <<setting, token, ppid, now, genuine>> /\ Doomed
         /\ aim' \in {NoAim, id} /\ (HandleKill => aim' = NoAim)
         /\ Running(id)' => id \in spared' \/ id = aim'
         /\ HandleKill => signalled' \subseteq signalled \cup {id}
         /\ signalled' \subseteq signalled \cup ProcessId
         /\ spared \subseteq spared' /\ spared' \subseteq spared \cup {id}
<1>1. CASE KillAtOnce(id) /\ Same(id) /\ Deliver(id)
  <2>1. aim' = NoAim /\ Current(id[1]) = id
    BY <1>1 DEF KillAtOnce, Same, Exists
  <2>2. Running(id)' => id \in spared'
    BY <1>1, DeliverEffect DEF Running
  <2> QED
    BY <1>1, <2>1, <2>2, DeliverEffect
<1>2. CASE Skip(id) /\ UNCHANGED aim
  <2>1. UNCHANGED <<tableVars, signalled>>
    BY <1>2 DEF Skip
  <2>2. Running(id)' => id \in spared'
    BY <1>2 DEF Skip, Same, Running, Exists, Current, Listed, tableVars
  <2>3. spared \subseteq spared' /\ spared' \subseteq spared \cup {id}
    BY <1>2 DEF Skip
  <2> QED
    BY <1>2, <2>1, <2>2, <2>3 DEF tableVars, TableTypeOK, Listed, Token, MaxToken, ProcessId, Doomed
<1>3. CASE ~ HandleKill /\ aim' = id /\ UNCHANGED <<tableVars, signalled, spared>>
  BY <1>3 DEF tableVars, TableTypeOK, Listed, Token, MaxToken, ProcessId, Doomed
<1> QED
  BY <1>1, <1>2, <1>3 DEF Killing, KillAtOnce, TakeAim

-----------------------------------------------------------------------------
(* The kinds are kept by every step.                                       *)
LEMMA StepKinds ==
  ASSUME TypeOK, Shape, Next
  PROVE  TypeOK'
<1>0. TableTypeOK /\ WalkKinds
  BY KindsAreTypes
<1> SUFFICES TableTypeOK' /\ WalkKinds'
  BY KindsAreTypes
<1> USE <1>0
<1>a. ASSUME UNCHANGED <<setting, token, ppid, now, genuine>> \/ UNCHANGED tableVars
      PROVE  Token' = Token /\ ProcessId' = ProcessId
  BY <1>a DEF Token, MaxToken, ProcessId, tableVars
<1>b. ASSUME UNCHANGED tableVars
      PROVE  TableTypeOK'
  BY <1>a, <1>b DEF TableTypeOK, tableVars
<1>1. CASE Host
  <2>1. PICK p \in Pid, q \in Pid : TableMove(p, q)
    BY <1>1, HostMoves
  <2>2. TableTypeOK' /\ setting' = setting
    BY <2>1, MoveTypes
  <2>3. ProcessId' = ProcessId
    BY <2>2 DEF ProcessId, Token, MaxToken
  <2> QED
    BY <1>1, <2>2, <2>3, HostMoves DEF WalkKinds, walkVars, killVars
<1>2. CASE Snapshot
  <2>1. snap' \subseteq Edge
    BY <1>2 DEF Snapshot, ProcessParents, Edge, TableTypeOK
  <2> QED
    BY <1>2, <1>a, <1>b, <2>1, RootIsThere DEF Snapshot, WalkKinds, killVars
<1>3. ASSUME NEW e \in pending, Visit(e)
      PROVE  TableTypeOK' /\ WalkKinds'
  <2>1. e[1] \in Pid /\ Current(e[1]) \in ProcessId
    BY CurrentIsId DEF WalkKinds, Edge
  <2> QED
    BY <1>3, <1>a, <1>b, <2>1 DEF Visit, WalkKinds, killVars
<1>4. CASE NextLayer \/ WalkEnds \/ Return
  BY <1>4, <1>a, <1>b DEF NextLayer, WalkEnds, Return, WalkKinds, walkVars, killVars
<1>5. CASE KillRoot
  <2>1. Killing(RootId) /\ aim = NoAim /\ RootId \in ProcessId
    BY <1>5, RootIsThere DEF KillRoot, Killing, Shape
  <2>2. TableTypeOK' /\ ProcessId' = ProcessId
    BY <2>1, <1>a, KillEffect
  <2>3. /\ aim' \in {NoAim, RootId} /\ signalled' \subseteq signalled \cup ProcessId
        /\ spared' \subseteq spared \cup {RootId}
    BY <2>1, KillEffect
  <2> QED
    BY <1>5, <2>1, <2>2, <2>3 DEF KillRoot, WalkKinds, walkVars
<1>6. CASE KillNext
  <2>1. PICK id \in todo : todo' = todo \ {id} /\ Killing(id)
    BY <1>6 DEF KillNext, Killing
  <2>2. id \in ProcessId /\ aim = NoAim
    BY <1>6 DEF KillNext, WalkKinds
  <2>3. TableTypeOK' /\ ProcessId' = ProcessId
    BY <2>1, <2>2, <1>a, KillEffect
  <2>4. /\ aim' \in {NoAim, id} /\ signalled' \subseteq signalled \cup ProcessId
        /\ spared' \subseteq spared \cup {id}
    BY <2>1, <2>2, KillEffect
  <2> QED
    BY <1>6, <2>1, <2>2, <2>3, <2>4 DEF KillNext, WalkKinds, walkVars
<1>7. CASE Shoot
  <2>1. aim \in ProcessId /\ Deliver(aim) /\ aim' = NoAim
    BY <1>7 DEF Shoot, WalkKinds
  <2>2. /\ TableTypeOK' /\ ProcessId' = ProcessId
        /\ signalled' \subseteq signalled \cup ProcessId /\ spared' \subseteq spared \cup ProcessId
    BY <2>1, <1>a, DeliverEffect
  <2> QED
    BY <1>7, <2>1, <2>2 DEF Shoot, WalkKinds, walkVars
<1> QED
  BY <1>1, <1>2, <1>3, <1>4, <1>5, <1>6, <1>7 DEF Next, Step

-----------------------------------------------------------------------------
(* What a step of the call does to the table: nothing but doom.            *)
OnlyDooms == UNCHANGED <<setting, token, ppid, now, genuine>> /\ Doomed

LEMMA CallOnlyDooms ==
  ASSUME TypeOK, Shape, Step
  PROVE  OnlyDooms
<1>0. TableTypeOK /\ WalkKinds /\ RootId \in ProcessId
  BY KindsAreTypes, RootIsThere
<1>1. CASE Snapshot \/ NextLayer \/ WalkEnds \/ Return
  BY <1>1 DEF Snapshot, NextLayer, WalkEnds, Return, OnlyDooms, Doomed, tableVars, Listed
<1>2. ASSUME NEW e \in pending, Visit(e)
      PROVE  OnlyDooms
  BY <1>2 DEF Visit, OnlyDooms, Doomed, tableVars, Listed
<1>3. CASE KillRoot
  <2>1. Killing(RootId) /\ aim = NoAim
    BY <1>3 DEF KillRoot, Killing, Shape
  <2> QED
    BY <1>0, <2>1, KillEffect DEF OnlyDooms, Doomed
<1>4. CASE KillNext
  <2>1. PICK id \in todo : Killing(id)
    BY <1>4 DEF KillNext, Killing
  <2>2. id \in ProcessId /\ aim = NoAim
    BY <1>0, <1>4 DEF KillNext, WalkKinds
  <2> QED
    BY <1>0, <2>1, <2>2, KillEffect DEF OnlyDooms, Doomed
<1>5. CASE Shoot
  <2>1. aim \in ProcessId /\ Deliver(aim)
    BY <1>0, <1>5 DEF Shoot, WalkKinds
  <2> QED
    BY <1>0, <2>1, DeliverEffect DEF OnlyDooms, Doomed
<1> QED
  BY <1>1, <1>2, <1>3, <1>4, <1>5 DEF Step

(* What every step keeps of an identity: it stays in the past, and does    *)
(* not come to run.                                                        *)
LEMMA StepKeepsPast ==
  ASSUME TypeOK, Shape, Next, NEW id \in ProcessId, Past(id)
  PROVE  Past(id)' /\ (Running(id)' => Running(id)) /\ setting' = setting
<1>0. TableTypeOK
  BY KindsAreTypes
<1>1. CASE Host
  <2>1. PICK p \in Pid, q \in Pid : TableMove(p, q)
    BY <1>1, HostMoves
  <2> QED
    BY <1>0, <2>1, IdentitiesDoNotReturn, MoveTypes
<1>2. CASE Step
  <2>1. OnlyDooms
    BY <1>2, CallOnlyDooms
  <2>2. id[1] \in Pid
    BY DEF ProcessId
  <2> QED
    BY <2>1, <2>2 DEF OnlyDooms, Doomed, Past, Running, Exists, Current
<1> QED
  BY <1>1, <1>2 DEF Next

-----------------------------------------------------------------------------
(* Where the walk stands.                                                  *)
LEMMA KeepsShape ==
  ASSUME TypeOK, Shape, Next
  PROVE  Shape'
<1>0. TableTypeOK /\ WalkKinds /\ RootId \in ProcessId /\ NoAim \notin ProcessId
  BY KindsAreTypes, RootIsThere
<1>a. setting' = setting /\ \A id \in ProcessId : Past(id) => Past(id)'
  <2>1. Past(RootId)
    BY DEF Shape
  <2> QED
    BY <1>0, <2>1, StepKeepsPast
<1>b. \A id \in found \cup todo \cup {RootId} : Past(id)'
  BY <1>0, <1>a DEF Shape, WalkKinds
<1>c. \A id \in ProcessId : id = aim => Past(id)'
  BY <1>0, <1>a DEF Shape, WalkKinds
<1>1. CASE Host
  BY <1>1, <1>a, <1>b, <1>c, HostMoves DEF Shape, walkVars, killVars, HandleKill, Snapped, Pids
<1>2. CASE Snapshot
  BY <1>2, <1>a, <1>b, <1>c DEF Snapshot, Shape, killVars, HandleKill, Snapped, Pids
<1>3. ASSUME NEW e \in pending, Visit(e)
      PROVE  Shape'
  <2>1. e[1] \in Snapped /\ e[1] \in Pid
    BY <1>0 DEF WalkKinds, Snapped, Edge
  <2>2. PICK id \in ProcessId : id = Current(e[1]) /\ id[1] = e[1] /\ Past(id)'
    BY <1>0, <1>a, <2>1, CurrentIsId DEF Current
  <2>3. UNCHANGED <<pc, snap, frontier, todo, aim>> /\ pc = "walk"
    BY <1>3 DEF Visit, killVars
  <2>4. /\ found' \subseteq found \cup {id} /\ found \subseteq found'
        /\ next' \subseteq next \cup {e[1]}
    BY <1>3, <2>2 DEF Visit
  <2>5. \A i \in found' \cup todo' \cup {RootId} : Past(i)'
    BY <1>b, <2>2, <2>3, <2>4
  <2>6. Pids(found') \subseteq Snapped
    BY <2>1, <2>2, <2>4 DEF Pids, Shape
  <2> QED
    BY <1>a, <1>c, <2>1, <2>3, <2>4, <2>5, <2>6 DEF Shape, HandleKill, Snapped, Pids
<1>4. CASE NextLayer \/ WalkEnds \/ Return
  BY <1>4, <1>a, <1>b, <1>c DEF NextLayer, WalkEnds, Return, Shape, walkVars, killVars, HandleKill,
                               Snapped, Pids
<1>5. CASE KillRoot
  <2>1. Killing(RootId) /\ aim = NoAim /\ pc' = "rest" /\ todo' = found /\ UNCHANGED walkVars
    BY <1>5 DEF KillRoot, Killing, Shape
  <2>2. aim' \in {NoAim, RootId} /\ (HandleKill => aim' = NoAim)
    BY <1>0, <2>1, KillEffect
  <2> QED
    BY <1>5, <1>a, <1>b, <2>1, <2>2 DEF KillRoot, Shape, walkVars, HandleKill, Snapped, Pids
<1>6. CASE KillNext
  <2>1. PICK id \in todo : todo' = todo \ {id} /\ Killing(id)
    BY <1>6 DEF KillNext, Killing
  <2>2. id \in ProcessId /\ aim = NoAim /\ UNCHANGED <<pc, walkVars>> /\ pc = "rest"
    BY <1>0, <1>6 DEF KillNext, WalkKinds
  <2>3. aim' \in {NoAim, id} /\ (HandleKill => aim' = NoAim)
    BY <1>0, <2>1, <2>2, KillEffect
  <2> QED
    BY <1>a, <1>b, <2>1, <2>2, <2>3 DEF Shape, walkVars, HandleKill, Snapped, Pids
<1>7. CASE Shoot
  BY <1>7, <1>a, <1>b DEF Shoot, Shape, walkVars, HandleKill, Snapped, Pids
<1> QED
  BY <1>1, <1>2, <1>3, <1>4, <1>5, <1>6, <1>7 DEF Next, Step

(* Every edge is decided, or still to be visited in its turn.              *)
LEMMA KeepsLayers ==
  ASSUME TypeOK, Shape, LayersFit, Next
  PROVE  LayersFit'
<1>0. TableTypeOK /\ WalkKinds
  BY KindsAreTypes
<1> USE DEF LayersFit, Accepted, Pids
<1>1. CASE Host
  BY <1>1, HostMoves DEF walkVars
<1>2. CASE Snapshot
  BY <1>2 DEF Snapshot, Shape
<1>3. ASSUME NEW e \in pending, Visit(e)
      PROVE  LayersFit'
  <2>1. Current(e[1])[1] = e[1]
    BY DEF Current
  <2>2. /\ pc = "walk" /\ UNCHANGED <<pc, snap, frontier>> /\ frontier # {}
        /\ pending' = pending \ {e} /\ found \subseteq found' /\ pruned \subseteq pruned'
        /\ next \subseteq next'
    BY <1>3 DEF Visit, Candidate
  <2>3. \/ found' = found \cup {Current(e[1])} /\ next' = next \cup {e[1]}
        \/ found' = found /\ next' = next /\ e[1] \in pruned'
    BY <1>3 DEF Visit
  <2>4. e[1] \in Pids(found') \cup pruned'
    BY <2>1, <2>3
  <2>5. \A d \in snap' \ pending' : d[1] \in Pids(found') \cup pruned'
    BY <2>2, <2>4
  <2>6. \A d \in pending' : d[2] \in {Root} \cup Pids(found') => d[2] \in frontier' \cup next'
    BY <2>1, <2>2, <2>3
  <2> QED
    BY <2>2, <2>5, <2>6
<1>4. CASE NextLayer
  BY <1>4 DEF NextLayer
<1>5. CASE WalkEnds \/ Return \/ Shoot
  BY <1>5 DEF WalkEnds, Return, Shoot, walkVars
<1>6. CASE KillRoot \/ KillNext
  BY <1>6 DEF KillRoot, KillNext, walkVars
<1> QED
  BY <1>1, <1>2, <1>3, <1>4, <1>5, <1>6 DEF Next, Step

(* Whoever was killed, found gone or refused its identity stays settled.   *)
LEMMA KeepsSettled ==
  ASSUME TypeOK, Shape, Settled, Next
  PROVE  Settled'
<1>0. TableTypeOK /\ WalkKinds /\ RootId \in ProcessId /\ NoAim \notin ProcessId
  BY KindsAreTypes, RootIsThere
<1>a. setting' = setting
  BY <1>0, StepKeepsPast DEF Shape
<1>b. \A id \in found \cup {RootId} : Running(id)' => Running(id)
  BY <1>0, StepKeepsPast DEF Shape, WalkKinds
<1>1. CASE Host
  BY <1>1, <1>a, <1>b, HostMoves DEF Settled, walkVars, killVars
<1>2. CASE Snapshot \/ NextLayer \/ WalkEnds \/ \E e \in pending : Visit(e)
  BY <1>2 DEF Snapshot, NextLayer, WalkEnds, Visit, Settled
<1>3. CASE KillRoot
  <2>1. Killing(RootId) /\ aim = NoAim /\ todo' = found /\ UNCHANGED walkVars
    BY <1>3 DEF KillRoot, Killing, Shape
  <2>2. Running(RootId)' => RootId \in spared' \/ RootId = aim'
    BY <1>0, <2>1, KillEffect
  <2> QED
    BY <1>a, <2>1, <2>2 DEF Settled, walkVars
<1>4. CASE KillNext
  <2>1. PICK id \in todo : todo' = todo \ {id} /\ Killing(id)
    BY <1>4 DEF KillNext, Killing
  <2>2. id \in ProcessId /\ aim = NoAim /\ UNCHANGED <<pc, walkVars>>
    BY <1>0, <1>4 DEF KillNext, WalkKinds
  <2>3. spared \subseteq spared' /\ (Running(id)' => id \in spared' \/ id = aim')
    BY <1>0, <2>1, <2>2, KillEffect
  <2>4. \A i \in found \cup {RootId} : i # NoAim
    BY <1>0 DEF WalkKinds
  <2> QED
    BY <1>a, <1>b, <2>1, <2>2, <2>3, <2>4 DEF Settled, walkVars
<1>5. CASE Shoot
  <2>1. aim \in ProcessId /\ Deliver(aim) /\ aim' = NoAim /\ UNCHANGED <<pc, walkVars, todo>>
    BY <1>0, <1>5 DEF Shoot, WalkKinds
  <2>2. PICK shot \in ProcessId : shot = aim
    BY <2>1
  <2>3. spared \subseteq spared' /\ (Running(shot)' => shot \in spared')
    BY <1>0, <2>1, <2>2, DeliverEffect DEF Running
  <2> QED
    BY <1>a, <1>b, <2>1, <2>2, <2>3 DEF Settled, walkVars
<1>6. CASE Return
  BY <1>6, <1>a, <1>b DEF Return, Settled, walkVars, killVars
<1> QED
  BY <1>1, <1>2, <1>3, <1>4, <1>5, <1>6 DEF Next, Step

-----------------------------------------------------------------------------
(* With a handle, only the verified identity is hit.                       *)
LEMMA KeepsHandle ==
  ASSUME TypeOK, Shape, HandleHitsItsTarget, Next
  PROVE  HandleHitsItsTarget'
<1>0. TableTypeOK /\ WalkKinds /\ RootId \in ProcessId
  BY KindsAreTypes, RootIsThere
<1>a. setting' = setting
  BY <1>0, StepKeepsPast DEF Shape
<1> USE DEF HandleHitsItsTarget, HandleKill
<1>1. CASE Host
  BY <1>1, <1>a, HostMoves DEF walkVars, killVars
<1>2. CASE Snapshot \/ NextLayer \/ WalkEnds \/ Return \/ \E e \in pending : Visit(e)
  BY <1>2, <1>a DEF Snapshot, NextLayer, WalkEnds, Return, Visit, killVars, walkVars
<1>3. CASE KillRoot
  <2>1. Killing(RootId) /\ aim = NoAim /\ UNCHANGED walkVars
    BY <1>3 DEF KillRoot, Killing, Shape
  <2>2. HandleKill => signalled' \subseteq signalled \cup {RootId}
    BY <1>0, <2>1, KillEffect
  <2> QED
    BY <1>a, <2>1, <2>2 DEF walkVars
<1>4. CASE KillNext
  <2>1. PICK id \in todo : Killing(id)
    BY <1>4 DEF KillNext, Killing
  <2>2. id \in ProcessId /\ aim = NoAim /\ UNCHANGED walkVars /\ id \in found \cup {RootId}
    BY <1>0, <1>4 DEF KillNext, WalkKinds, Shape
  <2>3. HandleKill => signalled' \subseteq signalled \cup {id}
    BY <1>0, <2>1, <2>2, KillEffect
  <2> QED
    BY <1>a, <2>2, <2>3 DEF walkVars
<1>5. CASE Shoot
  BY <1>5, <1>a DEF Shoot, Shape
<1> QED
  BY <1>1, <1>2, <1>3, <1>4, <1>5 DEF Next, Step

(* The table: true links, the root's own pid, and the root's own children. *)
LEMMA KeepsTable ==
  ASSUME TypeOK, Shape, LinksAreTrue, RootStays, RootLinks, Next, genuine \subseteq ProcessId,
         RootId \in genuine
  PROVE  /\ LinksAreTrue' /\ RootStays' /\ RootLinks' /\ RootId \in genuine'
         /\ genuine \subseteq genuine'
<1>0. TableTypeOK /\ Root \in Pid /\ RootId \in ProcessId
  BY KindsAreTypes, RootIsThere
<1>1. CASE Step
  <2>1. OnlyDooms
    BY <1>1, CallOnlyDooms
  <2>2. LinksAreTrue'
    BY <2>1 DEF OnlyDooms, Doomed, LinksAreTrue, Reparents, Current
  <2>3. RootStays' /\ RootLinks'
    BY <1>0, <2>1 DEF OnlyDooms, Doomed, RootStays, RootLinks, RootReaped, Current
  <2> QED
    BY <2>1, <2>2, <2>3 DEF OnlyDooms, Doomed
<1>2. CASE Host
  <2>1. PICK p \in Pid, q \in Pid : WalkMove(p, q) /\ TableMove(p, q)
    BY <1>2, HostMoves
  <2>2. LinksAreTrue' /\ setting' = setting
    BY <1>0, <2>1, MoveLinks, MoveTypes
  <2>3. CASE Fork(p, q)
    <3>1. PICK t \in Token :
            /\ t > token[q] /\ state[p] = "live" /\ state[q] = "free" /\ p # q
            /\ token' = [token EXCEPT ![q] = t]
            /\ state' = [state EXCEPT ![q] = "live"]
            /\ ppid' = [ppid EXCEPT ![q] = p]
            /\ genuine' = IF Current(p) \in genuine THEN genuine \cup {<<q, t>>} ELSE genuine
      BY <1>0, <2>3, ForkEffect
    <3>2. RootStays'
      BY <1>0, <2>2, <3>1 DEF RootStays, RootReaped, Listed, TableTypeOK
    <3>3. ASSUME ~ RootReaped, NEW r \in Pid, Listed(r)', ppid'[r] = Root
          PROVE  Current(r)' \in genuine' \/ token'[r] < RootToken
      <4>1. CASE r = q
        <5>0. p = Root
          BY <1>0, <3>1, <3>3, <4>1 DEF TableTypeOK
        <5>1. Current(p) = RootId
          BY <3>3, <5>0 DEF RootStays, Current, RootId
        <5>2. Current(r)' = <<q, t>>
          BY <1>0, <3>1, <4>1 DEF Current, TableTypeOK
        <5> QED
          BY <3>1, <5>1, <5>2
      <4>2. CASE r # q
        <5>1. /\ ppid[r] = Root /\ Listed(r) /\ Current(r)' = Current(r) /\ token'[r] = token[r]
          BY <1>0, <3>1, <3>3, <4>2 DEF Current, Listed, TableTypeOK
        <5>2. Current(r) \in genuine \/ token[r] < RootToken
          BY <3>3, <5>1 DEF RootLinks
        <5> QED
          BY <3>1, <5>1, <5>2
      <4> QED
        BY <4>1, <4>2
    <3>4. RootLinks'
      BY <2>2, <3>3 DEF RootLinks, RootReaped
    <3> QED
      BY <2>2, <3>1, <3>2, <3>4
  <2>4. CASE Exit(p)
    <3>1. UNCHANGED <<token, genuine>> /\ state' = [state EXCEPT ![p] = "zombie"] /\ Listed(p)
      BY <2>4 DEF Exit, Listed
    <3>2. \A r \in Pid : (Listed(r)' <=> Listed(r)) /\ (ppid'[r] = Root => ppid[r] = Root)
      BY <1>0, <2>4, <3>1, SettingFacts DEF Exit, Listed, TableTypeOK
    <3>3. RootStays' /\ RootLinks'
      BY <1>0, <2>2, <3>1, <3>2 DEF RootStays, RootLinks, RootReaped, Current
    <3> QED
      BY <2>2, <3>1, <3>3
  <2>5. CASE Collect(p) /\ (p = Root => RootReaped /\ pc = "idle")
    <3>1. UNCHANGED <<token, genuine, ppid>> /\ state' = [state EXCEPT ![p] = "free"]
      BY <2>5 DEF Collect
    <3>2. \A r \in Pid : (Listed(r)' => Listed(r)) /\ (r # p => (Listed(r)' <=> Listed(r)))
      BY <1>0, <3>1 DEF Listed, TableTypeOK
    <3>3. RootStays' /\ RootLinks'
      BY <1>0, <2>2, <2>5, <3>1, <3>2 DEF RootStays, RootLinks, RootReaped, Current
    <3> QED
      BY <2>2, <3>1, <3>3
  <2> QED
    BY <2>1, <2>3, <2>4, <2>5 DEF WalkMove
<1> QED
  BY <1>1, <1>2 DEF Next

-----------------------------------------------------------------------------
(* Which variables a step of the call writes.                              *)
LEMMA SnapIsTakenOnce ==
  ASSUME Next
  PROVE  \/ Snapshot
         \/ snap' = snap /\ \E e \in pending : Visit(e)
         \/ snap' = snap /\ NextLayer
         \/ UNCHANGED walkVars
BY DEF Next, Step, Host, Visit, NextLayer, WalkEnds, KillRoot, KillNext, Shoot, Return, walkVars

(* The steps that visit or descend leave the table alone.                  *)
LEMMA WalkReadsOnly ==
  ASSUME Snapshot \/ (\E e \in pending : Visit(e)) \/ NextLayer
  PROVE  UNCHANGED tableVars
BY DEF Snapshot, Visit, NextLayer

(* Where no listed pid is recycled, who was listed keeps its identity, and *)
(* does not become a member of the tree by the birth of somebody else.     *)
LEMMA SnappedAreStill ==
  ASSUME TypeOK, Shape, Next, ~ MidWalkReuse, NEW p \in Snapped
  PROVE  /\ token'[p] = token[p] /\ Current(p)' = Current(p)
         /\ Current(p)' \in genuine' <=> Current(p) \in genuine
<1>0. TableTypeOK /\ p \in Pid
  BY KindsAreTypes DEF Snapped, WalkKinds, Edge
<1>1. CASE Step
  BY <1>1, CallOnlyDooms DEF OnlyDooms, Doomed, Current
<1>2. CASE Host
  <2>1. PICK r \in Pid, q \in Pid : WalkMove(r, q)
    BY <1>2, HostMoves
  <2>2. CASE Fork(r, q) /\ (q \in Snapped => MidWalkReuse)
    <3>1. q # p
      BY <2>2
    <3>2. PICK t \in Token :
            /\ token' = [token EXCEPT ![q] = t]
            /\ genuine' = IF Current(r) \in genuine THEN genuine \cup {<<q, t>>} ELSE genuine
      BY <1>0, <2>2, ForkEffect
    <3>3. token'[p] = token[p] /\ Current(p)' = Current(p)
      BY <1>0, <3>1, <3>2 DEF Current, TableTypeOK
    <3>4. Current(p) # <<q, t>>
      BY <3>1 DEF Current
    <3> QED
      BY <3>2, <3>3, <3>4
  <2>3. CASE Exit(r) \/ Collect(r)
    BY <2>3 DEF Exit, Collect, Current
  <2> QED
    BY <2>1, <2>2, <2>3 DEF WalkMove
<1> QED
  BY <1>1, <1>2 DEF Next

LEMMA KeepsSnapTrue ==
  ASSUME TypeOK, Shape, LinksAreTrue, RootLinks, SnapIsTrue, Next
  PROVE  SnapIsTrue'
<1>0. TableTypeOK /\ WalkKinds /\ RootId \in ProcessId
  BY KindsAreTypes, RootIsThere
<1>a. setting' = setting
  BY <1>0, StepKeepsPast DEF Shape
<1> SUFFICES ASSUME ~ MidWalkReuse, NEW e \in snap'
             PROVE  /\ Reparents /\ e[2] # InitPid
                         => /\ e[2] \in Snapped'
                            /\ Current(e[2])' \in genuine' => Current(e[1])' \in genuine'
                    /\ ~ RootReaped /\ e[2] = Root
                         => Current(e[1])' \in genuine' \/ token'[e[1]] < RootToken
  BY <1>a DEF SnapIsTrue, MidWalkReuse, Reparents, RootReaped
<1>1. CASE Snapshot
  <2>1. UNCHANGED <<state, token, ppid, genuine>> /\ snap' = ProcessParents
    BY <1>1 DEF Snapshot, tableVars
  <2>2. PICK p \in Pid : e = <<p, ppid[p]>> /\ Listed(p)
    BY <2>1 DEF ProcessParents
  <2>3. \A q \in Pid : Listed(q) => q \in Snapped'
    <3>1. SUFFICES ASSUME NEW q \in Pid, Listed(q)
                   PROVE  q \in Snapped'
      OBVIOUS
    <3>2. <<q, ppid[q]>> \in snap'
      BY <2>1, <3>1 DEF ProcessParents
    <3> QED
      BY <3>2 DEF Snapped
  <2>4. e[1] = p /\ e[2] = ppid[p]
    BY <2>2
  <2>5. Reparents /\ e[2] # InitPid
          => Listed(e[2]) /\ e[2] \in Pid /\ (Current(e[2]) \in genuine => Current(e[1]) \in genuine)
    BY <2>2, <2>4 DEF LinksAreTrue, Listed
  <2>6. ~ RootReaped /\ e[2] = Root => Current(e[1]) \in genuine \/ token[e[1]] < RootToken
    BY <2>2, <2>4 DEF RootLinks
  <2> QED
    BY <2>1, <2>3, <2>5, <2>6 DEF Current
<1>2. CASE snap' = snap
  <2>1. e[1] \in Snapped
    BY <1>2 DEF Snapped
  <2>2. token'[e[1]] = token[e[1]] /\ (Current(e[1])' \in genuine' <=> Current(e[1]) \in genuine)
    BY <2>1, SnappedAreStill
  <2>3. e[2] \in Snapped => (Current(e[2])' \in genuine' <=> Current(e[2]) \in genuine)
    BY SnappedAreStill
  <2>4. Snapped' = Snapped
    BY <1>2 DEF Snapped
  <2> QED
    BY <1>2, <2>2, <2>3, <2>4 DEF SnapIsTrue
<1> QED
  BY <1>1, <1>2, SnapIsTakenOnce DEF walkVars

LEMMA KeepsFollowed ==
  ASSUME TypeOK, Shape, RootStays, RootStays', SnapIsTrue, Followed, Next,
         RootId \in genuine, RootId \in genuine', genuine \subseteq genuine'
  PROVE  Followed'
<1>0. TableTypeOK /\ WalkKinds /\ RootId \in ProcessId /\ InitPid \notin Pid
  BY KindsAreTypes, RootIsThere, SettingFacts DEF TableTypeOK
<1>a. setting' = setting
  BY <1>0, StepKeepsPast DEF Shape
<1> SUFFICES ASSUME Reparents, ~ MidWalkReuse, ~ RootReaped
             PROVE  found' \subseteq genuine' /\ \A p \in frontier' \cup next' : Current(p)' \in genuine'
  BY <1>a DEF Followed, MidWalkReuse, Reparents, RootReaped
<1>b. Current(Root) = RootId /\ Current(Root)' = RootId
  BY <1>a DEF RootStays, RootReaped, Current, RootId
<1>c. found \subseteq genuine /\ \A p \in frontier \cup next : Current(p) \in genuine
  BY DEF Followed
<1>1. CASE Snapshot
  <2>1. frontier' = {Root} /\ found' = {} /\ next' = {}
    BY <1>1 DEF Snapshot, Shape
  <2> QED
    BY <1>b, <2>1
<1>2. ASSUME NEW e \in pending, Visit(e)
      PROVE  found' \subseteq genuine' /\ \A p \in frontier' \cup next' : Current(p)' \in genuine'
  <2>1. UNCHANGED <<token, genuine, frontier>> /\ e[2] \in frontier
    BY <1>2, WalkReadsOnly DEF Visit, tableVars, Candidate
  <2>2. found' \subseteq found \cup {Current(e[1])} /\ next' \subseteq next \cup {e[1]}
    BY <1>2 DEF Visit
  <2>3. e[2] # InitPid /\ e \in snap
    BY <1>0, <2>1 DEF WalkKinds
  <2>4. Current(e[1]) \in genuine
    BY <1>c, <2>1, <2>3 DEF SnapIsTrue
  <2>5. \A p \in Pid : Current(p)' = Current(p)
    BY <2>1 DEF Current
  <2>6. frontier \cup next \cup {e[1]} \subseteq Pid
    BY <1>0 DEF WalkKinds, Edge
  <2> QED
    BY <1>c, <2>1, <2>2, <2>4, <2>5, <2>6
<1>3. CASE NextLayer
  <2>1. UNCHANGED <<token, genuine, found>> /\ frontier' = next /\ next' = {}
    BY <1>3, WalkReadsOnly DEF NextLayer, tableVars
  <2> QED
    BY <1>c, <2>1 DEF Current
<1>4. CASE UNCHANGED walkVars
  <2>1. UNCHANGED <<found, frontier, next>> /\ frontier \cup next \subseteq {Root} \cup Snapped
    BY <1>4 DEF walkVars, Shape
  <2>2. \A p \in Snapped : Current(p)' \in genuine' <=> Current(p) \in genuine
    BY SnappedAreStill
  <2> QED
    BY <1>b, <1>c, <2>1, <2>2
<1> QED
  BY <1>1, <1>2, <1>3, <1>4, SnapIsTakenOnce

LEMMA KeepsRootLayer ==
  ASSUME TypeOK, Shape, SnapIsTrue, RootLayer, Next, genuine \subseteq genuine'
  PROVE  RootLayer'
<1>0. TableTypeOK /\ WalkKinds /\ RootId \in ProcessId
  BY KindsAreTypes, RootIsThere
<1>a. setting' = setting
  BY <1>0, StepKeepsPast DEF Shape
<1> SUFFICES ASSUME ~ MidWalkReuse, ~ RootReaped, NEW id \in found', <<id[1], Root>> \in snap'
             PROVE  id \in genuine'
  BY <1>a DEF RootLayer, MidWalkReuse, RootReaped
<1>1. CASE snap' = snap /\ id \in found
  BY <1>1 DEF RootLayer
<1>2. CASE snap' = snap /\ id \notin found
  <2>1. PICK e \in pending : Visit(e)
    BY <1>2, SnapIsTakenOnce DEF Snapshot, NextLayer, walkVars, Shape
  <2>2. id = Current(e[1]) /\ KeepsToken(token[e[1]], RootToken)
    BY <1>2, <2>1 DEF Visit
  <2>3. token[e[1]] \in Nat /\ token[e[1]] >= RootToken
    <3>1. e[1] \in Pid /\ Token \subseteq Nat
      BY <1>0, SettingFacts DEF WalkKinds, Edge, TableTypeOK
    <3>2. token[e[1]] \in Nat
      BY <1>0, <3>1 DEF TableTypeOK
    <3>3. token[e[1]] > RootToken \/ token[e[1]] = RootToken
      BY <2>2 DEF KeepsToken
    <3> QED
      BY <3>2, <3>3 DEF RootToken
  <2>4. id[1] = e[1] /\ <<e[1], Root>> \in snap
    BY <1>2, <2>2 DEF Current
  <2>5. Current(e[1]) \in genuine \/ token[e[1]] < RootToken
    BY <2>4 DEF SnapIsTrue
  <2> QED
    BY <2>2, <2>3, <2>5 DEF RootToken
<1>3. CASE Snapshot
  BY <1>3 DEF Snapshot, Shape
<1> QED
  BY <1>1, <1>2, <1>3, SnapIsTakenOnce DEF walkVars

-----------------------------------------------------------------------------
(* The invariant, from the first state on.                                 *)
Inv == TypeOK /\ genuine \subseteq ProcessId /\ RootId \in genuine /\ WalkInv

LEMMA InitInv == Init => Inv
<1> SUFFICES ASSUME Init
             PROVE  Inv
  OBVIOUS
<1>1. TableTypeOK /\ LinksAreTrue
  BY InitTypes, InitLinks DEF Init
<1>2. TypeOK /\ genuine \subseteq ProcessId /\ RootId \in genuine
  BY <1>1 DEF Init, TypeOK, TableTypeOK, TableInit
<1>3. token[Root] = RootToken /\ Listed(Root)
  BY TableAssumption DEF Init, TableInit, Listed
<1>4. Past(RootId)
  BY <1>3 DEF Past, RootId, RootToken
<1>5. Shape /\ LayersFit /\ Settled /\ HandleHitsItsTarget
  BY <1>4 DEF Init, Shape, LayersFit, Settled, HandleHitsItsTarget, Pids
<1>6. RootLinks
  <2>1. \A p \in Pid : ppid[p] = Root => token[p] = OtherToken
    BY SettingFacts DEF Init, TableInit
  <2> QED
    BY <2>1 DEF RootLinks, OtherToken, RootToken
<1>7. RootStays /\ SnapIsTrue /\ Followed /\ RootLayer
  BY <1>3 DEF Init, RootStays, SnapIsTrue, Followed, RootLayer
<1> QED
  BY <1>1, <1>2, <1>5, <1>6, <1>7 DEF Inv, WalkInv

LEMMA NextInv == Inv /\ [Next]_vars => Inv'
<1> SUFFICES ASSUME Inv, [Next]_vars
             PROVE  Inv'
  OBVIOUS
<1> USE DEF Inv
<1>1. CASE Next
  <2>1. TypeOK' /\ genuine' \subseteq ProcessId'
    BY <1>1, StepKinds DEF WalkInv, TypeOK, TableTypeOK
  <2>2. LinksAreTrue' /\ RootStays' /\ RootLinks' /\ RootId \in genuine' /\ genuine \subseteq genuine'
    BY <1>1, KeepsTable DEF WalkInv
  <2>3. Shape' /\ LayersFit' /\ Settled' /\ HandleHitsItsTarget'
    BY <1>1, KeepsShape, KeepsLayers, KeepsSettled, KeepsHandle DEF WalkInv
  <2>4. SnapIsTrue' /\ Followed' /\ RootLayer'
    BY <1>1, <2>2, KeepsSnapTrue, KeepsFollowed, KeepsRootLayer DEF WalkInv
  <2> QED
    BY <2>1, <2>2, <2>3, <2>4 DEF WalkInv, RootId
<1>2. CASE UNCHANGED vars
  BY <1>2 DEF vars, tableVars, walkVars, killVars, TypeOK, TableTypeOK, Edge, WalkInv, Shape, LayersFit,
     Settled, HandleHitsItsTarget, LinksAreTrue, RootStays, RootLinks, SnapIsTrue, Followed, RootLayer,
     Accepted, Pids, Snapped, Past, Running, Exists, Current, Listed, Token, MaxToken, ProcessId,
     AllowEqual, Denied, RootReaped, MidWalkReuse, HandleKill, Reparents
<1> QED
  BY <1>1, <1>2

LEMMA AlwaysInv == Spec => []Inv
BY InitInv, NextInv, PTL DEF Spec

-----------------------------------------------------------------------------
(* The call comes to an end: its measure is made of natural numbers, and   *)
(* each of its steps lowers it.                                            *)
PhaseOf(l) == IF l = "idle" THEN 4 ELSE IF l = "walk" THEN 3 ELSE IF l = "root" THEN 2
              ELSE IF l = "rest" THEN 1 ELSE 0
ToVisit == 3 * Cardinality(pending) + 2 * Cardinality(next) + (IF frontier = {} THEN 0 ELSE 1)
ToKill == 2 * Cardinality(todo) + (IF aim = NoAim THEN 0 ELSE 1)

LEMMA OneOrNone == \A x, y : Cardinality({x} \ {y}) = IF x = y THEN 0 ELSE 1
<1> TAKE x, y
<1>1. CASE x = y
  <2>1. {x} \ {y} = {}
    BY <1>1
  <2> QED
    BY <1>1, <2>1, FS_EmptySet
<1>2. CASE x # y
  <2>1. {x} \ {y} = {x}
    BY <1>2
  <2> QED
    BY <1>2, <2>1, FS_Singleton
<1> QED
  BY <1>1, <1>2

LEMMA LeftIsThis ==
  /\ WalkKinds => Left = <<PhaseOf(pc), IF pc = "walk" THEN ToVisit ELSE IF pc = "rest" THEN ToKill ELSE 0>>
  /\ WalkKinds' => Left' = <<PhaseOf(pc'), IF pc' = "walk" THEN ToVisit' ELSE IF pc' = "rest" THEN ToKill' ELSE 0>>
<1> DEFINE Plain(l, v, k) == <<PhaseOf(l), IF l = "walk" THEN v ELSE IF l = "rest" THEN k ELSE 0>>
<1>1. \A l \in {"idle", "walk", "root", "rest", "done"} : Phase[l] = PhaseOf(l)
  BY DEF Phase, PhaseOf
<1>2. WalkKinds => Left = Plain(pc, ToVisit, ToKill)
  BY <1>1, OneOrNone DEF Left, WalkKinds, ToVisit, ToKill
<1>3. WalkKinds' => Left' = Plain(pc', ToVisit', ToKill')
  BY <1>1, OneOrNone DEF Left, WalkKinds, ToVisit, ToKill
<1> QED
  BY <1>2, <1>3

LEMMA SizesOfTheWalk ==
  ASSUME IsFiniteSet(Pid), TableTypeOK, WalkKinds
  PROVE  /\ IsFiniteSet(pending) /\ IsFiniteSet(next) /\ IsFiniteSet(todo)
         /\ Cardinality(pending) \in Nat /\ Cardinality(next) \in Nat /\ Cardinality(todo) \in Nat
<1>0. MaxToken \in Nat
  BY SettingFacts DEF TableTypeOK
<1>1. IsFiniteSet(Token)
  BY <1>0, FS_Interval DEF Token
<1>2. IsFiniteSet(ProcessId)
  BY <1>1, FS_Product DEF ProcessId
<1>3. IsFiniteSet(Edge)
  <2>1. IsFiniteSet(Pid \cup {InitPid})
    BY FS_AddElement
  <2> QED
    BY <2>1, FS_Product DEF Edge
<1>4. IsFiniteSet(pending)
  <2>1. pending \in SUBSET Edge
    BY DEF WalkKinds
  <2> QED
    BY <1>3, <2>1, FS_Subset
<1>5. IsFiniteSet(next) /\ IsFiniteSet(todo)
  BY <1>2, FS_Subset DEF WalkKinds
<1> QED
  BY <1>4, <1>5, FS_CardinalityType

LEMMA LeftIsNatural ==
  ASSUME IsFiniteSet(Pid), TableTypeOK, WalkKinds
  PROVE  Left \in Nat \X Nat
<1>1. ToVisit \in Nat /\ ToKill \in Nat
  BY SizesOfTheWalk DEF ToVisit, ToKill
<1>2. PhaseOf(pc) \in Nat
  BY DEF PhaseOf
<1> QED
  BY <1>1, <1>2, LeftIsThis

Lower == \/ Left'[1] < Left[1]
         \/ Left'[1] = Left[1] /\ Left'[2] < Left[2]

LEMMA StepLowers ==
  ASSUME IsFiniteSet(Pid), TableTypeOK, WalkKinds, Shape, WalkKinds', Step
  PROVE  Lower
<1>0. /\ IsFiniteSet(pending) /\ IsFiniteSet(next) /\ IsFiniteSet(todo)
      /\ Cardinality(pending) \in Nat /\ Cardinality(next) \in Nat /\ Cardinality(todo) \in Nat
  BY SizesOfTheWalk
<1>1. /\ PhaseOf(pc') < PhaseOf(pc) => Lower
      /\ pc = "walk" /\ pc' = "walk" /\ ToVisit' < ToVisit => Lower
      /\ pc = "rest" /\ pc' = "rest" /\ ToKill' < ToKill => Lower
  BY LeftIsThis DEF Lower
<1>2. CASE Snapshot \/ WalkEnds \/ KillRoot \/ Return
  BY <1>1, <1>2 DEF Snapshot, WalkEnds, KillRoot, Return, PhaseOf
<1>3. CASE \E e \in pending : Visit(e)
  <2>1. PICK e \in pending : Visit(e)
    BY <1>3
  <2>2. pending' = pending \ {e} /\ UNCHANGED <<pc, frontier>> /\ pc = "walk"
    BY <2>1 DEF Visit
  <2>3. Cardinality(pending') = Cardinality(pending) - 1
    BY <1>0, <2>2, FS_RemoveElement
  <2>4. next' = next \/ next' = next \cup {e[1]}
    BY <2>1 DEF Visit
  <2>5. Cardinality(next') = Cardinality(next) \/ Cardinality(next') = Cardinality(next) + 1
    BY <1>0, <2>4, FS_AddElement
  <2>6. ToVisit' < ToVisit
    BY <1>0, <2>2, <2>3, <2>5 DEF ToVisit
  <2> QED
    BY <1>1, <2>2, <2>6
<1>4. CASE NextLayer
  <2>1. /\ pc = "walk" /\ pc' = "walk" /\ pending' = pending /\ frontier # {}
        /\ frontier' = next /\ next' = {}
    BY <1>4 DEF NextLayer
  <2>2. Cardinality(next') = 0 /\ (next = {} => Cardinality(next) = 0)
        /\ (next # {} => Cardinality(next) > 0)
    BY <1>0, <2>1, FS_EmptySet
  <2>3. ToVisit' < ToVisit
    BY <1>0, <2>1, <2>2 DEF ToVisit
  <2> QED
    BY <1>1, <2>1, <2>3
<1>5. CASE KillNext
  <2>1. PICK id \in todo : todo' = todo \ {id}
    BY <1>5 DEF KillNext
  <2>2. Cardinality(todo') = Cardinality(todo) - 1
    BY <1>0, <2>1, FS_RemoveElement
  <2>3. pc = "rest" /\ pc' = "rest" /\ aim = NoAim
    BY <1>5 DEF KillNext
  <2>4. ToKill' < ToKill
    BY <1>0, <2>2, <2>3 DEF ToKill
  <2> QED
    BY <1>1, <2>3, <2>4
<1>6. CASE Shoot
  <2>1. pc = "rest" /\ pc' = "rest" /\ aim # NoAim /\ aim' = NoAim /\ todo' = todo
    BY <1>6 DEF Shoot, Shape
  <2>2. ToKill' < ToKill
    BY <1>0, <2>1 DEF ToKill
  <2> QED
    BY <1>1, <2>1, <2>2
<1> QED
  BY <1>2, <1>3, <1>4, <1>5, <1>6 DEF Step

-----------------------------------------------------------------------------
(* The theorems.                                                           *)

(* hard_kill's locals and the table keep their types: no step takes the    *)
(* pid of anything but a listed process into the walk.                     *)
THEOREM TypeCorrect == Spec => []TypeOK
<1>1. Inv => TypeOK
  BY DEF Inv
<1> QED
  BY <1>1, AlwaysInv, PTL

(* For any number of processes, hard_kill keeps strangers out: whom it     *)
(* accepts under the root was forked there, and so was every process it    *)
(* accepts where orphans are reparented (treewalk.rs keeps_token).         *)
THEOREM StrangersStayOut == Spec => []StrangersAreKeptOut
<1>1. Inv => StrangersAreKeptOut
  BY DEF Inv, WalkInv, Followed, RootLayer, StrangersAreKeptOut, WalkIsGenuine, TargetsAreGenuine,
         RootsChildrenAreGenuine
<1> QED
  BY <1>1, AlwaysInv, PTL

(* descendants_with visits every edge it should: at the end of the walk    *)
(* each edge under an accepted pid leads to an accepted or a pruned one.   *)
THEOREM WalkCloses == Spec => []WalkIsClosed
<1>1. Inv => WalkIsClosed
  <2> SUFFICES ASSUME Inv, pc \in {"root", "rest", "done"}, NEW e \in snap,
                      e[2] \in {Root} \cup {id[1] : id \in found}
               PROVE  e[1] \in {id[1] : id \in found} \cup pruned
    BY DEF WalkIsClosed
  <2>1. frontier = {} /\ next = {} /\ pc # "idle"
    BY DEF Inv, WalkInv, Shape, LayersFit
  <2>2. e \notin pending
    BY <2>1 DEF Inv, WalkInv, LayersFit, Accepted, Pids
  <2> QED
    BY <2>1, <2>2 DEF Inv, WalkInv, LayersFit, Pids
<1> QED
  BY <1>1, AlwaysInv, PTL

(* When hard_kill returns, the root and everybody it found is dead or has  *)
(* SIGKILL pending, save whom kill_by_identity ended with NotAttempted:    *)
(* the OS refused to identify it, or refused the kill.                     *)
THEOREM FoundAreKilled == Spec => []TargetsAreKilled
<1>1. Inv => TargetsAreKilled
  <2> SUFFICES ASSUME Inv, pc = "done", NEW id \in found \cup {RootId}, Running(id)
               PROVE  id \in spared
    BY DEF TargetsAreKilled
  <2>1. aim = NoAim /\ id # NoAim /\ todo = {}
    BY RootIsThere DEF Inv, TypeOK, WalkInv, Shape
  <2> QED
    BY <2>1 DEF Inv, WalkInv, Settled
<1> QED
  BY <1>1, AlwaysInv, PTL

(* kill_by_identity on Windows: the handle that was verified is the one    *)
(* terminated, so however fast pids are recycled nobody else is hit.       *)
THEOREM HandlesHitTheirTarget == Spec => []HandleHitsItsTarget
<1>1. Inv => HandleHitsItsTarget
  BY DEF Inv, WalkInv
<1> QED
  BY <1>1, AlwaysInv, PTL

(* hard_kill: the call ends however fast the host forks and recycles, and  *)
(* whatever cycles stale parent links form. Over finitely many pids its    *)
(* measure is made of natural numbers, each of its steps lowers it, and no *)
(* move of the host raises it.                                             *)
THEOREM WalkComesToAnEnd ==
  ASSUME IsFiniteSet(Pid)
  PROVE  Spec => CallMakesProgress /\ [](Left \in Nat \X Nat) /\ [][Host => Left' = Left]_vars
<1>1. Inv => Left \in Nat \X Nat
  BY LeftIsNatural, KindsAreTypes DEF Inv
<1>2. Inv /\ Inv' /\ Step => Lower
  <2> SUFFICES ASSUME Inv, Inv', Step
               PROVE  Lower
    OBVIOUS
  <2>1. TableTypeOK /\ WalkKinds /\ Shape /\ WalkKinds'
    BY KindsAreTypes DEF Inv, WalkInv
  <2> QED
    BY <2>1, StepLowers
<1>3. Inv /\ Host => Left' = Left
  <2> SUFFICES ASSUME Inv, Host
               PROVE  Left' = Left
    OBVIOUS
  <2>1. UNCHANGED <<pc, walkVars, killVars>>
    BY HostMoves
  <2> QED
    BY <2>1 DEF Left, Phase, walkVars, killVars
<1>4. CallMakesProgress <=> [][Step => Lower]_vars
  BY DEF CallMakesProgress, Lower
<1> QED
  BY <1>1, <1>2, <1>3, <1>4, AlwaysInv, PTL
=============================================================================
