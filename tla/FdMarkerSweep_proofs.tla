------------------------ MODULE FdMarkerSweep_proofs ------------------------
(***************************************************************************)
(* The sweep of a marker tree that answers Ok has left nobody out, hides   *)
(* no failure, and its marker channel takes aim at inheritors of the       *)
(* marker only: for any number of pids, any host and any faults.           *)
(***************************************************************************)
EXTENDS FdMarkerSweep, ProcessTable_proofs, FiniteSetTheorems, WellFoundedInduction

-----------------------------------------------------------------------------
(* The inductive invariant.                                                *)

(* Where the sweep stands, and what it has in hand.                        *)
Hand == newWalk \cup newHolders \cup ({held, aim} \ {NoAim})

SweepShape ==
  /\ pc \in {"idle", "snapshot", "walk"} => newWalk = {}
  /\ newHolders # {} => pc \in {"group", "kill"}
  /\ held # NoAim => pc = "kill" /\ held \in seen
  /\ aim # NoAim => pc = "kill" /\ aim \in seen /\ held \in {NoAim, aim}
  /\ pc = "resolve" => unscanned = {}
  /\ pc = "done" => Hand = {} /\ ~ Repeats
  /\ verdict # "none" =>
       /\ pc = "done"
       /\ verdict = IF incomplete THEN Fold("Unassessable", groupResult) ELSE groupResult

(* The identities the sweep deals with were all handed out.                *)
AllPast == \A id \in seen \cup reached \cup {RootId} : Past(id)

(* The marker is inherited, so whoever holds it is of the tree; and what   *)
(* kill_holder confirmed is one of them or has gone since.                 *)
HoldersInherit == \A p \in holds : Current(p) \in genuine
HeldHolds == held # NoAim => held \in genuine \/ held[2] < token[held[1]]

(* Since an identity was verified its pid has not changed hands but to a   *)
(* process created later.                                                  *)
Late(t, s) == t > s \/ (SameTick /\ t = s)
AimIsFresh == /\ since <= now
              /\ aim # NoAim => token[aim[1]] = aim[2] \/ Late(token[aim[1]], since)

(* Whom the sweep has met and not reached is in hand, or noted as a gap.   *)
SeenAreReached == incomplete \/ \A id \in seen : Member(id) => id \in reached \cup Hand
ReachedAreDown == Signal = "SIGKILL" => \A id \in reached : ~ Running(id)
BreaksShow == broken => IsMechanismFailure(groupResult)

(* Where nobody leaves of his own accord, a pass that is not told of a gap *)
(* and comes to deal with nothing new began with nobody left to reach: a   *)
(* process that the sweep can reach was forked by one that it can reach.   *)
Open(p) == state[p] = "live" /\ p \in holds \ opaque
Found(p) == /\ pc \in {"walk", "scan", "resolve"}
            /\ p \in unscanned \cup holders /\ Current(p) \notin seen
NoneOverlooked == Leaves = {} /\ Signal = "SIGKILL" =>
  \/ pc \in {"idle", "snapshot"} \/ incomplete \/ progressed \/ Hand # {}
  \/ \A p \in Pid : ~ Open(p)
  \/ \E p \in Pid : Open(p) /\ Found(p)

SweepInv == /\ SweepShape /\ AllPast /\ HoldersInherit /\ HeldHolds /\ AimIsFresh
            /\ HoldersAreGenuine /\ StraysAreLate
            /\ SeenAreReached /\ ReachedAreDown /\ BreaksShow /\ NoneOverlooked

-----------------------------------------------------------------------------
(* The kinds of the sweep's variables.                                     *)
SweepKinds ==
  /\ holds \subseteq Pid /\ pgrp \subseteq Pid /\ opaque \subseteq Pid
  /\ unscanned \subseteq Pid /\ holders \subseteq Pid
  /\ rootDenied \in BOOLEAN /\ firstPass \in BOOLEAN /\ blind \in BOOLEAN
  /\ progressed \in BOOLEAN /\ incomplete \in BOOLEAN /\ broken \in BOOLEAN
  /\ pc \in {"idle", "snapshot", "walk", "scan", "resolve", "group", "kill", "done"}
  /\ snap \subseteq Pid \X (Pid \cup {InitPid})
  /\ seen \subseteq ProcessId /\ reached \subseteq ProcessId /\ viaMarker \subseteq ProcessId
  /\ newWalk \subseteq seen /\ newHolders \subseteq seen
  /\ held \in ProcessId \cup {NoAim} /\ aim \in ProcessId \cup {NoAim}
  /\ since \in Token /\ strays \subseteq ProcessId \X Token
  /\ groupResult \in {"Ok"} \cup Failure /\ verdict \in {"none", "Ok"} \cup Failure

LEMMA KindsAreTypes == /\ TypeOK <=> TableTypeOK /\ SweepKinds
                       /\ TypeOK' <=> TableTypeOK' /\ SweepKinds'
<1>1. TypeOK <=> TableTypeOK /\ SweepKinds
  BY DEF TypeOK, SweepKinds
<1>2. TypeOK' <=> TableTypeOK' /\ SweepKinds'
  BY DEF TypeOK, SweepKinds
<1> QED
  BY <1>1, <1>2

LEMMA RootIsThere == TableTypeOK => Root \in Pid /\ RootId \in ProcessId /\ NoAim \notin ProcessId
BY SettingFacts, TableAssumption DEF TableTypeOK, RootId, ProcessId, NoAim

LEMMA CurrentIsId == ASSUME TableTypeOK, NEW p \in Pid PROVE Current(p) \in ProcessId /\ Past(Current(p))
BY SettingFacts DEF TableTypeOK, Current, ProcessId, Past

-----------------------------------------------------------------------------
(* The moves of the host.                                                  *)
HostMove(p, q) == HostFork(p, q) \/ HostExit(p) \/ HostSetsid(p) \/ HostClose(p)
                  \/ HostExec(p) \/ HostCollect(p)

LEMMA HostMoves ==
  ASSUME Host
  PROVE  /\ pc # "done" /\ UNCHANGED <<rootDenied, pc, passVars, sweepVars, histVars>>
         /\ \E p, q \in Pid : HostMove(p, q)
<1>1. PICK p \in Pid : \/ \E q \in Pid : HostFork(p, q)
                       \/ HostExit(p) \/ HostSetsid(p) \/ HostClose(p)
                       \/ HostExec(p) \/ HostCollect(p)
  BY DEF Host
<1> QED
  BY <1>1 DEF Host, HostMove

(* What the sweep asks of an identity can only turn against it.            *)
Fades(id) == /\ Past(id) => Past(id)' /\ (Running(id)' => Running(id)) /\ (Member(id)' => Member(id))
             /\ id[2] < token[id[1]] => id[2] < token'[id[1]]

LEMMA HostEffect ==
  ASSUME TableTypeOK, SweepKinds, HoldersInherit, Host
  PROVE  /\ TableTypeOK' /\ setting' = setting /\ ProcessId' = ProcessId
         /\ holds' \subseteq Pid /\ pgrp' \subseteq Pid /\ opaque' \subseteq Pid
         /\ genuine \subseteq genuine' /\ HoldersInherit'
         /\ \A id \in ProcessId : Fades(id)
<1>1. PICK p \in Pid, q \in Pid : HostMove(p, q)
  BY HostMoves
<1>2. CASE HostFork(p, q)
  <2>1. PICK t \in Token :
          /\ t > token[q] /\ state[p] = "live" /\ p # q
          /\ token' = [token EXCEPT ![q] = t]
          /\ genuine' = IF Current(p) \in genuine THEN genuine \cup {<<q, t>>} ELSE genuine
    BY <1>2, ForkEffect DEF HostFork
  <2>2. /\ holds' = Inherit(holds, p, q) /\ pgrp' = Inherit(pgrp, p, q)
        /\ opaque' = Inherit(opaque, p, q)
    BY <1>2 DEF HostFork
  <2>3. TableTypeOK' /\ setting' = setting /\ ProcessId' = ProcessId
    BY <1>2, MoveTypes DEF HostFork, TableMove, ProcessId, Token, MaxToken
  <2>4. holds' \subseteq Pid /\ pgrp' \subseteq Pid /\ opaque' \subseteq Pid
    BY <2>2 DEF Inherit, SweepKinds
  <2>5. ASSUME NEW r \in holds' PROVE Current(r)' \in genuine'
    <3>1. CASE r = q
      <4>1. p \in holds /\ Current(p) \in genuine
        BY <2>2, <2>5, <3>1 DEF Inherit, HoldersInherit
      <4>2. Current(r)' = <<q, t>>
        BY <2>1, <3>1 DEF Current, TableTypeOK
      <4> QED
        BY <2>1, <4>1, <4>2
    <3>2. CASE r # q
      <4>1. r \in holds /\ r \in Pid
        BY <2>2, <2>5, <3>2 DEF Inherit, SweepKinds
      <4>2. Current(r)' = Current(r)
        BY <2>1, <3>2, <4>1 DEF Current, TableTypeOK
      <4> QED
        BY <2>1, <4>1, <4>2 DEF HoldersInherit
    <3> QED
      BY <3>1, <3>2
  <2>6. ASSUME NEW id \in ProcessId PROVE Fades(id)
    <3>1. Past(id) => Past(id)' /\ (Running(id)' => Running(id))
      BY <1>2, IdentitiesDoNotReturn DEF HostFork, TableMove
    <3>2. id[1] \in Pid /\ id[2] \in Nat /\ token[id[1]] \in Nat /\ t \in Nat /\ token[q] \in Nat
      BY SettingFacts DEF ProcessId, TableTypeOK
    <3>3. id[2] < token[id[1]] => id[2] < token'[id[1]]
      BY <2>1, <3>2 DEF TableTypeOK
    <3>4. ASSUME Past(id), Member(id)' PROVE Member(id)
      <4>1. Running(id) /\ Running(id)' /\ id[1] \in holds'
        BY <3>1, <3>4 DEF Member
      <4>2. id[1] # q
        BY <1>2, <4>1 DEF HostFork, Fork, Running
      <4> QED
        BY <2>2, <4>1, <4>2 DEF Member, Inherit
    <3> QED
      BY <3>1, <3>3, <3>4 DEF Fades
  <2> QED
    BY <2>1, <2>3, <2>4, <2>5, <2>6 DEF HoldersInherit
<1>3. CASE HostExit(p) \/ HostCollect(p)
  <2>1. TableMove(p, q) /\ UNCHANGED <<holds, pgrp, opaque, token, genuine>>
    BY <1>3 DEF HostExit, HostCollect, TableMove, Exit, Collect
  <2>2. TableTypeOK' /\ setting' = setting /\ ProcessId' = ProcessId
    BY <2>1, MoveTypes DEF ProcessId, Token, MaxToken
  <2>3. \A id \in ProcessId : Past(id) => Past(id)' /\ (Running(id)' => Running(id))
    BY <2>1, IdentitiesDoNotReturn
  <2> QED
    BY <2>1, <2>2, <2>3 DEF SweepKinds, HoldersInherit, Current, Fades, Member
<1>4. CASE HostSetsid(p) \/ HostClose(p) \/ HostExec(p)
  <2>1. UNCHANGED tableVars /\ holds' \subseteq holds /\ pgrp' \subseteq Pid /\ opaque' \subseteq Pid
    BY <1>4 DEF HostSetsid, HostClose, HostExec, SweepKinds
  <2> QED
    BY <2>1 DEF tableVars, TableTypeOK, ProcessId, Token, MaxToken, SweepKinds, HoldersInherit,
                Fades, Past, Running, Exists, Current, Listed, Member
<1> QED
  BY <1>1, <1>2, <1>3, <1>4 DEF HostMove

(* Where members do not leave, who is open stays so, and nobody becomes so *)
(* but by the fork of one who is.                                          *)
LEMMA HostLeavesNobody ==
  ASSUME TableTypeOK, SweepKinds, HoldersInherit, Host, Leaves = {}, pc # "idle"
  PROVE  /\ \A r \in Pid : Open(r) => Open(r)' /\ Current(r)' = Current(r)
         /\ (\A r \in Pid : ~ Open(r)) => \A r \in Pid : ~ Open(r)'
<1>1. PICK p \in Pid, q \in Pid : HostMove(p, q)
  BY HostMoves
<1>2. ~ May("exit") /\ ~ May("close") /\ ~ May("exec")
  BY DEF May
<1>3. CASE HostFork(p, q)
  <2>1. PICK t \in Token :
          /\ state[p] = "live" /\ state[q] = "free"
          /\ token' = [token EXCEPT ![q] = t] /\ state' = [state EXCEPT ![q] = "live"]
    BY <1>3, ForkEffect DEF HostFork
  <2>2. holds' = Inherit(holds, p, q) /\ opaque' = Inherit(opaque, p, q)
    BY <1>3 DEF HostFork
  <2>3. ASSUME NEW r \in Pid, r # q
        PROVE  state'[r] = state[r] /\ token'[r] = token[r] /\ (Open(r)' <=> Open(r))
    BY <2>1, <2>2, <2>3 DEF TableTypeOK, Inherit, Open
  <2>4. ~ Open(q) /\ (Open(q)' => Open(p))
    BY <2>1, <2>2 DEF Inherit, Open
  <2> QED
    BY <2>3, <2>4 DEF Current
<1>4. CASE HostExit(p) \/ HostCollect(p)
  <2>1. /\ UNCHANGED <<holds, opaque, token>>
        /\ state' = [state EXCEPT ![p] = state'[p]] /\ state'[p] # "live"
    BY <1>4 DEF HostExit, HostCollect, Exit, Collect, TableTypeOK
  <2>2. ~ Open(p)
    BY <1>2, <1>4 DEF HostExit, HostCollect, Collect, Open, HoldersInherit
  <2>3. \A r \in Pid : Open(r)' <=> Open(r)
    BY <2>1, <2>2 DEF Open, TableTypeOK
  <2> QED
    BY <2>1, <2>3 DEF Current
<1>5. CASE HostSetsid(p) \/ HostClose(p) \/ HostExec(p)
  <2>1. UNCHANGED <<tableVars, holds, opaque>>
    BY <1>2, <1>5 DEF HostSetsid, HostClose, HostExec
  <2> QED
    BY <2>1 DEF tableVars, Open, Current
<1> QED
  BY <1>1, <1>3, <1>4, <1>5 DEF HostMove

-----------------------------------------------------------------------------
(* A delivery reaches whom it says, and dooms nobody but by SIGKILL.       *)
LEMMA ReachEffect ==
  ASSUME TableTypeOK, NEW ids \in SUBSET ProcessId, Reach(ids)
  PROVE  /\ TableTypeOK'
         /\ UNCHANGED <<setting, token, ppid, now, genuine, holds, pgrp, opaque, rootDenied>>
         /\ reached' = reached \cup ids
         /\ \A p \in Pid : (Listed(p)' <=> Listed(p)) /\ (state'[p] = "live" => state[p] = "live")
         /\ Signal = "SIGKILL" => \A id \in ids : ~ Running(id)'
<1>1. /\ UNCHANGED <<setting, token, ppid, now, genuine, holds, pgrp, opaque, rootDenied>>
      /\ reached' = reached \cup ids
  BY DEF Reach
<1>2. CASE Signal = "SIGKILL"
  <2>1. state' = [p \in Pid |-> IF Current(p) \in ids /\ state[p] = "live" THEN "doomed" ELSE state[p]]
    BY <1>2 DEF Reach
  <2>2. state' \in [Pid -> State] /\ \A p \in Pid : (Listed(p)' <=> Listed(p)) /\ (state'[p] = "live" => state[p] = "live")
    BY <2>1 DEF TableTypeOK, State, Listed
  <2>3. ASSUME NEW id \in ids, Running(id)' PROVE FALSE
    <3>1. id[1] \in Pid /\ Current(id[1]) = id /\ state'[id[1]] = "live"
      BY <1>1, <2>3 DEF Running, Exists, Current, ProcessId
    <3> QED
      BY <2>1, <3>1
  <2>4. TableTypeOK'
    BY <1>1, <2>2 DEF TableTypeOK, Token, MaxToken, ProcessId
  <2> QED
    BY <1>1, <2>2, <2>3, <2>4
<1>3. CASE Signal # "SIGKILL"
  <2>1. UNCHANGED tableVars
    BY <1>1, <1>3 DEF Reach, tableVars
  <2> QED
    BY <1>1, <1>3, <2>1 DEF tableVars, TableTypeOK, Token, MaxToken, ProcessId, Listed
<1> QED
  BY <1>2, <1>3

(* A step of the sweep delivers to processes that are there, or leaves the *)
(* host alone.                                                             *)
Delivers(ids) == (\A id \in ids : Exists(id)) /\ Reach(ids)

(* A shot reaches whatever holds the pid, and is not held against the      *)
(* sweep unless the holder refused it.                                     *)
LEMMA ShotAnswers ==
  ASSUME TableTypeOK, SweepKinds, Shoot
  PROVE  /\ \E ids \in SUBSET ProcessId :
              /\ ids \subseteq {Current(aim[1])} /\ Delivers(ids)
              /\ strays' = strays \cup ((ids \ {aim}) \X {since})
         /\ incomplete' \/ aim \in reached' \/ ~ Exists(aim)
         /\ progressed' \in BOOLEAN /\ incomplete' \in BOOLEAN
         /\ progressed' \/ incomplete'
         /\ incomplete => incomplete'
<1> DEFINE hit == {Current(p) : p \in {q \in {aim[1]} : Listed(q) /\ ~ Denies(q)}}
<1>1. aim \in ProcessId /\ aim[1] \in Pid
  BY DEF Shoot, SweepKinds, ProcessId
<1>2. hit \in SUBSET ProcessId /\ hit \subseteq {Current(aim[1])}
  BY <1>1, CurrentIsId
<1>3. \A id \in hit : Exists(id)
  BY DEF Exists, Current, Listed
<1>4. Reach(hit) /\ strays' = strays \cup ((hit \ {aim}) \X {since}) /\ Note(~ Denies(aim[1]))
  BY DEF Shoot
<1>5. Exists(aim) /\ ~ Denies(aim[1]) => aim \in hit
  BY DEF Exists
<1>6. reached' = reached \cup hit
  BY <1>4 DEF Reach
<1> HIDE DEF hit
<1> QED
  BY <1>2, <1>3, <1>4, <1>5, <1>6 DEF Delivers, Note, SweepKinds

(* The re-verification of an identity takes aim at it, or settles it.      *)
LEMMA AimAnswers ==
  ASSUME SweepKinds, NEW id, TakeAim(id)
  PROVE  /\ (aim' = id /\ Exists(id) /\ since' = now) \/ (aim' = aim /\ since' = since)
         /\ aim' = id \/ incomplete' \/ ~ Exists(id)
         /\ aim' = id \/ progressed' \/ incomplete'
         /\ progressed' \in BOOLEAN /\ incomplete' \in BOOLEAN
         /\ incomplete => incomplete'
BY DEF TakeAim, Same, Note, SweepKinds

LEMMA StepDelivers ==
  ASSUME TableTypeOK, SweepKinds, Step
  PROVE  ReachNobody \/ \E ids \in SUBSET ProcessId : Delivers(ids)
<1>1. CASE GroupSignal
  <2> DEFINE takers == {Current(p) : p \in {q \in Pid : InGroup(q) /\ ~ Denies(q)}}
  <2>1. takers \in SUBSET ProcessId
    BY CurrentIsId
  <2>2. \A id \in takers : Exists(id)
    BY DEF InGroup, Alive, Exists, Current, Listed
  <2>3. ReachNobody \/ Reach(takers)
    BY <1>1 DEF GroupSignal
  <2> QED
    BY <2>1, <2>2, <2>3 DEF Delivers
<1>2. CASE Shoot
  BY <1>2, ShotAnswers
<1>3. CASE KillWalk \/ KillConfirmed
  BY <1>3 DEF KillWalk, KillConfirmed
<1>4. CASE Snapshot \/ Walk \/ Scan \/ Resolve \/ KillHolder \/ NextPass \/ Finish
  BY <1>4 DEF Snapshot, Walk, Scan, Resolve, KillHolder, NextPass, Finish
<1> QED
  BY <1>1, <1>2, <1>3, <1>4 DEF Step

LEMMA StepEffect ==
  ASSUME TableTypeOK, SweepKinds, Step
  PROVE  /\ TableTypeOK' /\ ProcessId' = ProcessId
         /\ UNCHANGED <<setting, token, ppid, now, genuine, holds, pgrp, opaque, rootDenied>>
         /\ \A p \in Pid : (Listed(p)' <=> Listed(p)) /\ (state'[p] = "live" => state[p] = "live")
         /\ reached \subseteq reached' /\ reached' \subseteq ProcessId
         /\ \A id \in reached' \ reached : Exists(id) /\ (Signal = "SIGKILL" => ~ Running(id)')
<1>1. CASE ReachNobody
  BY <1>1 DEF ReachNobody, hostVars, tableVars, TableTypeOK, Token, MaxToken, ProcessId, Listed, SweepKinds
<1>2. CASE \E ids \in SUBSET ProcessId : Delivers(ids)
  <2>1. PICK ids \in SUBSET ProcessId : Delivers(ids)
    BY <1>2
  <2>2. (\A id \in ids : Exists(id)) /\ Reach(ids)
    BY <2>1 DEF Delivers
  <2>3. /\ TableTypeOK'
        /\ UNCHANGED <<setting, token, ppid, now, genuine, holds, pgrp, opaque, rootDenied>>
        /\ reached' = reached \cup ids
        /\ \A p \in Pid : (Listed(p)' <=> Listed(p)) /\ (state'[p] = "live" => state[p] = "live")
        /\ Signal = "SIGKILL" => \A id \in ids : ~ Running(id)'
    BY <2>2, ReachEffect
  <2>4. ProcessId' = ProcessId
    BY <2>3 DEF ProcessId, Token, MaxToken
  <2> QED
    BY <2>2, <2>3, <2>4 DEF SweepKinds
<1> QED
  BY <1>1, <1>2, StepDelivers

LEMMA StepFades ==
  ASSUME TableTypeOK, SweepKinds, Step
  PROVE  /\ \A id \in ProcessId : Fades(id) /\ (Exists(id)' <=> Exists(id)) /\ (Past(id)' <=> Past(id))
         /\ \A p \in Pid : (Open(p)' => Open(p)) /\ Current(p)' = Current(p)
<1>1. /\ UNCHANGED <<token, holds, opaque>>
      /\ \A p \in Pid : (Listed(p)' <=> Listed(p)) /\ (state'[p] = "live" => state[p] = "live")
  BY StepEffect
<1>2. \A p \in Pid : (Open(p)' => Open(p)) /\ Current(p)' = Current(p)
  BY <1>1 DEF Open, Current
<1>3. ASSUME NEW id \in ProcessId
      PROVE  /\ (Exists(id)' <=> Exists(id)) /\ (Past(id)' <=> Past(id))
             /\ (Running(id)' => Running(id))
  <2>1. id[1] \in Pid
    BY DEF ProcessId
  <2> QED
    BY <1>1, <2>1 DEF Past, Running, Exists, Current
<1> QED
  BY <1>1, <1>2, <1>3 DEF Fades, Member

-----------------------------------------------------------------------------
(* The kinds are kept.                                                     *)
LEMMA TreeIsPast ==
  ASSUME TableTypeOK, NEW unknown
  PROVE  \A id \in Descendants(unknown) : id \in ProcessId /\ Past(id)
BY CurrentIsId DEF Descendants

LEMMA FoldKinds ==
  ASSUME NEW f \in {"Ok"} \cup Failure, NEW r \in {"Ok"} \cup Failure
  PROVE  /\ Fold(f, r) \in {"Ok"} \cup Failure
         /\ IsMechanismFailure(f) \/ IsMechanismFailure(r) => IsMechanismFailure(Fold(f, r))
         /\ Fold(f, r) = "Ok" => f = "Ok" /\ r = "Ok"
BY DEF Fold, Combined, IsMechanismFailure, Failure

LEMMA StepKinds ==
  ASSUME TableTypeOK, SweepKinds, Step
  PROVE  SweepKinds'
<1>1. /\ ProcessId' = ProcessId /\ reached' \subseteq ProcessId
      /\ UNCHANGED <<setting, token, ppid, now, genuine, holds, pgrp, opaque, rootDenied>>
  BY StepEffect
<1>a. Token' = Token
  BY <1>1 DEF Token, MaxToken
<1>2. CASE Snapshot
  <2>1. snap' \subseteq Pid \X (Pid \cup {InitPid})
    <3>1. \A p \in Pid : <<p, ppid[p]>> \in Pid \X (Pid \cup {InitPid})
      BY DEF TableTypeOK
    <3> QED
      BY <1>2, <3>1 DEF Snapshot
  <2>2. unscanned' \subseteq Pid
    BY <1>2, <2>1 DEF Snapshot
  <2> QED
    BY <1>1, <1>a, <1>2, <2>1, <2>2 DEF Snapshot, SweepKinds, shotVars
<1>3. CASE Walk
  <2>1. PICK unknown \in Unknowns :
          LET tree == IF rootDenied THEN {} ELSE {RootId} \cup Descendants(unknown)
          IN newWalk' = tree \ seen /\ seen' = SeenWith(tree)
    BY <1>3 DEF Walk
  <2>2. seen' \subseteq ProcessId /\ newWalk' \subseteq seen' /\ seen \subseteq seen'
    BY <2>1, TreeIsPast, RootIsThere DEF SweepKinds, SeenWith
  <2> QED
    BY <1>1, <1>a, <1>3, <2>2 DEF Walk, SweepKinds, shotVars
<1>4. CASE Scan
  <2>1. unscanned' \subseteq unscanned /\ holders' \subseteq Pid
    <3> DEFINE p == CHOOSE p \in unscanned : \A q \in unscanned : p <= q
    <3>1. unscanned' \subseteq unscanned
      BY <1>4 DEF Scan
    <3>2. holders' = holders \/ (holders' = holders \cup {p} /\ p \in holds)
      BY <1>4 DEF Scan, Holds
    <3> QED
      BY <3>1, <3>2 DEF SweepKinds
  <2>2. pc' \in {"resolve", "scan"}
    BY <1>4 DEF Scan
  <2> QED
    BY <1>1, <1>a, <1>4, <2>1, <2>2 DEF Scan, SweepKinds, sweepVars, shotVars
<1>5. CASE Resolve
  <2>1. PICK unknown \in Unknowns :
          newHolders' = Fresh({Current(p) : p \in {q \in holders \ unknown : Listed(q)}})
    BY <1>5 DEF Resolve
  <2>2. newHolders' \subseteq ProcessId
    BY <2>1, CurrentIsId DEF Fresh, SweepKinds
  <2>3. incomplete' \in BOOLEAN
    BY <1>5 DEF Resolve, SweepKinds
  <2> QED
    BY <1>1, <1>a, <1>5, <2>2, <2>3 DEF Resolve, SeenWith, SweepKinds, shotVars
<1>6. CASE GroupSignal
  <2>1. \/ UNCHANGED <<groupResult, broken>>
        \/ \E r \in {"Ok"} \cup Failure : groupResult' = Fold(groupResult, r)
                                          /\ broken' = (broken \/ IsMechanismFailure(r))
    BY <1>6 DEF GroupSignal
  <2>2. groupResult' \in {"Ok"} \cup Failure
    BY <2>1, FoldKinds DEF SweepKinds
  <2>3. broken' \in BOOLEAN
    BY <2>1 DEF SweepKinds
  <2> QED
    BY <1>1, <1>a, <1>6, <2>2, <2>3 DEF GroupSignal, SweepKinds, shotVars
<1>7. CASE KillWalk
  <2>1. PICK id \in newWalk : newWalk' = newWalk \ {id} /\ TakeAim(id)
    BY <1>7 DEF KillWalk
  <2>2. /\ aim' \in ProcessId \cup {NoAim} /\ since' \in Token
        /\ progressed' \in BOOLEAN /\ incomplete' \in BOOLEAN
    BY <2>1, AimAnswers DEF SweepKinds, TableTypeOK
  <2> QED
    BY <1>1, <1>a, <1>7, <2>1, <2>2 DEF KillWalk, SweepKinds
<1>8. CASE KillHolder
  <2>1. PICK id \in newHolders : newHolders' = newHolders \ {id} /\ Query(id)
    BY <1>8 DEF KillHolder
  <2>2. held' \in ProcessId \cup {NoAim} /\ progressed' \in BOOLEAN /\ incomplete' \in BOOLEAN
    BY <2>1 DEF Query, Note, SweepKinds
  <2> QED
    BY <1>1, <1>a, <1>8, <2>1, <2>2 DEF KillHolder, SweepKinds, shotVars
<1>9. CASE KillConfirmed
  <2>1. /\ aim' \in ProcessId \cup {NoAim} /\ since' \in Token
        /\ progressed' \in BOOLEAN /\ incomplete' \in BOOLEAN
    BY <1>9, AimAnswers DEF KillConfirmed, SweepKinds, TableTypeOK
  <2>2. viaMarker' \subseteq ProcessId
    BY <1>1, <1>9, <2>1 DEF KillConfirmed, SweepKinds
  <2> QED
    BY <1>1, <1>a, <1>9, <2>1, <2>2 DEF KillConfirmed, SweepKinds
<1>12. CASE Shoot
  <2>1. PICK ids \in SUBSET ProcessId : strays' = strays \cup ((ids \ {aim}) \X {since})
    BY <1>12, ShotAnswers
  <2>2. strays' \subseteq ProcessId \X Token
    BY <2>1 DEF SweepKinds
  <2>3. progressed' \in BOOLEAN /\ incomplete' \in BOOLEAN /\ 0 \in Token
    BY <1>12, ShotAnswers, SettingFacts DEF TableTypeOK
  <2> QED
    BY <1>1, <1>a, <1>12, <2>2, <2>3 DEF Shoot, SweepKinds
<1>10. CASE NextPass
  BY <1>1, <1>a, <1>10 DEF NextPass, SweepKinds, sweepVars, shotVars
<1>11. CASE Finish
  <2>1. verdict' \in {"none", "Ok"} \cup Failure
    BY <1>11, FoldKinds DEF Finish, SweepKinds, Failure
  <2> QED
    BY <1>1, <1>a, <1>11, <2>1 DEF Finish, SweepKinds, passVars, shotVars
<1> QED
  BY <1>2, <1>3, <1>4, <1>5, <1>6, <1>7, <1>8, <1>9, <1>10, <1>11, <1>12 DEF Step

LEMMA HostKinds ==
  ASSUME TableTypeOK, SweepKinds, HoldersInherit, Host
  PROVE  SweepKinds'
<1>1. /\ ProcessId' = ProcessId /\ setting' = setting
      /\ holds' \subseteq Pid /\ pgrp' \subseteq Pid /\ opaque' \subseteq Pid
  BY HostEffect
<1>2. Token' = Token
  BY <1>1 DEF Token, MaxToken
<1> QED
  BY <1>1, <1>2, HostMoves DEF SweepKinds, passVars, sweepVars, histVars, shotVars

-----------------------------------------------------------------------------
(* Where the sweep stands.                                                 *)
LEMMA KeepsShape ==
  ASSUME TableTypeOK, SweepKinds, SweepShape, HoldersInherit, Next
  PROVE  SweepShape'
<1>1. CASE Host
  <2>1. setting' = setting
    BY <1>1, HostEffect
  <2> QED
    BY <1>1, <2>1, HostMoves DEF SweepShape, Hand, Repeats, Signal, passVars, sweepVars
<1>2. CASE Step
  <2>1. Signal' = Signal /\ aim # NoAim => aim \in ProcessId
    BY <1>2, StepEffect DEF Signal, SweepKinds
  <2>2. CASE Snapshot \/ Walk \/ NextPass
    BY <2>2 DEF Snapshot, Walk, NextPass, PassDone, SeenWith, SweepShape, sweepVars
  <2>3. CASE Scan
    BY <2>3 DEF Scan, SweepShape, sweepVars
  <2>4. CASE Resolve
    BY <2>4 DEF Resolve, SeenWith, SweepShape
  <2>5. CASE GroupSignal
    BY <2>5 DEF GroupSignal, SweepShape
  <2>6. CASE KillWalk
    <3>1. PICK id \in newWalk : newWalk' = newWalk \ {id} /\ TakeAim(id)
      BY <2>6 DEF KillWalk
    <3>2. aim' = id \/ aim' = aim
      BY <3>1, AimAnswers
    <3> QED
      BY <2>6, <3>1, <3>2 DEF KillWalk, SweepShape, SweepKinds
  <2>7. CASE KillHolder
    <3>1. PICK id \in newHolders : newHolders' = newHolders \ {id} /\ Query(id)
      BY <2>7 DEF KillHolder
    <3>2. held' = id \/ held' = held
      BY <3>1 DEF Query
    <3> QED
      BY <2>7, <3>1, <3>2 DEF KillHolder, SweepShape, SweepKinds
  <2>8. CASE KillConfirmed
    <3>1. aim' = held \/ aim' = aim
      BY <2>8, AimAnswers DEF KillConfirmed
    <3> QED
      BY <2>8, <3>1 DEF KillConfirmed, SweepShape
  <2>10. CASE Shoot
    BY <2>10 DEF Shoot, SweepShape
  <2>9. CASE Finish
    <3>1. Hand' = {} /\ ~ Repeats' /\ pc' = "done"
      BY <2>9 DEF Finish, PassDone, Hand, Repeats, Signal, ReachNobody, hostVars, tableVars, passVars
    <3> QED
      BY <2>9, <3>1 DEF Finish, PassDone, SweepShape, passVars
  <2> QED
    BY <1>2, <2>2, <2>3, <2>4, <2>5, <2>6, <2>7, <2>8, <2>9, <2>10 DEF Step
<1> QED
  BY <1>1, <1>2 DEF Next

-----------------------------------------------------------------------------
(* What any step does to the identities the sweep knows.                   *)
LEMMA NextFades ==
  ASSUME TableTypeOK, SweepKinds, HoldersInherit, Next
  PROVE  /\ TableTypeOK' /\ ProcessId' = ProcessId /\ setting' = setting
         /\ genuine \subseteq genuine' /\ HoldersInherit'
         /\ \A id \in ProcessId : Fades(id)
<1>1. CASE Host
  BY <1>1, HostEffect
<1>2. CASE Step
  <2>1. /\ TableTypeOK' /\ ProcessId' = ProcessId
        /\ UNCHANGED <<setting, token, genuine, holds>>
    BY <1>2, StepEffect
  <2>2. \A id \in ProcessId : Fades(id)
    BY <1>2, StepFades
  <2> QED
    BY <2>1, <2>2 DEF HoldersInherit, Current
<1> QED
  BY <1>1, <1>2 DEF Next

(* The sweep deals with what occupies a pid now.                           *)
LEMMA SeenGrows ==
  ASSUME TableTypeOK, SweepKinds, SweepShape, Step
  PROVE  /\ seen \subseteq seen'
         /\ \A id \in seen' \ seen : id = RootId \/ Past(id)
         /\ \A id \in seen' \ seen : id \in newWalk' \cup newHolders'
<1>1. CASE Walk
  <2>1. PICK unknown \in Unknowns :
          LET tree == IF rootDenied THEN {} ELSE {RootId} \cup Descendants(unknown)
          IN newWalk' = tree \ seen /\ seen' = SeenWith(tree)
    BY <1>1 DEF Walk
  <2> QED
    BY <2>1, TreeIsPast DEF SeenWith
<1>2. CASE Resolve
  <2>1. PICK unknown \in Unknowns :
          newHolders' = Fresh({Current(p) : p \in {q \in holders \ unknown : Listed(q)}})
    BY <1>2 DEF Resolve
  <2>2. \A id \in newHolders' : Past(id)
    BY <2>1, CurrentIsId DEF Fresh, SweepKinds
  <2> QED
    BY <1>2, <2>2 DEF Resolve, SeenWith
<1>3. CASE ~ Walk /\ ~ Resolve
  BY <1>3 DEF Step, Snapshot, Scan, GroupSignal, KillWalk, KillHolder, KillConfirmed, Shoot, NextPass,
     Finish, sweepVars
<1> QED
  BY <1>1, <1>2, <1>3

LEMMA KeepsPast ==
  ASSUME TableTypeOK, SweepKinds, SweepShape, HoldersInherit, AllPast, Next
  PROVE  AllPast'
<1>1. \A id \in ProcessId : Past(id) => Past(id)'
  BY NextFades DEF Fades
<1>2. RootId \in ProcessId /\ RootId' = RootId /\ Past(RootId)'
  BY <1>1, RootIsThere DEF AllPast, RootId, RootToken
<1>3. \A id \in seen \cup reached : id \in ProcessId /\ Past(id)'
  BY <1>1 DEF AllPast, SweepKinds
<1>4. CASE Host
  BY <1>2, <1>3, <1>4, HostMoves DEF AllPast, sweepVars, histVars
<1>5. CASE Step
  <2>1. \A id \in seen' \ seen : id \in ProcessId /\ Past(id)'
    <3>1. seen' \subseteq ProcessId
      BY <1>5, StepKinds, StepEffect DEF SweepKinds
    <3> QED
      BY <1>1, <1>2, <1>5, <3>1, SeenGrows
  <2>2. ASSUME NEW id \in reached' \ reached PROVE Past(id)'
    <3>1. id \in ProcessId /\ Exists(id)
      BY <1>5, <2>2, StepEffect
    <3>2. token[id[1]] = id[2] /\ id[2] \in Nat
      BY <3>1, SettingFacts DEF Exists, Current, ProcessId, TableTypeOK
    <3> QED
      BY <1>1, <3>1, <3>2 DEF Past
  <2> QED
    BY <1>2, <1>3, <2>1, <2>2 DEF AllPast
<1> QED
  BY <1>4, <1>5 DEF Next

-----------------------------------------------------------------------------
(* The marker channel: an identity that kill_holder confirmed, and that    *)
(* still exists when it takes aim, is the holder that was asked.           *)
LEMMA KeepsHeld ==
  ASSUME TableTypeOK, SweepKinds, SweepShape, HoldersInherit, AllPast, HeldHolds, Next
  PROVE  HeldHolds'
<1>1. ASSUME held' = held, held # NoAim PROVE HeldHolds'
  <2>1. held \in ProcessId /\ Fades(held) /\ genuine \subseteq genuine'
    BY <1>1, NextFades DEF SweepKinds
  <2> QED
    BY <1>1, <2>1 DEF HeldHolds, Fades
<1>2. ASSUME held' # held, held' # NoAim PROVE HeldHolds'
  <2>1. KillHolder
    <3>1. CASE Host
      BY <1>2, <3>1, HostMoves DEF passVars
    <3>2. CASE KillConfirmed
      BY <1>2, <3>2, AimAnswers DEF KillConfirmed
    <3>3. CASE Step /\ ~ KillConfirmed
      BY <1>2, <3>3 DEF Step, Snapshot, Walk, Scan, Resolve, GroupSignal, KillWalk, Shoot,
         NextPass, Finish, passVars
    <3> QED
      BY <3>1, <3>2, <3>3 DEF Next
  <2>2. held' \in newHolders /\ Holds(held'[1])
    BY <1>2, <2>1 DEF KillHolder, Query
  <2>3. held' \in ProcessId /\ Past(held') /\ Current(held'[1]) \in genuine
    BY <2>2 DEF SweepKinds, AllPast, HoldersInherit, Holds
  <2>4. /\ held'[1] \in Pid /\ held'[2] \in Nat /\ token[held'[1]] \in Nat
        /\ held' = <<held'[1], held'[2]>>
    BY <2>3, SettingFacts DEF ProcessId, TableTypeOK
  <2>5. held' \in genuine \/ held'[2] < token[held'[1]]
    <3>1. CASE held'[2] = token[held'[1]]
      BY <2>3, <2>4, <3>1 DEF Current
    <3> QED
      BY <2>3, <2>4, <3>1 DEF Past
  <2>6. UNCHANGED <<genuine, token>>
    BY <2>1, StepEffect DEF Step
  <2> QED
    BY <2>5, <2>6 DEF HeldHolds
<1> QED
  BY <1>1, <1>2 DEF HeldHolds

LEMMA KeepsGenuine ==
  ASSUME TableTypeOK, SweepKinds, SweepShape, HoldersInherit, HeldHolds, HoldersAreGenuine, Next
  PROVE  HoldersAreGenuine'
<1>1. genuine \subseteq genuine'
  BY NextFades
<1>2. CASE KillConfirmed
  <2>1. viaMarker' \subseteq viaMarker \cup {id \in {held} : Exists(id)}
    BY <1>2, AimAnswers DEF KillConfirmed
  <2>2. Exists(held) => held \in genuine
    <3>1. held \in ProcessId /\ held # NoAim
      BY <1>2 DEF KillConfirmed, SweepKinds
    <3>2. held[2] \in Nat
      BY <3>1, SettingFacts DEF ProcessId, TableTypeOK
    <3>3. Exists(held) => token[held[1]] = held[2]
      BY DEF Exists, Current
    <3> QED
      BY <3>1, <3>2, <3>3 DEF HeldHolds
  <2> QED
    BY <1>1, <2>1, <2>2 DEF HoldersAreGenuine
<1>3. CASE ~ KillConfirmed
  <2>1. viaMarker' = viaMarker
    BY <1>3, HostMoves DEF Next, Step, Snapshot, Walk, Scan, Resolve, GroupSignal, KillWalk, KillHolder,
       Shoot, NextPass, Finish, histVars, shotVars
  <2> QED
    BY <1>1, <2>1 DEF HoldersAreGenuine
<1> QED
  BY <1>2, <1>3

(* A pid changes hands by a fork, and a fork is given the latest token or  *)
(* a newer one.                                                            *)
LEMMA ForksAreLate ==
  ASSUME TableTypeOK, SweepKinds, HoldersInherit, Host
  PROVE  /\ now <= now' /\ SameTick' = SameTick
         /\ \A r \in Pid : token'[r] = token[r] \/ Late(token'[r], now)
<1>1. PICK p \in Pid, q \in Pid : HostMove(p, q)
  BY HostMoves
<1>2. SameTick' = SameTick
  BY HostEffect DEF SameTick
<1>3. now \in Nat
  BY SettingFacts DEF TableTypeOK
<1>4. CASE HostFork(p, q)
  <2>1. PICK t \in IF SameTick THEN {now, now + 1} ELSE {now + 1} :
          now' = t /\ token' = [token EXCEPT ![q] = t]
    BY <1>4 DEF HostFork, Fork
  <2>2. now <= t /\ Late(t, now)
    BY <1>3, <2>1 DEF Late
  <2> QED
    BY <1>2, <2>1, <2>2 DEF TableTypeOK
<1>5. CASE HostExit(p) \/ HostSetsid(p) \/ HostClose(p) \/ HostExec(p) \/ HostCollect(p)
  <2>1. UNCHANGED <<now, token>>
    BY <1>5 DEF HostExit, HostSetsid, HostClose, HostExec, HostCollect, Exit, Collect, tableVars
  <2> QED
    BY <1>2, <1>3, <2>1
<1> QED
  BY <1>1, <1>4, <1>5 DEF HostMove

LEMMA KeepsFresh ==
  ASSUME TableTypeOK, SweepKinds, SweepShape, HoldersInherit, AimIsFresh, Next
  PROVE  AimIsFresh'
<1>1. now \in Nat /\ since \in Nat /\ \A p \in Pid : token[p] \in Nat
  BY SettingFacts DEF TableTypeOK, SweepKinds
<1>2. CASE Host
  <2>1. UNCHANGED <<since, aim>>
    BY <1>2, HostMoves DEF passVars, histVars, shotVars
  <2>2. /\ now <= now' /\ SameTick' = SameTick
        /\ \A r \in Pid : token'[r] = token[r] \/ Late(token'[r], now)
    BY <1>2, ForksAreLate
  <2>3. now' \in Nat /\ \A r \in Pid : token'[r] \in Nat
    <3>1. TableTypeOK' /\ setting' = setting
      BY <1>2, HostEffect
    <3>2. Token' = Token /\ Token \subseteq Nat
      BY <3>1, SettingFacts DEF Token, MaxToken, TableTypeOK
    <3> QED
      BY <3>1, <3>2 DEF TableTypeOK
  <2>4. since' <= now'
    BY <1>1, <2>1, <2>2, <2>3 DEF AimIsFresh
  <2>5. ASSUME aim # NoAim
        PROVE  token'[aim[1]] = aim[2] \/ Late(token'[aim[1]], since)
    <3>1. aim[1] \in Pid
      BY <2>5 DEF SweepKinds, ProcessId
    <3>2. CASE token'[aim[1]] = token[aim[1]]
      BY <2>5, <3>2 DEF AimIsFresh
    <3>3. CASE Late(token'[aim[1]], now)
      BY <1>1, <2>3, <3>1, <3>3 DEF AimIsFresh, Late
    <3> QED
      BY <2>2, <3>1, <3>2, <3>3
  <2> QED
    BY <2>1, <2>2, <2>4, <2>5 DEF AimIsFresh, Late
<1>3. CASE Step
  <2>1. UNCHANGED <<now, token>> /\ SameTick' = SameTick
    BY <1>3, StepEffect DEF SameTick
  <2>2. ASSUME NEW id, TakeAim(id) PROVE AimIsFresh'
    <3>1. (aim' = id /\ Exists(id) /\ since' = now) \/ (aim' = aim /\ since' = since)
      BY <2>2, AimAnswers
    <3>2. Exists(id) => token[id[1]] = id[2]
      BY DEF Exists, Current
    <3> QED
      BY <1>1, <2>1, <3>1, <3>2 DEF AimIsFresh, Late
  <2>3. CASE KillWalk \/ KillConfirmed
    BY <2>2, <2>3 DEF KillWalk, KillConfirmed
  <2>4. CASE Shoot
    BY <1>1, <2>1, <2>4 DEF Shoot, AimIsFresh
  <2>5. CASE UNCHANGED <<aim, since>>
    BY <2>1, <2>5 DEF AimIsFresh, Late
  <2> QED
    BY <1>3, <2>3, <2>4, <2>5 DEF Step, Snapshot, Walk, Scan, Resolve, GroupSignal, KillHolder, NextPass,
       Finish, passVars, shotVars
<1> QED
  BY <1>2, <1>3 DEF Next

(* Who is hit in place of an aim came to its pid after the verification.   *)
LEMMA KeepsStrays ==
  ASSUME TableTypeOK, SweepKinds, HoldersInherit, AimIsFresh, StraysAreLate, Next
  PROVE  StraysAreLate'
<1>1. SameTick' = SameTick
  BY NextFades DEF SameTick
<1>2. CASE Shoot
  <2>1. PICK ids \in SUBSET ProcessId :
          /\ ids \subseteq {Current(aim[1])}
          /\ strays' = strays \cup ((ids \ {aim}) \X {since})
    BY <1>2, ShotAnswers
  <2>2. ASSUME NEW s \in (ids \ {aim}) \X {since} PROVE Late(s[1][2], s[2])
    <3>1. s[1] = <<aim[1], token[aim[1]]>> /\ s[1] # aim /\ s[2] = since
      BY <2>1, <2>2 DEF Current
    <3>2. aim \in ProcessId /\ aim = <<aim[1], aim[2]>>
      BY <1>2 DEF Shoot, SweepKinds, ProcessId
    <3>3. aim # NoAim /\ token[aim[1]] # aim[2]
      BY <1>2, <3>1, <3>2 DEF Shoot
    <3> QED
      BY <3>1, <3>3 DEF AimIsFresh
  <2> QED
    BY <1>1, <2>1, <2>2 DEF StraysAreLate, Late
<1>3. CASE ~ Shoot
  <2>1. strays' = strays
    BY <1>3, HostMoves DEF Next, Step, Snapshot, Walk, Scan, Resolve, GroupSignal, KillWalk, KillHolder,
       KillConfirmed, NextPass, Finish, histVars, shotVars
  <2> QED
    BY <1>1, <2>1 DEF StraysAreLate
<1> QED
  BY <1>2, <1>3

-----------------------------------------------------------------------------
(* Nobody the sweep has met is dropped: an identity leaves the sweep's     *)
(* hand reached, gone, or noted as a gap.                                  *)
LEMMA KeepsSeen ==
  ASSUME TableTypeOK, SweepKinds, SweepShape, HoldersInherit, AllPast, SeenAreReached, Next
  PROVE  SeenAreReached'
<1>1. \A id \in seen : id \in ProcessId /\ (Member(id)' => Member(id))
  BY NextFades DEF SweepKinds, Fades, AllPast
<1>2. CASE Host
  BY <1>1, <1>2, HostMoves DEF SeenAreReached, Hand, passVars, sweepVars, histVars
<1>3. CASE Step
  <2>1. (incomplete => incomplete') /\ reached \subseteq reached'
    <3>1. reached \subseteq reached'
      BY <1>3, StepEffect
    <3>2. incomplete => incomplete'
      BY <1>3 DEF Step, Snapshot, Walk, Scan, Resolve, GroupSignal, KillWalk, KillHolder, KillConfirmed,
         Shoot, TakeAim, Query, Note, NextPass, Finish, sweepVars
    <3> QED
      BY <3>1, <3>2
  <2>2. \A id \in seen' \ seen : id \in newWalk' \cup newHolders'
    BY <1>3, SeenGrows
  <2> SUFFICES ASSUME ~ incomplete', NEW id \in seen, Member(id)', id \notin reached', id \in Hand
               PROVE  id \in Hand'
    BY <1>1, <2>1, <2>2 DEF SeenAreReached, Hand
  <2>3. id \in ProcessId /\ id # NoAim /\ Running(id)' /\ id[1] \in holds /\ Exists(id)
    <3>1. id \in ProcessId /\ Member(id) /\ Running(id)'
      BY <1>1 DEF Member
    <3> QED
      BY <3>1, RootIsThere DEF Member, Running
  <2>4. CASE Snapshot \/ Scan \/ GroupSignal \/ NextPass \/ Finish
    BY <2>4 DEF Snapshot, Scan, GroupSignal, NextPass, Finish, Hand, passVars
  <2>5. CASE Walk
    BY <2>5 DEF Walk, SweepShape, Hand
  <2>6. CASE Resolve
    BY <2>6 DEF Resolve, SweepShape, Hand
  <2>7. CASE KillWalk
    <3>1. PICK i \in newWalk : newWalk' = newWalk \ {i} /\ TakeAim(i)
      BY <2>7 DEF KillWalk
    <3>2. i # id \/ aim' = id
      BY <2>3, <3>1, AimAnswers
    <3> QED
      BY <2>3, <2>7, <3>1, <3>2 DEF KillWalk, Hand
  <2>8. CASE KillHolder
    <3>1. PICK i \in newHolders : newHolders' = newHolders \ {i} /\ Query(i)
      BY <2>8 DEF KillHolder
    <3>2. UNCHANGED <<newWalk, aim>> /\ held = NoAim
      BY <2>8 DEF KillHolder
    <3>3. CASE i = id
      <4>1. Holds(id[1])
        BY <2>3, <1>1 DEF Member, Running, Holds, Alive
      <4>2. held' = id
        BY <3>1, <3>3, <4>1 DEF Query, Note
      <4> QED
        BY <2>3, <4>2 DEF Hand
    <3> QED
      BY <3>1, <3>2, <3>3 DEF Hand
  <2>9. CASE KillConfirmed
    <3>1. TakeAim(held) /\ UNCHANGED <<newWalk, newHolders>> /\ aim = NoAim
      BY <2>9 DEF KillConfirmed
    <3>2. held # id \/ aim' = id
      BY <2>3, <3>1, AimAnswers
    <3> QED
      BY <2>3, <3>1, <3>2 DEF Hand
  <2>10. CASE Shoot
    <3>1. UNCHANGED <<newWalk, newHolders>> /\ held \in {NoAim, aim}
      BY <2>10 DEF Shoot, SweepShape
    <3>2. aim # id
      BY <2>3, <2>10, ShotAnswers
    <3> QED
      BY <3>1, <3>2 DEF Hand
  <2> QED
    BY <1>3, <2>4, <2>5, <2>6, <2>7, <2>8, <2>9, <2>10 DEF Step
<1> QED
  BY <1>2, <1>3 DEF Next

(* Who was reached by a SIGKILL runs no more.                              *)
LEMMA KeepsDown ==
  ASSUME TableTypeOK, SweepKinds, HoldersInherit, AllPast, ReachedAreDown, Next
  PROVE  ReachedAreDown'
<1>1. Signal' = Signal
  BY NextFades DEF Signal
<1>2. \A id \in reached : Running(id)' => Running(id)
  BY NextFades DEF SweepKinds, Fades, AllPast
<1>3. Signal = "SIGKILL" => \A id \in reached' \ reached : ~ Running(id)'
  BY StepEffect, HostMoves DEF Next, histVars
<1> QED
  BY <1>1, <1>2, <1>3 DEF ReachedAreDown

(* A group signal that broke down stays in the group's result.             *)
LEMMA KeepsBreaks ==
  ASSUME SweepKinds, BreaksShow, Next
  PROVE  BreaksShow'
<1>1. CASE GroupSignal
  <2>1. \/ UNCHANGED <<groupResult, broken>>
        \/ \E r \in {"Ok"} \cup Failure : groupResult' = Fold(groupResult, r)
                                          /\ broken' = (broken \/ IsMechanismFailure(r))
    BY <1>1 DEF GroupSignal
  <2>2. CASE UNCHANGED <<groupResult, broken>>
    BY <2>2 DEF BreaksShow, IsMechanismFailure
  <2>3. ASSUME NEW r \in {"Ok"} \cup Failure, groupResult' = Fold(groupResult, r),
               broken' = (broken \/ IsMechanismFailure(r)), broken'
        PROVE  IsMechanismFailure(groupResult)'
    <3>1. IsMechanismFailure(groupResult) \/ IsMechanismFailure(r)
      BY <2>3 DEF BreaksShow
    <3>2. IsMechanismFailure(Fold(groupResult, r))
      BY <3>1, FoldKinds DEF SweepKinds
    <3> QED
      BY <2>3, <3>2 DEF IsMechanismFailure
  <2> QED
    BY <2>1, <2>2, <2>3 DEF BreaksShow
<1>2. CASE ~ GroupSignal
  <2>1. UNCHANGED <<groupResult, broken>>
    BY <1>2, HostMoves DEF Next, Step, Snapshot, Walk, Scan, Resolve, KillWalk, KillHolder, KillConfirmed,
       Shoot, NextPass, Finish, sweepVars, histVars
  <2> QED
    BY <2>1 DEF BreaksShow, IsMechanismFailure
<1> QED
  BY <1>1, <1>2

-----------------------------------------------------------------------------
(* Where nobody leaves, nobody is overlooked.                              *)

(* A snapshot starts over: whom the sweep has met is reached, hence down,  *)
(* so that an open process is one it has yet to meet.                      *)
LEMMA SnapshotFindsTheOpen ==
  ASSUME TableTypeOK, SweepKinds, SweepShape, SeenAreReached, ReachedAreDown, Signal = "SIGKILL",
         Snapshot, ~ incomplete', NEW p \in Pid, Open(p)'
  PROVE  Found(p)'
<1>1. Open(p) /\ UNCHANGED <<state, token, holds, opaque, seen>> /\ Step
  BY DEF Snapshot, ReachNobody, hostVars, tableVars, Open, Step
<1>2. Member(Current(p)) /\ Running(Current(p))
  BY <1>1 DEF Open, Member, Running, Exists, Current, Listed
<1>3. Hand = {} /\ ~ incomplete
  BY DEF Snapshot, SweepShape, Hand
<1>4. Current(p) \notin seen
  BY <1>2, <1>3 DEF SeenAreReached, ReachedAreDown
<1>5. pc' = "walk" /\ p \in unscanned'
  <2>1. pc' = "walk" /\ blind' = FALSE
    BY DEF Snapshot, SweepKinds
  <2>2. Listed(p)
    BY <1>1 DEF Open, Listed
  <2>3. <<p, ppid[p]>> \in snap'
    BY <2>1, <2>2 DEF Snapshot
  <2>4. p \in {e[1] : e \in snap'}
    BY <2>3
  <2> QED
    BY <2>1, <2>4 DEF Snapshot
<1> QED
  BY <1>1, <1>4, <1>5 DEF Found, Current

LEMMA KeepsNoneOverlooked ==
  ASSUME TableTypeOK, SweepKinds, SweepShape, HoldersInherit, AllPast, SeenAreReached, ReachedAreDown,
         NoneOverlooked, Next
  PROVE  NoneOverlooked'
<1>1. Leaves' = Leaves /\ Signal' = Signal
  BY NextFades DEF Leaves, Signal
<1> DEFINE Settled == \/ pc \in {"idle", "snapshot"} \/ incomplete \/ progressed \/ Hand # {}
                      \/ \A p \in Pid : ~ Open(p)
                      \/ \E p \in Pid : Open(p) /\ Found(p)
<1> SUFFICES ASSUME Leaves = {}, Signal = "SIGKILL"
             PROVE  Settled'
  BY <1>1 DEF NoneOverlooked
<1>2. Settled
  BY DEF NoneOverlooked
<1>3. CASE Host
  <2>1. UNCHANGED <<pc, passVars, sweepVars>>
    BY <1>3, HostMoves
  <2>2. CASE pc = "idle"
    BY <2>1, <2>2
  <2>3. CASE pc # "idle"
    <3>1. /\ \A r \in Pid : Open(r) => Open(r)' /\ Current(r)' = Current(r)
          /\ (\A r \in Pid : ~ Open(r)) => \A r \in Pid : ~ Open(r)'
      BY <1>3, <2>3, HostLeavesNobody
    <3>2. \A r \in Pid : Open(r) /\ Found(r) => Open(r)' /\ Found(r)'
      BY <2>1, <3>1 DEF Found, passVars, sweepVars
    <3> QED
      BY <1>2, <2>1, <3>1, <3>2 DEF Hand, passVars, sweepVars
  <2> QED
    BY <2>2, <2>3
<1>4. CASE Step
  <2>1. \A p \in Pid : (Open(p)' => Open(p)) /\ Current(p)' = Current(p)
    BY <1>4, StepFades
  <2>2. CASE Snapshot
    BY <2>2, SnapshotFindsTheOpen
  <2>3. CASE Walk
    <3>1. PICK unknown \in Unknowns :
            LET tree == IF rootDenied THEN {} ELSE {RootId} \cup Descendants(unknown)
            IN newWalk' = tree \ seen /\ seen' = SeenWith(tree)
      BY <2>3 DEF Walk
    <3>2. seen' = seen \/ newWalk' # {}
      BY <3>1 DEF SeenWith
    <3>3. (incomplete => incomplete') /\ (newHolders' = newHolders) /\ newWalk = {}
          /\ UNCHANGED <<held, aim, progressed, unscanned, holders>> /\ pc = "walk" /\ pc' = "scan"
          /\ ReachNobody
      BY <2>3 DEF Walk, SweepShape
    <3>4. \A p \in Pid : Open(p)' = Open(p)
      BY <3>3 DEF ReachNobody, hostVars, tableVars, Open
    <3>5. CASE newWalk' # {}
      BY <3>5 DEF Hand
    <3>6. CASE newWalk' = {}
      <4>1. \A p \in Pid : Found(p) => Found(p)'
        BY <2>1, <3>2, <3>3, <3>6 DEF Found
      <4> QED
        BY <1>2, <3>3, <3>4, <3>6, <4>1 DEF Hand
    <3> QED
      BY <3>5, <3>6
  <2>4. CASE Scan
    <3>1. /\ UNCHANGED <<progressed, incomplete, newWalk, newHolders, held, aim, seen>> /\ ReachNobody
          /\ pc = "scan" /\ pc' \in {"scan", "resolve"}
      BY <2>4 DEF Scan, sweepVars
    <3>2. \A p \in Pid : Open(p)' = Open(p)
      BY <3>1 DEF ReachNobody, hostVars, tableVars, Open
    <3>3. \A p \in Pid : Open(p) => (p \in unscanned \cup holders => p \in unscanned' \cup holders')
      BY <2>4 DEF Scan, Open, Holds, Denies, Alive
    <3>4. \A p \in Pid : Open(p) /\ Found(p) => Found(p)'
      BY <2>1, <3>1, <3>3 DEF Found
    <3> QED
      BY <1>2, <3>1, <3>2, <3>4 DEF Hand
  <2>5. CASE Resolve
    <3>1. PICK unknown \in Unknowns :
            /\ newHolders' = Fresh({Current(p) : p \in {q \in holders \ unknown : Listed(q)}})
            /\ incomplete' = (incomplete \/ holders \cap unknown # {})
      BY <2>5 DEF Resolve
    <3>2. /\ UNCHANGED <<progressed, newWalk, held, aim>> /\ ReachNobody
          /\ pc = "resolve" /\ unscanned = {} /\ newHolders = {}
      BY <2>5 DEF Resolve, SweepShape
    <3>3. ASSUME NEW p \in Pid, Open(p), Found(p), ~ incomplete' PROVE newHolders' # {}
      <4>1. p \in holders \ unknown /\ Listed(p) /\ Current(p) \notin seen
        BY <3>1, <3>2, <3>3 DEF Open, Found, Listed
      <4>2. Current(p) \in newHolders'
        BY <3>1, <4>1 DEF Fresh
      <4> QED
        BY <4>2
    <3>4. (newHolders' # {} => Hand' # {}) /\ (Hand # {} => Hand' # {})
      BY <3>2 DEF Hand
    <3>5. \A p \in Pid : ~ Open(p) => ~ Open(p)'
      BY <2>1
    <3> QED
      BY <1>2, <3>1, <3>2, <3>3, <3>4, <3>5
  <2>6. CASE GroupSignal
    <3>1. UNCHANGED <<incomplete, progressed, newWalk, newHolders, held, aim>> /\ pc = "group"
      BY <2>6 DEF GroupSignal
    <3> QED
      BY <1>2, <2>1, <3>1 DEF Hand, Found
  <2>7. CASE KillWalk
    <3>1. PICK i \in newWalk : TakeAim(i)
      BY <2>7 DEF KillWalk
    <3>2. i # NoAim
      BY RootIsThere DEF SweepKinds
    <3>3. aim' = i \/ progressed' \/ incomplete'
      BY <3>1, AimAnswers
    <3> QED
      BY <3>2, <3>3 DEF Hand
  <2>8. CASE KillHolder
    <3>1. PICK i \in newHolders : Query(i)
      BY <2>8 DEF KillHolder
    <3>2. i \in ProcessId /\ i # NoAim
      BY RootIsThere DEF SweepKinds
    <3>3. Hand' # {} \/ progressed' \/ incomplete'
      BY <3>1, <3>2 DEF Query, Note, Hand
    <3> QED
      BY <3>3
  <2>9. CASE KillConfirmed
    <3>1. TakeAim(held) /\ held # NoAim
      BY <2>9 DEF KillConfirmed
    <3>2. aim' = held \/ progressed' \/ incomplete'
      BY <3>1, AimAnswers
    <3> QED
      BY <3>1, <3>2 DEF Hand
  <2>12. CASE Shoot
    BY <2>12, ShotAnswers
  <2>10. CASE NextPass
    BY <2>10 DEF NextPass
  <2>11. CASE Finish
    <3>1. UNCHANGED <<incomplete, progressed, newWalk, newHolders, held, aim>> /\ pc = "kill"
      BY <2>11 DEF Finish, PassDone, passVars
    <3> QED
      BY <1>2, <2>1, <3>1 DEF Hand, Found
  <2> QED
    BY <1>4, <2>2, <2>3, <2>4, <2>5, <2>6, <2>7, <2>8, <2>9, <2>10, <2>11, <2>12 DEF Step
<1> QED
  BY <1>3, <1>4 DEF Next

-----------------------------------------------------------------------------
(* The invariant, from the first state on.                                 *)
Inv == TypeOK /\ SweepInv

LEMMA InitInv == Init => Inv
<1> SUFFICES ASSUME Init
             PROVE  Inv
  OBVIOUS
<1>1. TableTypeOK /\ Root \in Pid /\ RootId \in ProcessId
  BY InitTypes, RootIsThere DEF Init
<1>2. TypeOK
  BY <1>1, SettingFacts DEF Init, TypeOK, TableTypeOK, Failure
<1>3. Current(Root) = RootId /\ genuine = {RootId} /\ RootToken \in Nat
  BY <1>1 DEF Init, TableInit, Current, RootId, RootToken
<1>4. SweepShape /\ HeldHolds /\ AimIsFresh /\ HoldersAreGenuine /\ StraysAreLate
  <2>1. now = RootToken
    BY DEF Init, TableInit
  <2> QED
    BY <2>1 DEF Init, SweepShape, HeldHolds, AimIsFresh, HoldersAreGenuine, StraysAreLate, RootToken
<1>5. AllPast
  <2>1. Past(RootId)
    BY <1>1, <1>3 DEF Past, Current, RootId
  <2> QED
    BY <2>1 DEF Init, AllPast
<1>6. HoldersInherit
  BY <1>3 DEF Init, HoldersInherit
<1>7. SeenAreReached /\ ReachedAreDown /\ BreaksShow /\ NoneOverlooked
  BY DEF Init, SeenAreReached, ReachedAreDown, BreaksShow, NoneOverlooked
<1> QED
  BY <1>2, <1>4, <1>5, <1>6, <1>7 DEF Inv, SweepInv

LEMMA NextInv == Inv /\ Next => Inv'
<1> SUFFICES ASSUME Inv, Next
             PROVE  Inv'
  OBVIOUS
<1>1. /\ TableTypeOK /\ SweepKinds /\ SweepShape /\ AllPast /\ HoldersInherit /\ HeldHolds
      /\ AimIsFresh /\ HoldersAreGenuine /\ StraysAreLate
      /\ SeenAreReached /\ ReachedAreDown /\ BreaksShow /\ NoneOverlooked
  BY KindsAreTypes DEF Inv, SweepInv
<1>2. TableTypeOK' /\ HoldersInherit'
  BY <1>1, NextFades
<1>3. SweepKinds'
  BY <1>1, StepKinds, HostKinds DEF Next
<1>4. TypeOK'
  BY <1>2, <1>3, KindsAreTypes
<1>5. SweepShape' /\ AllPast' /\ HeldHolds' /\ HoldersAreGenuine'
  BY <1>1, KeepsShape, KeepsPast, KeepsHeld, KeepsGenuine
<1>7. AimIsFresh' /\ StraysAreLate'
  BY <1>1, KeepsFresh, KeepsStrays
<1>6. SeenAreReached' /\ ReachedAreDown' /\ BreaksShow' /\ NoneOverlooked'
  BY <1>1, KeepsSeen, KeepsDown, KeepsBreaks, KeepsNoneOverlooked
<1> QED
  BY <1>2, <1>4, <1>5, <1>6, <1>7 DEF Inv, SweepInv

(* A stutter changes nothing that the invariant reads.                     *)
LEMMA StutterKeepsInv == Inv /\ UNCHANGED vars => Inv'
<1> SUFFICES ASSUME Inv, UNCHANGED vars
             PROVE  Inv'
  OBVIOUS
<1>1. UNCHANGED <<tableVars, holds, pgrp, opaque, rootDenied, pc, passVars, sweepVars, histVars>>
  BY DEF vars, hostVars
<1>2. TypeOK'
  BY <1>1 DEF Inv, TypeOK, TableTypeOK, tableVars, passVars, sweepVars, histVars, shotVars, Token,
     MaxToken, ProcessId
<1>3. (SweepShape /\ AllPast /\ HoldersInherit /\ HeldHolds /\ HoldersAreGenuine)'
  BY <1>1 DEF Inv, SweepInv, SweepShape, Hand, Repeats, Signal, AllPast, Past, HoldersInherit, Current,
     HeldHolds, HoldersAreGenuine, tableVars, passVars, sweepVars, histVars, shotVars
<1>6. (AimIsFresh /\ StraysAreLate)'
  BY <1>1 DEF Inv, SweepInv, AimIsFresh, StraysAreLate, Late, SameTick, tableVars, passVars, histVars,
     shotVars
<1>4. (SeenAreReached /\ ReachedAreDown /\ BreaksShow)'
  BY <1>1 DEF Inv, SweepInv, SeenAreReached, Member, Running, Exists, Current, Listed, Hand,
     ReachedAreDown, Signal, BreaksShow, IsMechanismFailure, tableVars, passVars, sweepVars, histVars
<1>5. NoneOverlooked'
  BY <1>1 DEF Inv, SweepInv, NoneOverlooked, Leaves, Signal, Hand, Open, Found, Current,
     tableVars, passVars, sweepVars
<1> QED
  BY <1>2, <1>3, <1>4, <1>5, <1>6 DEF Inv, SweepInv

LEMMA AlwaysInv == Spec => []Inv
<1>1. Inv /\ [Next]_vars => Inv'
  BY NextInv, StutterKeepsInv
<1> QED
  BY <1>1, InitInv, PTL DEF Spec

-----------------------------------------------------------------------------
(* The sweep comes to an end: its measure is made of natural numbers, and  *)
(* each of its steps lowers it.                                            *)
LEMMA SmallestIsChosen ==
  ASSUME NEW S \in SUBSET Nat, S # {}
  PROVE  (CHOOSE p \in S : \A q \in S : p <= q) \in S
<1>1. PICK p \in S : \A q \in S : <<q, p>> \notin OpToRel(<, Nat)
  BY NatLessThanWellFounded, WFMin, Zenon
<1>2. \A q \in S : ~ (q < p)
  BY <1>1, Zenon DEF OpToRel
<1>3. \A q \in S : p <= q
  BY <1>2
<1> QED
  BY <1>3

(* How much of it there can be.                                            *)
LEMMA SizesOfTheSweep ==
  ASSUME IsFiniteSet(Pid), TableTypeOK, SweepKinds
  PROVE  /\ Identities \in Nat /\ Cardinality(seen) \in 0 .. Identities
         /\ IsFiniteSet(newWalk) /\ IsFiniteSet(newHolders) /\ IsFiniteSet(unscanned)
         /\ Cardinality(newWalk) \in Nat /\ Cardinality(newHolders) \in Nat
         /\ Cardinality(unscanned) \in Nat
         /\ IsFiniteSet(ProcessId)
<1>1. MaxToken \in Nat
  BY SettingFacts DEF TableTypeOK
<1>2. IsFiniteSet(Token) /\ Cardinality(Token) = MaxToken + 1
  BY <1>1, FS_Interval DEF Token
<1>3. IsFiniteSet(ProcessId) /\ Cardinality(ProcessId) = Identities
  BY <1>2, FS_Product DEF ProcessId, Identities
<1>4. Identities \in Nat
  BY <1>3, FS_CardinalityType
<1>5. IsFiniteSet(seen) /\ Cardinality(seen) <= Identities
  BY <1>3, FS_Subset DEF SweepKinds
<1>6. IsFiniteSet(newWalk) /\ IsFiniteSet(newHolders) /\ IsFiniteSet(unscanned)
  BY <1>5, FS_Subset DEF SweepKinds
<1> QED
  BY <1>3, <1>4, <1>5, <1>6, FS_CardinalityType

LEMMA LeftIsNatural ==
  ASSUME IsFiniteSet(Pid), TableTypeOK, SweepKinds
  PROVE  Left \in Nat \X Nat \X Nat
<1>1. 2 * (Identities - Cardinality(seen)) + (IF Busy THEN 1 ELSE 0) \in Nat
  BY SizesOfTheSweep
<1>2. Phase \in Nat
  BY DEF Phase
<1>3. (CASE pc = "scan" -> Cardinality(unscanned)
         [] pc = "kill" -> 3 * (Cardinality(newWalk) + Cardinality(newHolders))
                             + (IF aim # NoAim THEN 1 ELSE IF held # NoAim THEN 2 ELSE 0)
         [] OTHER       -> 0) \in Nat
  BY SizesOfTheSweep
<1> QED
  BY <1>1, <1>2, <1>3 DEF Left

Lower == \/ Left'[1] < Left[1]
         \/ Left'[1] = Left[1] /\ Left'[2] < Left[2]
         \/ Left'[1] = Left[1] /\ Left'[2] = Left[2] /\ Left'[3] < Left[3]

(* An identity never dealt with before outweighs everything else; without  *)
(* one, a pass that has nothing in hand any more does.                     *)
LEMMA WhatLowers ==
  ASSUME IsFiniteSet(Pid), TableTypeOK, SweepKinds, SweepShape, TableTypeOK', SweepKinds', Step
  PROVE  /\ seen' # seen => Lower
         /\ Busy /\ ~ Busy' => Lower
         /\ (Busy' => Busy) /\ Phase' < Phase => Lower
         /\ (Busy' => Busy) /\ Phase' = Phase /\ Left'[3] < Left[3] => Lower
<1> DEFINE n == Cardinality(seen)
<1>1. Identities \in Nat /\ n \in 0 .. Identities /\ Identities' = Identities /\ n' \in Nat
  <2>1. setting' = setting
    BY StepEffect
  <2>2. Identities' = Identities
    BY <2>1 DEF Identities, MaxToken
  <2>3. IsFiniteSet(ProcessId)' /\ IsFiniteSet(seen)'
    <3>1. IsFiniteSet(ProcessId) /\ ProcessId' = ProcessId
      BY SizesOfTheSweep, StepEffect
    <3> QED
      BY <3>1, FS_Subset DEF SweepKinds
  <2> QED
    BY <2>2, <2>3, SizesOfTheSweep, FS_CardinalityType
<1>2. (seen' # seen => n' > n) /\ (seen' = seen => n' = n)
  <2>1. seen \subseteq seen' /\ IsFiniteSet(seen')
    <3>1. IsFiniteSet(ProcessId) /\ ProcessId' = ProcessId /\ seen \subseteq seen'
      BY SizesOfTheSweep, StepEffect, SeenGrows
    <3> QED
      BY <3>1, FS_Subset DEF SweepKinds
  <2> QED
    BY <1>1, <2>1, FS_Subset
<1>3. /\ Left[1] = 2 * (Identities - n) + (IF Busy THEN 1 ELSE 0) /\ Left[2] = Phase
      /\ Left'[1] = 2 * (Identities - n') + (IF Busy' THEN 1 ELSE 0) /\ Left'[2] = Phase'
  BY <1>1 DEF Left
<1>4. seen' # seen => Left'[1] < Left[1]
  BY <1>1, <1>2, <1>3
<1>5. seen' = seen /\ Busy /\ ~ Busy' => Left'[1] < Left[1]
  BY <1>1, <1>2, <1>3
<1>6. seen' = seen /\ (Busy' => Busy) => Left'[1] < Left[1] \/ Left'[1] = Left[1]
  BY <1>1, <1>2, <1>3
<1> QED
  BY <1>3, <1>4, <1>5, <1>6 DEF Lower

LEMMA StepLowers ==
  ASSUME IsFiniteSet(Pid), TableTypeOK, SweepKinds, SweepShape, TableTypeOK', SweepKinds', Step
  PROVE  Lower
<1> DEFINE w == Cardinality(newWalk)
           h == Cardinality(newHolders)
<1>1. w \in Nat /\ h \in Nat /\ IsFiniteSet(newWalk) /\ IsFiniteSet(newHolders) /\ IsFiniteSet(unscanned)
  BY SizesOfTheSweep
<1>2. ASSUME NEW id \in newWalk PROVE Cardinality(newWalk \ {id}) = w - 1
  BY <1>1, FS_RemoveElement
<1>3. ASSUME NEW id \in newHolders PROVE Cardinality(newHolders \ {id}) = h - 1
  BY <1>1, FS_RemoveElement
<1>4. CASE Snapshot
  <2>1. ~ Busy' /\ Phase' < Phase
    BY <1>4 DEF Snapshot, SweepShape, Busy, InHand, Phase
  <2> QED
    BY <2>1, WhatLowers
<1>5. CASE Walk
  <2>1. PICK unknown \in Unknowns :
          LET tree == IF rootDenied THEN {} ELSE {RootId} \cup Descendants(unknown)
          IN newWalk' = tree \ seen /\ seen' = SeenWith(tree)
    BY <1>5 DEF Walk
  <2>2. seen' # seen \/ newWalk' = {}
    BY <2>1 DEF SeenWith
  <2>3. newWalk' = {} => (Busy' => Busy)
    BY <1>5 DEF Walk, SweepShape, Busy, InHand
  <2>4. Phase' < Phase
    BY <1>5 DEF Walk, Phase
  <2> QED
    BY <2>2, <2>3, <2>4, WhatLowers
<1>6. CASE Scan
  <2>1. Busy' => Busy
    BY <1>6 DEF Scan, Busy, InHand
  <2>2. CASE unscanned = {}
    <3>1. Phase' < Phase
      BY <1>6, <2>2 DEF Scan, Phase
    <3> QED
      BY <2>1, <3>1, WhatLowers
  <2>3. CASE unscanned # {}
    <3> DEFINE p == CHOOSE p \in unscanned : \A q \in unscanned : p <= q
    <3>1. p \in unscanned
      BY <2>3, SmallestIsChosen, TableAssumption DEF SweepKinds
    <3>2. unscanned' = unscanned \ {p} /\ pc = "scan" /\ pc' = "scan"
      BY <1>6, <2>3 DEF Scan
    <3>3. Cardinality(unscanned') = Cardinality(unscanned) - 1 /\ Cardinality(unscanned) \in Nat
      BY <1>1, <3>1, <3>2, FS_RemoveElement, FS_CardinalityType
    <3>4. Phase' = Phase /\ Left'[3] < Left[3]
      BY <3>2, <3>3 DEF Left, Phase
    <3> QED
      BY <2>1, <3>4, WhatLowers
  <2> QED
    BY <2>2, <2>3
<1>7. CASE Resolve
  <2>1. seen' = SeenWith(newHolders') /\ newHolders' \cap seen = {}
    BY <1>7 DEF Resolve, Fresh
  <2>2. seen' # seen \/ newHolders' = {}
    BY <2>1 DEF SeenWith
  <2>3. newHolders' = {} => (Busy' => Busy)
    BY <1>7 DEF Resolve, Busy, InHand
  <2>4. Phase' < Phase
    BY <1>7 DEF Resolve, Phase
  <2> QED
    BY <2>2, <2>3, <2>4, WhatLowers
<1>8. CASE GroupSignal \/ Finish
  <2>1. (Busy' => Busy) /\ Phase' < Phase
    BY <1>8 DEF GroupSignal, Finish, PassDone, passVars, Busy, InHand, Phase
  <2> QED
    BY <2>1, WhatLowers
<1>9. CASE KillWalk
  <2>1. PICK id \in newWalk : newWalk' = newWalk \ {id}
    BY <1>9 DEF KillWalk
  <2>2. w' = w - 1 /\ UNCHANGED <<pc, newHolders, held>> /\ pc = "kill" /\ held = NoAim /\ aim = NoAim
    BY <1>2, <1>9, <2>1 DEF KillWalk
  <2>3. Busy /\ Phase' = Phase /\ Left'[3] < Left[3]
    BY <1>1, <2>1, <2>2 DEF Busy, Phase, Left
  <2> QED
    BY <2>3, WhatLowers
<1>10. CASE KillHolder
  <2>1. PICK id \in newHolders : newHolders' = newHolders \ {id}
    BY <1>10 DEF KillHolder
  <2>2. /\ h' = h - 1 /\ UNCHANGED <<pc, newWalk, aim>> /\ pc = "kill"
        /\ held = NoAim /\ aim = NoAim
    BY <1>3, <1>10, <2>1 DEF KillHolder
  <2>3. Busy /\ Phase' = Phase /\ Left'[3] < Left[3]
    BY <1>1, <2>1, <2>2 DEF Busy, Phase, Left
  <2> QED
    BY <2>3, WhatLowers
<1>11. CASE KillConfirmed
  <2>1. /\ UNCHANGED <<pc, newWalk, newHolders>> /\ pc = "kill"
        /\ held # NoAim /\ aim = NoAim /\ held' = aim'
    BY <1>11 DEF KillConfirmed, SweepShape
  <2>2. Busy /\ Phase' = Phase /\ Left'[3] < Left[3]
    BY <1>1, <2>1 DEF Busy, InHand, Phase, Left
  <2> QED
    BY <2>2, WhatLowers
<1>13. CASE Shoot
  <2>1. /\ UNCHANGED <<pc, newWalk, newHolders>> /\ pc = "kill"
        /\ aim # NoAim /\ held' = NoAim /\ aim' = NoAim
    BY <1>13 DEF Shoot, SweepShape
  <2>2. Busy /\ Phase' = Phase /\ Left'[3] < Left[3]
    BY <1>1, <2>1 DEF Busy, InHand, Phase, Left
  <2> QED
    BY <2>2, WhatLowers
<1>12. CASE NextPass
  <2>1. Busy /\ ~ Busy'
    BY <1>12 DEF NextPass, PassDone, Repeats, Busy, InHand
  <2> QED
    BY <2>1, WhatLowers
<1> QED
  BY <1>4, <1>5, <1>6, <1>7, <1>8, <1>9, <1>10, <1>11, <1>12, <1>13 DEF Step

-----------------------------------------------------------------------------
(* The theorems.                                                           *)

(* The sweep's locals and the process table keep their types, and what a   *)
(* pass has yet to signal was entered into `seen` before.                  *)
THEOREM TypeCorrect == Spec => []TypeOK
<1>1. Inv => TypeOK
  BY DEF Inv
<1> QED
  BY <1>1, AlwaysInv, PTL

(* kill_holder, kill_by_identity: whoever is aimed at because it holds the *)
(* marker inherited it from the root, however fast the pids of dead        *)
(* members go to strangers between the scan, the query at signal time and  *)
(* the verification; and the kill(2) on the bare pid that follows hits     *)
(* another process only if that one was created after the verification.    *)
THEOREM KillsStayAimed == Spec => []KillsAreAimed
<1>1. Inv => KillsAreAimed
  BY DEF Inv, SweepInv, KillsAreAimed
<1> QED
  BY <1>1, AlwaysInv, PTL

(* finish_sweep, combine_group_errors: an Ok is given only if each member  *)
(* the sweep met was reached or is gone, and a group signal that broke     *)
(* down in any pass is what the caller is told.                            *)
THEOREM FailuresAreTold == Spec => []FailuresSurface
<1>1. Inv => FailuresSurface
  <2> SUFFICES ASSUME Inv
               PROVE  FailuresSurface
    OBVIOUS
  <2>1. SweepKinds /\ SweepShape /\ SeenAreReached /\ BreaksShow
    BY KindsAreTypes DEF Inv, SweepInv
  <2>2. KnownMembersReached
    <3> SUFFICES ASSUME verdict = "Ok"
                 PROVE  KnownMembersReached
      BY DEF KnownMembersReached
    <3>1. pc = "done" /\ verdict = IF incomplete THEN Fold("Unassessable", groupResult) ELSE groupResult
      BY <2>1 DEF SweepShape
    <3>2. ~ incomplete
      BY <2>1, <3>1, FoldKinds DEF SweepKinds, Failure
    <3>3. Hand = {}
      BY <2>1, <3>1 DEF SweepShape
    <3> QED
      BY <2>1, <3>2, <3>3 DEF SeenAreReached, KnownMembersReached
  <2>3. MechanismFailureSurfaces
    <3> SUFFICES ASSUME verdict # "none", broken
                 PROVE  IsMechanismFailure(verdict)
      BY DEF MechanismFailureSurfaces
    <3>1. verdict = IF incomplete THEN Fold("Unassessable", groupResult) ELSE groupResult
      BY <2>1 DEF SweepShape
    <3>2. IsMechanismFailure(groupResult)
      BY <2>1 DEF BreaksShow
    <3>3. IsMechanismFailure(Fold("Unassessable", groupResult))
      BY <2>1, <3>2, FoldKinds DEF SweepKinds, Failure
    <3> QED
      BY <3>1, <3>2, <3>3
  <2> QED
    BY <2>2, <2>3 DEF FailuresSurface
<1> QED
  BY <1>1, AlwaysInv, PTL

(* hard_kill: where members neither exit, close the marker nor exec, its   *)
(* loop ends with an Ok only once no running process that holds the marker *)
(* and can be queried is left, however fast the members fork.              *)
THEOREM StayersAreAllSwept == Spec => []StayersAreSwept
<1>1. Inv => StayersAreSwept
  <2> SUFFICES ASSUME Inv, Leaves = {}, verdict = "Ok", Signal = "SIGKILL",
                      NEW p \in Pid, Member(Current(p)), p \notin opaque
               PROVE  FALSE
    BY DEF StayersAreSwept, OkMeansSwept
  <2>1. SweepKinds /\ SweepShape /\ NoneOverlooked
    BY KindsAreTypes DEF Inv, SweepInv
  <2>2. /\ pc = "done" /\ Hand = {} /\ ~ Repeats
        /\ verdict = IF incomplete THEN Fold("Unassessable", groupResult) ELSE groupResult
    BY <2>1 DEF SweepShape
  <2>3. ~ incomplete /\ ~ progressed
    BY <2>1, <2>2, FoldKinds DEF SweepKinds, Failure, Repeats
  <2>4. \A q \in Pid : ~ Open(q)
    BY <2>1, <2>2, <2>3 DEF NoneOverlooked, Found
  <2>5. Open(p)
    BY DEF Member, Running, Open, Current
  <2> QED
    BY <2>4, <2>5
<1> QED
  BY <1>1, AlwaysInv, PTL

(* hard_kill, terminate: the sweep ends however fast a member that refuses *)
(* its signal forks. Over finitely many identities its measure is made of  *)
(* natural numbers, each step of the sweep lowers it, and no move of the   *)
(* host raises it.                                                         *)
THEOREM SweepEnds ==
  ASSUME IsFiniteSet(Pid)
  PROVE  Spec => CallMakesProgress /\ [](Left \in Nat \X Nat \X Nat) /\ [][Host => Left' = Left]_vars
<1>1. Inv => Left \in Nat \X Nat \X Nat
  BY LeftIsNatural, KindsAreTypes DEF Inv
<1>2. Inv /\ Inv' /\ Step => Lower
  <2> SUFFICES ASSUME Inv, Inv', Step
               PROVE  Lower
    OBVIOUS
  <2>1. TableTypeOK /\ SweepKinds /\ SweepShape /\ TableTypeOK' /\ SweepKinds'
    BY KindsAreTypes DEF Inv, SweepInv
  <2> QED
    BY <2>1, StepLowers
<1>3. Inv /\ Host => Left' = Left
  <2> SUFFICES ASSUME Inv, Host
               PROVE  Left' = Left
    OBVIOUS
  <2>1. UNCHANGED <<setting, pc, passVars, sweepVars>>
    BY HostMoves, HostEffect, KindsAreTypes DEF Inv, SweepInv
  <2> QED
    BY <2>1 DEF Left, Identities, MaxToken, Busy, InHand, Phase, passVars, sweepVars
<1>4. CallMakesProgress <=> [][Step => Lower]_vars
  BY DEF CallMakesProgress, Lower
<1> QED
  BY <1>1, <1>2, <1>3, <1>4, AlwaysInv, PTL
=============================================================================
