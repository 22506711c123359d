------------------------ MODULE GroupTeardown_proofs ------------------------
(***************************************************************************)
(* What signal_group reports of the group is the truth, and no signal goes *)
(* to a stranger or twice to a member: for any host, group and call.       *)
(***************************************************************************)
EXTENDS GroupTeardown, ProcessTable_proofs, FiniteSetTheorems

-----------------------------------------------------------------------------
(* The inductive invariant.                                                *)

(* Where the call stands.                                                  *)
CallShape ==
  /\ pc = "idle" => present = {} /\ heard = {} /\ reached = {} /\ listed = {}
  /\ pc = "direct" /\ Signal = "SIGTERM" => reached = {}
  /\ pc \notin {"verify", "send", "reconfirm"} => member = NoMember
  /\ pc \in {"verify", "send", "reconfirm"} => member # NoMember
  /\ pc \in {"idle", "direct", "list"} => verdict = "none"
  /\ pc \in {"verify", "send", "reconfirm", "query"} => unscanned = {} /\ verdict = "none"
  /\ listed \cup ({member} \ {NoMember}) \subseteq heard
  /\ verdict = "Ok" => pc = "done" /\ listed = {} /\ unscanned = {} /\ refused = {} /\ unassessable = {}

(* The identities the call deals with were all handed out.                 *)
AllPast == \A id \in present \cup heard \cup reached : Past(id)

(* A leader is in its group for as long as it lives.                       *)
LeaderStays == \A id \in present \cup heard : id[1] = Root /\ Running(id) => pgrp[Root] = Root

(* A member that can still run was reached, gave a reason to report less   *)
(* than Ok, or has its turn to come. A probe tells of members of the time  *)
(* of killpg only: it sends nothing to those who joined later.             *)
TurnToCome(id) == id \in listed \/ id = member \/ (pc \in {"direct", "list"} /\ id[1] \in unscanned)

Answered(id) == \/ id \in reached \/ id \in refused \/ id \in unassessable \/ TurnToCome(id)
                \/ (pc = "done" /\ verdict # "Ok")
Concerns(id) == Remains(id) /\ (Signal = "SIGTERM" => id \in present)
Accounted == \A id \in present \cup heard : Concerns(id) => Answered(id)

(* Who was reached by a SIGKILL runs no more.                              *)
ReachedAreDown == Signal = "SIGKILL" => \A id \in reached : ~ Running(id)

(* Whom killpg did not reach answers EPERM to the probe as well.           *)
UnreachedRefuse == Signal = "SIGTERM" => \A id \in present :
  Running(id) /\ id \notin reached => kind[id[1]] \in {"foreign", "opaque"}

KindsOccur == \A p \in Pid : kind[p] \in Kinds \cup {"plain"}

(* While the leader is not collected its pid is its own, and the group is  *)
(* a part of the tree.                                                     *)
LeaderPinned == ~ RootReaped => Listed(Root) /\ token[Root] = RootToken
GroupIsOurs == ~ RootReaped =>
  /\ RootId \in genuine
  /\ \A p \in Pid : InGroup(p) => Current(p) \in genuine
  /\ heard \subseteq genuine

(* A macOS kernel process is no member of a tree, and no exec changes the  *)
(* credentials of a member in the middle of a SIGTERM.                     *)
TermHosts == \A s \in Settings : s.signal = "SIGTERM" => ~ s.setuid /\ "system" \notin s.kinds

(* A listed pid is one member's, and each member has one turn.             *)
OneTurnEach ==
  /\ \A a, b \in heard : a[1] = b[1] => a = b
  /\ \A a \in heard : a[1] \notin unscanned
  /\ member \notin listed
  /\ refused \subseteq heard /\ refused \cap (listed \cup {member}) = {}
  /\ pc \in {"idle", "direct", "list"} => refused = {}

(* Where RefusersWereSpared is promised: whom the call reached takes its   *)
(* signals for as long as it exists, so a member that was reached and is   *)
(* said to refuse has gone, and the next to hold its pid can be queried.   *)
Promised == /\ Signal = "SIGKILL" \/ ~ Setuid
            /\ "opaque" \notin Kinds \/ (Signal = "SIGKILL" /\ Pidfd)
ReachedTakeSignals == \A id \in reached : Exists(id) => Signalable(id[1])
DoubtIsDue == pc = "reconfirm" /\ member \in reached => ~ Exists(member) /\ "opaque" \notin Kinds
RefusalInv == Promised => ReachedTakeSignals /\ DoubtIsDue /\ refused \cap reached = {}

AimInv == CallShape /\ AllPast /\ LeaderPinned /\ GroupIsOurs /\ SignalsAreAimed
TruthInv == LeaderStays /\ Accounted /\ ReachedAreDown /\ UnreachedRefuse /\ KindsOccur

-----------------------------------------------------------------------------
(* The kinds of the call's variables.                                      *)
CallKinds ==
  /\ pgrp \in [Pid -> Pid \cup {NoGroup}] /\ kind \in [Pid -> Kind]
  /\ pc \in {"idle", "direct", "list", "query", "verify", "send", "reconfirm", "done"}
  /\ unscanned \subseteq Pid
  /\ listed \subseteq ProcessId /\ refused \subseteq ProcessId /\ unassessable \subseteq ProcessId
  /\ present \subseteq ProcessId /\ heard \subseteq ProcessId /\ unseen \subseteq ProcessId
  /\ reached \subseteq ProcessId /\ again \subseteq ProcessId
  /\ member \in ProcessId \cup {NoMember} /\ verdict \in Verdict

LEMMA KindsAreTypes == /\ TypeOK <=> TableTypeOK /\ CallKinds
                       /\ TypeOK' <=> TableTypeOK' /\ CallKinds'
<1>1. TypeOK <=> TableTypeOK /\ CallKinds
  BY DEF TypeOK, CallKinds
<1>2. TypeOK' <=> TableTypeOK' /\ CallKinds'
  BY DEF TypeOK, CallKinds
<1> QED
  BY <1>1, <1>2

LEMMA RootIsThere == TableTypeOK => Root \in Pid /\ RootId \in ProcessId /\ NoMember \notin ProcessId
BY SettingFacts, TableAssumption DEF TableTypeOK, RootId, ProcessId, NoMember

LEMMA CurrentIsId == ASSUME TableTypeOK, NEW p \in Pid PROVE Current(p) \in ProcessId /\ Past(Current(p))
BY SettingFacts DEF TableTypeOK, Current, ProcessId, Past

LEMMA SettingOfCall == ASSUME setting \in Settings
                       PROVE  /\ Signal \in {"SIGKILL", "SIGTERM"} /\ Kinds \subseteq Kind
                              /\ Pidfd \in BOOLEAN /\ RootReaped \in BOOLEAN /\ Setuid \in BOOLEAN
BY GroupAssumption DEF Signal, Kinds, Pidfd, RootReaped, Setuid

-----------------------------------------------------------------------------
(* A host's move.                                                          *)
Forks(p, q) == /\ q = Root => \A r \in Pid : ~ InGroup(r)
               /\ Fork(p, q)
               /\ pgrp' = [pgrp EXCEPT ![q] = pgrp[p]]
               /\ kind' = [kind EXCEPT ![q] = kind[p]]
Ends(p) == /\ Exit(p) \/ (Collect(p) /\ (p = Root => RootReaped))
           /\ UNCHANGED <<pgrp, kind>>
Changes(p) == \/ HostRegroup(p)
              \/ \E k \in Kinds : HostExec(p, k)

LEMMA HostMoves ==
  ASSUME Host
  PROVE  /\ \E p, q \in Pid : Forks(p, q) \/ Ends(p) \/ Changes(p)
         /\ UNCHANGED <<pc, listVars, member, doneVars, seenVars, reached, again>>
<1>1. PICK p \in Pid : \/ \E q \in Pid : HostFork(p, q)
                       \/ \E k \in Kinds : HostExec(p, k)
                       \/ HostRegroup(p)
                       \/ Exit(p) /\ UNCHANGED <<pgrp, kind>>
                       \/ HostCollect(p)
  BY DEF Host
<1>2. CASE \E q \in Pid : HostFork(p, q)
  BY <1>2 DEF HostFork, Forks, Host
<1>3. CASE ~ \E q \in Pid : HostFork(p, q)
  <2>1. Ends(p) \/ Changes(p)
    BY <1>1, <1>3 DEF HostCollect, Ends, Changes
  <2> QED
    BY <2>1 DEF Host
<1> QED
  BY <1>2, <1>3

(* What it does to the table: nobody returns.                              *)
LEMMA HostKeepsPast ==
  ASSUME TableTypeOK, CallKinds, Host
  PROVE  /\ TableTypeOK' /\ setting' = setting /\ ProcessId' = ProcessId
         /\ \A id \in ProcessId : Past(id) => Past(id)' /\ (Running(id)' => Running(id))
<1>1. PICK p \in Pid, q \in Pid : Forks(p, q) \/ Ends(p) \/ Changes(p)
  BY HostMoves
<1>2. CASE TableMove(p, q)
  <2>1. TableTypeOK' /\ setting' = setting
    BY <1>2, MoveTypes
  <2>2. \A id \in ProcessId : Past(id) => Past(id)' /\ (Running(id)' => Running(id))
    BY <1>2, IdentitiesDoNotReturn
  <2> QED
    BY <2>1, <2>2 DEF ProcessId, Token, MaxToken
<1>3. CASE Changes(p)
  <2>1. UNCHANGED tableVars
    BY <1>3 DEF Changes, HostRegroup, HostExec
  <2> QED
    BY <2>1 DEF tableVars, TableTypeOK, ProcessId, Token, MaxToken, Past, Running, Exists, Current, Listed
<1> QED
  BY <1>1, <1>2, <1>3 DEF TableMove, Forks, Ends

(* A delivery reaches whom it says, and dooms nobody but by SIGKILL.       *)
LEMMA ReachEffect ==
  ASSUME TableTypeOK, NEW ids \in SUBSET ProcessId, Reach(ids)
  PROVE  /\ TableTypeOK' /\ UNCHANGED <<setting, token, ppid, now, genuine, pgrp, kind>>
         /\ reached' = reached \cup ids /\ again' = again \cup (reached \cap ids)
         /\ \A p \in Pid : (Listed(p)' <=> Listed(p)) /\ (state'[p] = "live" => state[p] = "live")
         /\ Signal = "SIGKILL" => \A id \in ids : ~ Running(id)'
<1>1. UNCHANGED <<setting, token, ppid, now, genuine, pgrp, kind>>
  BY DEF Reach
<1>2. CASE Signal = "SIGKILL"
  <2>1. state' = [p \in Pid |-> IF Current(p) \in ids /\ state[p] = "live" THEN "doomed" ELSE state[p]]
    BY <1>2 DEF Reach
  <2>2. state' \in [Pid -> State] /\ \A p \in Pid : (Listed(p)' <=> Listed(p)) /\ (state'[p] = "live" => state[p] = "live")
    BY <2>1 DEF TableTypeOK, State, Listed
  <2>3. ASSUME NEW id \in ids, Running(id)' PROVE FALSE
    <3>1. id[1] \in Pid /\ Current(id[1]) = id /\ state'[id[1]] = "live"
      BY <1>1, <2>3 DEF Running, Exists, Current, ProcessId
    <3> QED
      BY <2>1, <3>1
  <2>4. TableTypeOK'
    BY <1>1, <2>2 DEF TableTypeOK, Token, MaxToken, ProcessId
  <2> QED
    BY <1>1, <2>2, <2>3, <2>4 DEF Reach
<1>3. CASE Signal # "SIGKILL"
  <2>1. UNCHANGED tableVars
    BY <1>1, <1>3 DEF Reach, tableVars
  <2> QED
    BY <1>1, <1>3, <2>1 DEF Reach, tableVars, TableTypeOK, Token, MaxToken, ProcessId, Listed
<1> QED
  BY <1>2, <1>3

-----------------------------------------------------------------------------
(* A step of the call delivers to somebody, or leaves the host alone.      *)
Delivers(ids) == ids \in SUBSET ProcessId /\ (\A id \in ids : Exists(id)) /\ Reach(ids)
Direct == IF Listed(Root) /\ Signalable(Root) THEN {Current(Root)} ELSE {}

LEMMA AddressedIsCurrent ==
  ASSUME TableTypeOK, member \in ProcessId
  PROVE  /\ Addressed \in SUBSET ProcessId
         /\ \A id \in Addressed : id[1] = member[1] /\ Exists(id)
         /\ Exists(member) => member \in Addressed
<1>0. member[1] \in Pid /\ Current(member[1]) \in ProcessId
  BY CurrentIsId DEF ProcessId
<1>1. CASE Pidfd /\ Signal = "SIGKILL"
  BY <1>1 DEF Addressed
<1>2. CASE ~ (Pidfd /\ Signal = "SIGKILL")
  <2>1. Addressed = {Current(p) : p \in {q \in {member[1]} : Listed(q)}}
    BY <1>2 DEF Addressed
  <2>2. \A id \in Addressed : id = Current(member[1]) /\ Listed(member[1])
    BY <2>1
  <2>3. Exists(member) => member \in Addressed
    BY <2>1 DEF Exists
  <2> QED
    BY <1>0, <2>2, <2>3 DEF Exists, Current
<1> QED
  BY <1>1, <1>2

LEMMA StepDelivers ==
  ASSUME TableTypeOK, CallKinds, CallShape, Step
  PROVE  \/ Idle
         \/ Killpg /\ Delivers({Current(p) : p \in Takers})
         \/ SignalDirect /\ Delivers(Direct)
         \/ Send /\ Delivers(Addressed) /\ Signal = "SIGKILL" /\ member \in ProcessId
<1>1. CASE Killpg
  <2>1. {Current(p) : p \in Takers} \in SUBSET ProcessId
    BY CurrentIsId DEF Takers
  <2>2. \A p \in Takers : Exists(Current(p))
    BY DEF Takers, InGroup, Exists, Current
  <2> QED
    BY <1>1, <2>1, <2>2 DEF Killpg, Delivers
<1>2. CASE SignalDirect
  <2>1. Direct \in SUBSET ProcessId
    BY CurrentIsId, RootIsThere DEF Direct
  <2>2. \A id \in Direct : Exists(id)
    BY DEF Direct, Exists, Current
  <2> QED
    BY <1>2, <2>1, <2>2 DEF SignalDirect, Direct, Delivers
<1>3. CASE Send
  <2>1. member \in ProcessId /\ Addressed \in SUBSET ProcessId /\ \A id \in Addressed : Exists(id)
    BY <1>3, AddressedIsCurrent DEF Send, CallShape, CallKinds
  <2> QED
    BY <1>3, <2>1 DEF Send, Resend, Delivers
<1>4. CASE KillpgFails \/ Scan \/ ListFails \/ ListDone \/ Query \/ Verify \/ Reconfirm \/ Decide
  BY <1>4 DEF KillpgFails, Scan, ListFails, ListDone, Query, Verify, Reconfirm, Decide
<1> QED
  BY <1>1, <1>2, <1>3, <1>4 DEF Step

LEMMA StepEffect ==
  ASSUME TableTypeOK, CallKinds, CallShape, Step
  PROVE  /\ TableTypeOK' /\ UNCHANGED <<setting, token, ppid, now, genuine, pgrp, kind>>
         /\ \A p \in Pid : (Listed(p)' <=> Listed(p)) /\ (state'[p] = "live" => state[p] = "live")
         /\ reached \subseteq reached' /\ reached' \subseteq ProcessId /\ again' \subseteq ProcessId
<1>1. CASE Idle
  BY <1>1 DEF Idle, hostVars, tableVars, TableTypeOK, Token, MaxToken, ProcessId, Listed, CallKinds
<1>2. ASSUME NEW ids, Delivers(ids)
      PROVE  /\ TableTypeOK' /\ UNCHANGED <<setting, token, ppid, now, genuine, pgrp, kind>>
             /\ \A p \in Pid : (Listed(p)' <=> Listed(p)) /\ (state'[p] = "live" => state[p] = "live")
             /\ reached \subseteq reached' /\ reached' \subseteq ProcessId /\ again' \subseteq ProcessId
  <2>1. ids \in SUBSET ProcessId /\ Reach(ids)
    BY <1>2 DEF Delivers
  <2> QED
    BY <2>1, ReachEffect DEF CallKinds
<1> QED
  BY <1>1, <1>2, StepDelivers

(* So no step of the call makes a process run or changes who is who.       *)
LEMMA StepKeepsPast ==
  ASSUME TableTypeOK, CallKinds, CallShape, Step
  PROVE  /\ ProcessId' = ProcessId
         /\ \A id \in ProcessId : (Past(id)' <=> Past(id)) /\ (Running(id)' => Running(id))
<1>1. /\ UNCHANGED <<setting, token>>
      /\ \A p \in Pid : (Listed(p)' <=> Listed(p)) /\ (state'[p] = "live" => state[p] = "live")
  BY StepEffect
<1>2. ASSUME NEW id \in ProcessId
      PROVE  (Past(id)' <=> Past(id)) /\ (Running(id)' => Running(id))
  <2>1. id[1] \in Pid
    BY DEF ProcessId
  <2> QED
    BY <1>1, <2>1 DEF Past, Running, Exists, Current
<1> QED
  BY <1>1, <1>2 DEF ProcessId, Token, MaxToken

-----------------------------------------------------------------------------
(* The kinds are kept.                                                     *)
LEMMA StepKinds ==
  ASSUME TypeOK, CallShape, Next
  PROVE  TypeOK'
<1>0. TableTypeOK /\ CallKinds
  BY KindsAreTypes
<1> SUFFICES TableTypeOK' /\ CallKinds'
  BY KindsAreTypes
<1>1. CASE Host
  <2>1. TableTypeOK' /\ ProcessId' = ProcessId
    BY <1>0, <1>1, HostKeepsPast
  <2>2. PICK p \in Pid, q \in Pid : Forks(p, q) \/ Ends(p) \/ Changes(p)
    BY <1>1, HostMoves
  <2>3. pgrp' \in [Pid -> Pid \cup {NoGroup}] /\ kind' \in [Pid -> Kind]
    <3>1. Kinds \subseteq Kind /\ Root \in Pid
      BY <1>0, SettingOfCall, RootIsThere DEF TableTypeOK
    <3>2. CASE Forks(p, q)
      BY <1>0, <3>2 DEF Forks, CallKinds
    <3>3. CASE Ends(p)
      BY <1>0, <3>3 DEF Ends, CallKinds
    <3>4. CASE HostRegroup(p)
      BY <1>0, <3>1, <3>4 DEF HostRegroup, CallKinds
    <3>5. CASE \E k \in Kinds : HostExec(p, k)
      BY <1>0, <3>1, <3>5 DEF HostExec, CallKinds
    <3> QED
      BY <2>2, <3>2, <3>3, <3>4, <3>5 DEF Changes
  <2> QED
    BY <1>0, <1>1, <2>1, <2>3, HostMoves DEF CallKinds, listVars, doneVars, seenVars
<1>2. CASE Step
  <2>1. /\ TableTypeOK' /\ UNCHANGED <<pgrp, kind>> /\ ProcessId' = ProcessId
        /\ reached' \subseteq ProcessId /\ again' \subseteq ProcessId
    BY <1>0, <1>2, StepEffect, StepKeepsPast
  <2> DEFINE Rest == /\ pc' \in {"idle", "direct", "list", "query", "verify", "send", "reconfirm", "done"}
                     /\ unscanned' \subseteq Pid
                     /\ listed' \subseteq ProcessId /\ refused' \subseteq ProcessId
                     /\ unassessable' \subseteq ProcessId
                     /\ present' \subseteq ProcessId /\ heard' \subseteq ProcessId
                     /\ unseen' \subseteq ProcessId
                     /\ member' \in ProcessId \cup {NoMember} /\ verdict' \in Verdict
  <2>2. CASE Killpg
    <3>1. RunningMembers \subseteq ProcessId
      BY <1>0, CurrentIsId DEF RunningMembers
    <3> QED
      BY <1>0, <2>1, <2>2, <3>1 DEF Killpg, CallKinds, doneVars
  <2>3. CASE KillpgFails \/ SignalDirect \/ ListFails \/ ListDone
    BY <1>0, <2>1, <2>3 DEF KillpgFails, SignalDirect, ListFails, ListDone, CallKinds, Verdict, listVars,
       doneVars, seenVars
  <2>4. CASE Scan
    <3>1. PICK read \in SUBSET Pid :
            /\ unscanned' = unscanned \ read
            /\ listed' = listed \cup {Current(p) : p \in {q \in read : Listable(q)}}
            /\ heard' = heard \cup {Current(p) : p \in {q \in read : Listable(q)}}
            /\ unseen' = unseen \cup {Current(p) : p \in {q \in read : Listed(q) /\ ~ Listable(q)}}
      BY <1>0, <2>4 DEF Scan, Reads, CallKinds
    <3> QED
      BY <1>0, <2>1, <2>4, <3>1, CurrentIsId DEF Scan, CallKinds, doneVars
  <2>5. CASE Query
    BY <1>0, <2>1, <2>5 DEF Query, Turn, CallKinds, seenVars
  <2>6. CASE Verify \/ Send \/ Reconfirm
    <3>1. member \in ProcessId
      BY <1>0, <2>6 DEF Verify, Send, Reconfirm, CallShape, CallKinds
    <3> QED
      BY <1>0, <2>1, <2>6, <3>1 DEF Verify, Send, Reconfirm, Turn, Unassessable, NotASurvivor, CallKinds, seenVars
  <2>7. CASE Decide
    BY <1>0, <2>1, <2>7 DEF Decide, Outcome, CallKinds, Verdict, listVars, seenVars
  <2> QED
    BY <1>2, <2>2, <2>3, <2>4, <2>5, <2>6, <2>7 DEF Step
<1> QED
  BY <1>1, <1>2 DEF Next

-----------------------------------------------------------------------------
(* Where the call stands is kept.                                          *)
LEMMA KeepsShape ==
  ASSUME TypeOK, CallShape, Next
  PROVE  CallShape'
<1>0. TableTypeOK /\ CallKinds /\ NoMember \notin ProcessId
  BY KindsAreTypes, RootIsThere
<1>1. CASE Host
  <2>1. Signal' = Signal
    BY <1>0, <1>1, HostKeepsPast DEF Signal
  <2> QED
    BY <1>1, <2>1, HostMoves DEF CallShape, listVars, doneVars, seenVars
<1>2. CASE Step
  <2>0. Signal' = Signal
    BY <1>0, <1>2, StepEffect DEF Signal
  <2>1. CASE Killpg
    <3>1. reached' = reached \cup {Current(p) : p \in Takers}
      BY <2>1 DEF Killpg, Reach
    <3>2. pc' = "list" \/ (pc' = "direct" /\ Takers = {})
      BY <2>1 DEF Killpg
    <3>3. reached = {} /\ pc = "idle"
      BY <2>1 DEF CallShape, Killpg
    <3> QED
      BY <2>0, <2>1, <3>1, <3>2, <3>3 DEF Killpg, CallShape, doneVars
  <2>2. CASE SignalDirect
    BY <2>2 DEF SignalDirect, CallShape, listVars, doneVars, seenVars
  <2>3. CASE KillpgFails \/ ListFails
    BY <2>3 DEF KillpgFails, ListFails, CallShape, listVars, seenVars, Idle
  <2>4. CASE Scan
    BY <2>4 DEF Scan, CallShape, doneVars, Idle
  <2>5. CASE ListDone
    BY <2>5 DEF ListDone, CallShape, listVars, doneVars, seenVars, Idle
  <2>6. CASE Query
    <3>1. PICK id \in listed : /\ listed' = listed \ {id}
                               /\ IF Dead(id) THEN Turn("query", NoMember) ELSE Turn("verify", id)
      BY <2>6 DEF Query
    <3>2. id \in heard /\ id # NoMember
      BY <1>0 DEF CallShape, CallKinds
    <3> QED
      BY <2>6, <3>1, <3>2 DEF Query, Turn, CallShape, seenVars, Idle
  <2>7. CASE Verify
    BY <2>7 DEF Verify, Turn, NotASurvivor, Unassessable, CallShape, seenVars
  <2>8. CASE Send \/ Reconfirm
    BY <2>8 DEF Send, Reconfirm, Turn, NotASurvivor, Unassessable, CallShape, seenVars
  <2>9. CASE Decide
    BY <2>9 DEF Decide, Outcome, CallShape, listVars, seenVars
  <2> QED
    BY <1>2, <2>1, <2>2, <2>3, <2>4, <2>5, <2>6, <2>7, <2>8, <2>9 DEF Step
<1> QED
  BY <1>1, <1>2 DEF Next

(* What a step adds to the histories.                                      *)
LEMMA HeardAndReached ==
  ASSUME TableTypeOK, CallKinds, CallShape, Step
  PROVE  /\ \A id \in present' : id \in present \/ \E p \in Pid : id = Current(p) /\ InGroup(p)
         /\ \A id \in heard' : id \in heard \/ \E p \in Pid : id = Current(p) /\ InGroup(p)
         /\ \A id \in reached' : id \in reached \/ Exists(id)
<1>1. \A id \in present' : id \in present \/ \E p \in Pid : id = Current(p) /\ InGroup(p)
  <2>1. CASE Killpg
    BY <2>1 DEF Killpg, RunningMembers, InGroup, Listed
  <2>2. CASE ~ Killpg
    <3>1. present' = present
      BY <2>2 DEF Step, KillpgFails, SignalDirect, Scan, ListFails, ListDone, Query, Verify, Send, Reconfirm,
         Decide, Turn, NotASurvivor, Unassessable, seenVars
    <3> QED
      BY <3>1
  <2> QED
    BY <2>1, <2>2
<1>2. \A id \in heard' : id \in heard \/ \E p \in Pid : id = Current(p) /\ InGroup(p)
  <2>1. CASE Scan
    BY <2>1 DEF Scan, Reads, Listable, CallKinds
  <2>2. CASE ~ Scan
    <3>1. heard' = heard
      BY <2>2 DEF Step, KillpgFails, SignalDirect, Killpg, ListFails, ListDone, Query, Verify, Send, Reconfirm,
         Decide, Turn, NotASurvivor, Unassessable, seenVars
    <3> QED
      BY <3>1
  <2> QED
    BY <2>1, <2>2
<1>3. \A id \in reached' : id \in reached \/ Exists(id)
  <2>1. CASE Idle
    BY <2>1 DEF Idle
  <2>2. ASSUME NEW ids, Delivers(ids)
        PROVE  \A id \in reached' : id \in reached \/ Exists(id)
    BY <2>2, ReachEffect DEF Delivers
  <2> QED
    BY <2>1, <2>2, StepDelivers
<1> QED
  BY <1>1, <1>2, <1>3

LEMMA KeepsPast ==
  ASSUME TypeOK, CallShape, AllPast, Next
  PROVE  AllPast'
<1>0. TableTypeOK /\ CallKinds
  BY KindsAreTypes
<1>1. CASE Host
  BY <1>0, <1>1, HostMoves, HostKeepsPast DEF AllPast, CallKinds, seenVars
<1>2. CASE Step
  <2>1. \A id \in ProcessId : Past(id) => Past(id)'
    BY <1>0, <1>2, StepKeepsPast
  <2>2. \A p \in Pid : Current(p) \in ProcessId /\ Past(Current(p))
    BY <1>0, CurrentIsId
  <2>3. \A id \in ProcessId : Exists(id) => Past(id)
    <3>1. SUFFICES ASSUME NEW id \in ProcessId, Exists(id)
                   PROVE  Past(id)
      OBVIOUS
    <3> QED
      BY <2>2, <3>1 DEF Exists, ProcessId
  <2>4. \A id \in present' \cup heard' \cup reached' : id \in ProcessId /\ Past(id)
    BY <1>0, <1>2, <2>2, <2>3, HeardAndReached, StepEffect DEF AllPast, CallKinds
  <2> QED
    BY <2>1, <2>4 DEF AllPast
<1> QED
  BY <1>1, <1>2 DEF Next

-----------------------------------------------------------------------------
(* The leader keeps its pid, and its group stays in the tree.              *)
LEMMA KeepsLeader ==
  ASSUME TypeOK, CallShape, LeaderPinned, Next
  PROVE  LeaderPinned'
<1>0. TableTypeOK /\ CallKinds /\ Root \in Pid
  BY KindsAreTypes, RootIsThere
<1>1. CASE Step
  BY <1>0, <1>1, StepEffect DEF LeaderPinned, RootReaped
<1>2. CASE Host
  <2>1. setting' = setting
    BY <1>0, <1>2, HostKeepsPast
  <2>2. PICK p \in Pid, q \in Pid : Forks(p, q) \/ Ends(p) \/ Changes(p)
    BY <1>2, HostMoves
  <2>3. CASE Forks(p, q)
    <3>1. PICK t \in Token :
            /\ state[q] = "free" /\ token' = [token EXCEPT ![q] = t]
            /\ state' = [state EXCEPT ![q] = "live"]
      BY <1>0, <2>3, ForkEffect DEF Forks
    <3> QED
      BY <1>0, <2>1, <3>1 DEF LeaderPinned, RootReaped, Listed, TableTypeOK
  <2>4. CASE Ends(p)
    BY <1>0, <2>1, <2>4 DEF Ends, Exit, Collect, LeaderPinned, RootReaped, Listed, TableTypeOK
  <2>5. CASE Changes(p)
    BY <2>5 DEF Changes, HostRegroup, HostExec, tableVars, LeaderPinned, RootReaped, Listed
  <2> QED
    BY <2>2, <2>3, <2>4, <2>5
<1> QED
  BY <1>1, <1>2 DEF Next

LEMMA KeepsGroup ==
  ASSUME TypeOK, CallShape, LeaderPinned, GroupIsOurs, Next
  PROVE  GroupIsOurs'
<1>0. TableTypeOK /\ CallKinds /\ Root \in Pid /\ Root # NoGroup
  BY KindsAreTypes, RootIsThere, SettingFacts DEF TableTypeOK, NoGroup, InitPid
<1>1. CASE Step
  <2>1. /\ UNCHANGED <<setting, token, genuine, pgrp>>
        /\ \A p \in Pid : Listed(p)' <=> Listed(p)
    BY <1>0, <1>1, StepEffect
  <2>2. \A p \in Pid : (InGroup(p)' <=> InGroup(p)) /\ Current(p)' = Current(p)
    BY <2>1 DEF InGroup, Current
  <2>3. \A id \in heard' : id \in heard \/ \E p \in Pid : id = Current(p) /\ InGroup(p)
    BY <1>0, <1>1, HeardAndReached
  <2> QED
    BY <2>1, <2>2, <2>3 DEF GroupIsOurs, RootReaped, RootId
<1>2. CASE Host
  <2>1. setting' = setting /\ heard' = heard
    BY <1>0, <1>2, HostKeepsPast, HostMoves DEF seenVars
  <2>2. PICK p \in Pid, q \in Pid : Forks(p, q) \/ Ends(p) \/ Changes(p)
    BY <1>2, HostMoves
  <2> SUFFICES ASSUME ~ RootReaped
               PROVE  /\ genuine \subseteq genuine'
                      /\ \A r \in Pid : InGroup(r)' => Current(r)' \in genuine'
    BY <2>1 DEF GroupIsOurs, RootReaped, RootId
  <2>a. \A r \in Pid : InGroup(r) => Current(r) \in genuine
    BY DEF GroupIsOurs
  <2>3. CASE Forks(p, q)
    <3>1. PICK t \in Token :
            /\ state[p] = "live" /\ p # q
            /\ token' = [token EXCEPT ![q] = t]
            /\ state' = [state EXCEPT ![q] = "live"]
            /\ genuine' = IF Current(p) \in genuine THEN genuine \cup {<<q, t>>} ELSE genuine
      BY <1>0, <2>3, ForkEffect DEF Forks
    <3>2. pgrp' = [pgrp EXCEPT ![q] = pgrp[p]]
      BY <2>3 DEF Forks
    <3>3. ASSUME NEW r \in Pid, InGroup(r)' PROVE Current(r)' \in genuine'
      <4>1. CASE r = q
        <5>1. InGroup(p) /\ Current(r)' = <<q, t>>
          BY <1>0, <3>1, <3>2, <3>3, <4>1 DEF InGroup, Listed, Current, TableTypeOK, CallKinds
        <5> QED
          BY <2>a, <3>1, <5>1
      <4>2. CASE r # q
        <5>1. InGroup(r) /\ Current(r)' = Current(r)
          BY <1>0, <3>1, <3>2, <3>3, <4>2 DEF InGroup, Listed, Current, TableTypeOK, CallKinds
        <5> QED
          BY <2>a, <3>1, <5>1
      <4> QED
        BY <4>1, <4>2
    <3> QED
      BY <3>1, <3>3
  <2>4. CASE Ends(p)
    <3>1. UNCHANGED <<token, genuine, pgrp>> /\ \A r \in Pid : Listed(r)' => Listed(r)
      BY <1>0, <2>4 DEF Ends, Exit, Collect, Listed, TableTypeOK
    <3> QED
      BY <2>a, <3>1 DEF InGroup, Current
  <2>5. CASE Changes(p)
    <3>1. UNCHANGED tableVars /\ \A r \in Pid : pgrp'[r] = Root => pgrp[r] = Root \/ r = Root
      BY <1>0, <2>5 DEF Changes, HostRegroup, HostExec, CallKinds
    <3>2. Current(Root) = RootId /\ RootId \in genuine
      BY DEF LeaderPinned, GroupIsOurs, Current, RootId
    <3> QED
      BY <2>a, <3>1, <3>2 DEF InGroup, Current, Listed, tableVars
  <2> QED
    BY <2>2, <2>3, <2>4, <2>5
<1> QED
  BY <1>1, <1>2 DEF Next

-----------------------------------------------------------------------------
(* The signals are aimed.                                                  *)
LEMMA KeepsAimed ==
  ASSUME TypeOK, CallShape, LeaderPinned, GroupIsOurs, SignalsAreAimed, Next, genuine \subseteq genuine'
  PROVE  SignalsAreAimed'
<1>0. TableTypeOK /\ CallKinds /\ Root \in Pid
  BY KindsAreTypes, RootIsThere
<1>1. setting' = setting
  BY <1>0, HostKeepsPast, StepEffect DEF Next
<1> USE DEF SignalsAreAimed, NoStrangerSignalled, TermSentOnce, RootReaped, Pidfd, Signal
<1>2. CASE Host
  BY <1>1, <1>2, HostMoves
<1>3. CASE Step
  <2>1. CASE Idle
    BY <1>1, <2>1 DEF Idle, hostVars, tableVars
  <2>2. CASE Killpg /\ Delivers({Current(p) : p \in Takers})
    <3>1. /\ reached' = reached \cup {Current(p) : p \in Takers} /\ genuine' = genuine
          /\ again' = again \cup (reached \cap {Current(p) : p \in Takers})
      BY <2>2 DEF Delivers, Reach
    <3>2. reached = {}
      BY <2>2 DEF Killpg, CallShape
    <3>3. \A p \in Takers : p \in Pid /\ InGroup(p)
      BY DEF Takers
    <3> QED
      BY <1>1, <3>1, <3>2, <3>3 DEF GroupIsOurs
  <2>3. CASE SignalDirect /\ Delivers(Direct)
    <3>1. reached' = reached \cup Direct /\ genuine' = genuine /\ again' = again \cup (reached \cap Direct)
      BY <2>3 DEF Delivers, Reach
    <3>2. ~ RootReaped => Direct \subseteq genuine
      BY DEF Direct, LeaderPinned, GroupIsOurs, Current, RootId
    <3>3. Signal = "SIGTERM" => reached = {}
      BY <2>3 DEF SignalDirect, CallShape
    <3> QED
      BY <1>1, <3>1, <3>2, <3>3
  <2>4. CASE Send /\ Delivers(Addressed) /\ Signal = "SIGKILL"
    <3>1. reached' = reached \cup Addressed /\ genuine' = genuine
      BY <2>4 DEF Delivers, Reach
    <3>2. Pidfd => Addressed \subseteq {member}
      BY <2>4 DEF Addressed
    <3>3. member \in heard
      BY <2>4 DEF Send, CallShape
    <3> QED
      BY <1>1, <2>4, <3>1, <3>2, <3>3 DEF GroupIsOurs
  <2> QED
    BY <1>0, <1>3, <2>1, <2>2, <2>3, <2>4, StepDelivers
<1> QED
  BY <1>2, <1>3 DEF Next

-----------------------------------------------------------------------------
(* A host's move brings no member back into the group, nor does it change  *)
(* a member's kind but by an exec.                                         *)
LEMMA HostKeepsMembers ==
  ASSUME TypeOK, AllPast, LeaderStays, Host, NEW id \in present \cup heard, Running(id)'
  PROVE  /\ Running(id)
         /\ pgrp'[id[1]] = Root => pgrp[id[1]] = Root
         /\ id[1] = Root => pgrp'[Root] = Root
         /\ kind'[id[1]] = kind[id[1]] \/ Setuid \/ pc = "idle"
<1>0. TableTypeOK /\ CallKinds /\ Root # NoGroup /\ Root \in Pid
  BY KindsAreTypes, RootIsThere, SettingFacts DEF TableTypeOK, NoGroup, InitPid
<1>1. id \in ProcessId /\ Past(id) /\ id[1] \in Pid
  BY <1>0 DEF AllPast, CallKinds, ProcessId
<1>2. Running(id) /\ state[id[1]] = "live"
  BY <1>0, <1>1, HostKeepsPast DEF Running
<1>3. id[1] = Root => pgrp[Root] = Root
  BY <1>2 DEF LeaderStays
<1>4. PICK p \in Pid, q \in Pid : Forks(p, q) \/ Ends(p) \/ Changes(p)
  BY HostMoves
<1>5. CASE Forks(p, q)
  <2>1. q # id[1]
    BY <1>2, <1>5 DEF Forks, Fork
  <2> QED
    BY <1>0, <1>1, <1>2, <1>3, <1>5, <2>1 DEF Forks, CallKinds
<1>6. CASE Ends(p)
  BY <1>2, <1>3, <1>6 DEF Ends
<1>7. CASE HostRegroup(p)
  BY <1>0, <1>1, <1>2, <1>3, <1>7 DEF HostRegroup, CallKinds
<1>8. CASE \E k \in Kinds : HostExec(p, k)
  BY <1>2, <1>3, <1>8 DEF HostExec
<1> QED
  BY <1>4, <1>5, <1>6, <1>7, <1>8 DEF Changes

LEMMA KeepsLeaderStays ==
  ASSUME TypeOK, CallShape, AllPast, LeaderStays, Next
  PROVE  LeaderStays'
<1>0. TableTypeOK /\ CallKinds
  BY KindsAreTypes
<1>1. CASE Host
  BY <1>1, HostMoves, HostKeepsMembers DEF LeaderStays, seenVars
<1>2. CASE Step
  <2>1. \A id \in present' \cup heard' : id \in present \cup heard \/ pgrp[id[1]] = Root
    BY <1>0, <1>2, HeardAndReached DEF InGroup, Current
  <2>2. pgrp' = pgrp
    BY <1>0, <1>2, StepEffect
  <2>3. present' \subseteq ProcessId /\ heard' \subseteq ProcessId /\ ProcessId' = ProcessId
    BY <1>0, <1>2, StepKinds, StepKeepsPast DEF Next, TypeOK
  <2>4. \A id \in ProcessId : Running(id)' => Running(id)
    BY <1>0, <1>2, StepKeepsPast
  <2> QED
    BY <2>1, <2>2, <2>3, <2>4 DEF LeaderStays
<1> QED
  BY <1>1, <1>2 DEF Next

LEMMA KeepsKindsOccur ==
  ASSUME TypeOK, CallShape, KindsOccur, Next
  PROVE  KindsOccur'
<1>0. TableTypeOK /\ CallKinds
  BY KindsAreTypes
<1>1. CASE Step
  BY <1>0, <1>1, StepEffect DEF KindsOccur, Kinds
<1>2. CASE Host
  <2>1. setting' = setting
    BY <1>0, <1>2, HostKeepsPast
  <2>2. PICK p \in Pid, q \in Pid : Forks(p, q) \/ Ends(p) \/ Changes(p)
    BY <1>2, HostMoves
  <2>3. \A r \in Pid : kind'[r] = kind[r] \/ kind'[r] = kind[p] \/ kind'[r] \in Kinds
    BY <1>0, <2>2 DEF Forks, Ends, Changes, HostRegroup, HostExec, CallKinds
  <2> QED
    BY <2>1, <2>3 DEF KindsOccur, Kinds
<1> QED
  BY <1>1, <1>2 DEF Next

-----------------------------------------------------------------------------
(* Reached by a SIGKILL, a process runs no more.                           *)
LEMMA KeepsDown ==
  ASSUME TypeOK, CallShape, AllPast, ReachedAreDown, Next
  PROVE  ReachedAreDown'
<1>0. TableTypeOK /\ CallKinds /\ reached \subseteq ProcessId
  BY KindsAreTypes DEF CallKinds
<1>1. CASE Host
  <2>1. reached' = reached /\ Signal' = Signal
    BY <1>0, <1>1, HostMoves, HostKeepsPast DEF Signal
  <2>2. \A id \in reached : Running(id)' => Running(id)
    BY <1>0, <1>1, HostKeepsPast DEF AllPast
  <2> QED
    BY <2>1, <2>2 DEF ReachedAreDown
<1>2. CASE Step
  <2>1. Signal' = Signal /\ \A id \in reached : Running(id)' => Running(id)
    BY <1>0, <1>2, StepEffect, StepKeepsPast DEF Signal
  <2>2. CASE Idle
    BY <2>1, <2>2 DEF Idle, ReachedAreDown
  <2>3. ASSUME NEW ids, Delivers(ids)
        PROVE  ReachedAreDown'
    <3>1. reached' = reached \cup ids /\ (Signal = "SIGKILL" => \A id \in ids : ~ Running(id)')
      BY <1>0, <2>3, ReachEffect DEF Delivers
    <3> QED
      BY <2>1, <3>1 DEF ReachedAreDown
  <2> QED
    BY <1>0, <1>2, <2>2, <2>3, StepDelivers
<1> QED
  BY <1>1, <1>2 DEF Next

(* Without an exec in between, whom killpg could not reach refuses still.  *)
LEMMA KeepsRefusal ==
  ASSUME TermHosts, TypeOK, CallShape, AllPast, LeaderStays, KindsOccur, UnreachedRefuse, Next
  PROVE  UnreachedRefuse'
<1>0. TableTypeOK /\ CallKinds /\ present \subseteq ProcessId
  BY KindsAreTypes DEF CallKinds
<1>t. Signal = "SIGTERM" => ~ Setuid /\ "system" \notin Kinds
  BY <1>0 DEF TermHosts, Signal, Setuid, Kinds, TableTypeOK
<1>1. CASE Host
  <2>1. Signal' = Signal /\ present' = present /\ reached' = reached
    BY <1>0, <1>1, HostKeepsPast, HostMoves DEF Signal, seenVars
  <2>2. pc = "idle" => present = {}
    BY DEF CallShape
  <2>3. ASSUME Signal = "SIGTERM", NEW id \in present, Running(id)'
        PROVE  Running(id) /\ kind'[id[1]] = kind[id[1]]
    BY <1>1, <1>t, <2>2, <2>3, HostKeepsMembers
  <2> QED
    BY <2>1, <2>3 DEF UnreachedRefuse
<1>2. CASE Step
  <2>1. Signal' = Signal /\ kind' = kind /\ reached \subseteq reached'
    BY <1>0, <1>2, StepEffect DEF Signal
  <2>2. \A id \in present : Running(id)' => Running(id)
    BY <1>0, <1>2, StepKeepsPast
  <2>3. ASSUME Signal = "SIGTERM", NEW id \in present', id \notin present, id \notin reached'
        PROVE  kind[id[1]] \in {"foreign", "opaque"}
    <3>1. Killpg
      BY <1>2, <2>3 DEF Step, KillpgFails, SignalDirect, Scan, ListFails, ListDone, Query, Verify, Send,
         Reconfirm, Decide, Turn, NotASurvivor, Unassessable, seenVars
    <3>2. PICK p \in Pid : id = Current(p) /\ InGroup(p)
      BY <1>0, <1>2, <2>3, HeardAndReached
    <3>3. p \notin Takers
      BY <2>3, <3>1, <3>2 DEF Killpg, Reach
    <3>4. kind[p] \in Kinds \cup {"plain"} /\ Kinds \subseteq Kind
      BY <1>0, SettingOfCall DEF KindsOccur, TableTypeOK
    <3>5. kind[p] \in {"foreign", "opaque"}
      BY <1>t, <2>3, <3>2, <3>3, <3>4 DEF Takers, Signalable, Kind
    <3> QED
      BY <3>2, <3>5 DEF Current
  <2> QED
    BY <2>1, <2>2, <2>3 DEF UnreachedRefuse
<1> QED
  BY <1>1, <1>2 DEF Next

-----------------------------------------------------------------------------
(* Each member of the listing has one turn.                                *)
LEMMA KeepsOneTurnEach ==
  ASSUME TypeOK, CallShape, OneTurnEach, Next
  PROVE  OneTurnEach'
<1>0. TableTypeOK /\ CallKinds /\ NoMember \notin ProcessId
  BY KindsAreTypes, RootIsThere
<1>1. CASE Host
  BY <1>1, HostMoves DEF OneTurnEach, listVars, doneVars, seenVars
<1>2. CASE Killpg
  BY <1>2 DEF Killpg, CallShape, OneTurnEach, doneVars
<1>3. CASE KillpgFails \/ SignalDirect \/ ListFails \/ ListDone \/ Decide
  BY <1>3 DEF KillpgFails, SignalDirect, ListFails, ListDone, Decide, OneTurnEach, listVars, doneVars,
     seenVars
<1>4. CASE Scan
  <2>1. PICK read \in SUBSET unscanned :
          /\ unscanned' = unscanned \ read
          /\ listed' = listed \cup {Current(p) : p \in {q \in read : Listable(q)}}
          /\ heard' = heard \cup {Current(p) : p \in {q \in read : Listable(q)}}
    BY <1>4 DEF Scan, Reads
  <2>2. UNCHANGED <<refused, member, pc>> /\ member = NoMember /\ refused = {}
    BY <1>4 DEF Scan, CallShape, OneTurnEach, doneVars
  <2>3. \A p \in read : Current(p)[1] = p /\ Current(p) \in ProcessId
    BY <1>0, <2>1, CurrentIsId DEF Current, CallKinds
  <2>4. \A a, b \in heard' : a[1] = b[1] => a = b
    <3>1. ASSUME NEW a \in heard', NEW b \in heard', a[1] = b[1] PROVE a = b
      <4>1. a \in heard \/ (a[1] \in read /\ a = Current(a[1]))
        BY <2>1, <2>3
      <4>2. b \in heard \/ (b[1] \in read /\ b = Current(b[1]))
        BY <2>1, <2>3
      <4>3. \A c \in heard : c[1] \notin read
        BY <2>1 DEF OneTurnEach
      <4> QED
        BY <3>1, <4>1, <4>2, <4>3 DEF OneTurnEach
    <3> QED
      BY <3>1
  <2>5. \A a \in heard' : a[1] \notin unscanned'
    BY <2>1, <2>3 DEF OneTurnEach
  <2>6. member \notin listed'
    BY <1>0, <2>1, <2>2, <2>3 DEF OneTurnEach
  <2> QED
    BY <2>2, <2>4, <2>5, <2>6 DEF OneTurnEach
<1>5. CASE Query
  <2>1. PICK id \in listed : /\ listed' = listed \ {id}
                             /\ IF Dead(id) THEN Turn("query", NoMember) ELSE Turn("verify", id)
    BY <1>5 DEF Query
  <2>2. UNCHANGED <<unscanned, heard, refused>> /\ member' \in {NoMember, id}
        /\ pc' \notin {"idle", "direct", "list"}
    BY <1>5, <2>1 DEF Query, Turn, seenVars
  <2>3. NoMember \notin listed \cup refused
    BY <1>0 DEF CallKinds
  <2> QED
    BY <2>1, <2>2, <2>3 DEF OneTurnEach
<1>6. CASE Verify \/ Send \/ Reconfirm
  <2>1. /\ UNCHANGED <<unscanned, heard, listed>> /\ member' \in {NoMember, member}
        /\ pc' \notin {"idle", "direct", "list"} /\ member \in heard
        /\ refused' = refused \/ (refused' = refused \cup {member} /\ member' = NoMember)
    BY <1>6 DEF Verify, Send, Reconfirm, Turn, NotASurvivor, Unassessable, CallShape, seenVars
  <2>2. NoMember \notin listed \cup refused \cup heard
    BY <1>0 DEF CallKinds
  <2> QED
    BY <2>1, <2>2 DEF OneTurnEach
<1> QED
  BY <1>1, <1>2, <1>3, <1>4, <1>5, <1>6 DEF Next, Step

(* Nobody comes back, and who took a signal takes the next.                *)
LEMMA HostKeepsTakers ==
  ASSUME TypeOK, CallShape, AllPast, ReachedAreDown, Host, Signal = "SIGKILL" \/ ~ Setuid
  PROVE  /\ \A id \in ProcessId : Past(id) /\ Exists(id)' => Exists(id)
         /\ ReachedTakeSignals => ReachedTakeSignals'
<1>0. TableTypeOK /\ CallKinds
  BY KindsAreTypes
<1>1. PICK p \in Pid, q \in Pid : Forks(p, q) \/ Ends(p) \/ Changes(p)
  BY HostMoves
<1>2. /\ reached' = reached
      /\ \A id \in reached : id \in ProcessId /\ Past(id) /\ id[1] \in Pid
  BY <1>0, HostMoves DEF AllPast, CallKinds, ProcessId
<1>3. CASE Forks(p, q)
  <2>1. PICK t \in Token :
          /\ t > token[q] /\ token' = [token EXCEPT ![q] = t] /\ state' = [state EXCEPT ![q] = "live"]
    BY <1>0, <1>3, ForkEffect DEF Forks
  <2>2. ASSUME NEW id \in ProcessId, Past(id), Exists(id)'
        PROVE  Exists(id) /\ kind'[id[1]] = kind[id[1]]
    <3>1. id[1] \in Pid /\ id[2] \in Nat /\ t \in Nat /\ \A r \in Pid : token[r] \in Nat
      BY <1>0, SettingFacts DEF ProcessId, TableTypeOK
    <3>2. id[1] # q
      <4>1. token'[id[1]] = id[2]
        BY <2>2 DEF Exists, Current
      <4>2. id[1] = q => token'[id[1]] = t
        BY <1>0, <2>1 DEF TableTypeOK
      <4> QED
        BY <2>1, <2>2, <3>1, <4>1, <4>2 DEF Past
    <3>3. state'[id[1]] = state[id[1]] /\ token'[id[1]] = token[id[1]] /\ kind'[id[1]] = kind[id[1]]
      BY <1>0, <1>3, <2>1, <3>1, <3>2 DEF Forks, TableTypeOK, CallKinds
    <3> QED
      BY <2>2, <3>3 DEF Exists, Listed, Current
  <2> QED
    BY <1>2, <2>2 DEF ReachedTakeSignals, Signalable
<1>4. CASE Ends(p)
  <2>1. UNCHANGED <<token, kind>> /\ \A r \in Pid : Listed(r)' => Listed(r)
    BY <1>0, <1>4 DEF Ends, Exit, Collect, Listed, TableTypeOK
  <2> QED
    BY <1>2, <2>1 DEF ReachedTakeSignals, Signalable, Exists, Current, ProcessId
<1>5. CASE HostRegroup(p)
  BY <1>2, <1>5 DEF HostRegroup, tableVars, ReachedTakeSignals, Signalable, Exists, Listed, Current
<1>6. CASE \E k \in Kinds : HostExec(p, k)
  <2>1. PICK k \in Kinds : HostExec(p, k)
    BY <1>6
  <2>2. UNCHANGED tableVars /\ state[p] = "live" /\ kind' = [kind EXCEPT ![p] = k] /\ (Setuid \/ pc = "idle")
    BY <2>1 DEF HostExec
  <2>3. ASSUME NEW id \in reached, Exists(id) PROVE kind'[id[1]] = kind[id[1]]
    <3>1. Signal = "SIGKILL"
      BY <2>2, <2>3 DEF CallShape
    <3>2. id[1] # p
      BY <2>2, <2>3, <3>1 DEF ReachedAreDown, Running
    <3> QED
      BY <1>0, <1>2, <2>2, <3>2 DEF CallKinds
  <2> QED
    BY <1>2, <2>2, <2>3 DEF ReachedTakeSignals, Signalable, Exists, Listed, Current, tableVars
<1> QED
  BY <1>1, <1>3, <1>4, <1>5, <1>6 DEF Changes

(* A step delivers to processes that take the signal.                      *)
LEMMA StepKeepsTakers ==
  ASSUME TypeOK, CallShape, ReachedTakeSignals, Step
  PROVE  ReachedTakeSignals'
<1>0. TableTypeOK /\ CallKinds
  BY KindsAreTypes
<1>1. /\ UNCHANGED <<token, kind>>
      /\ \A p \in Pid : Listed(p)' <=> Listed(p)
  BY <1>0, StepEffect
<1>2. \A id \in reached' : id \in reached \/ Signalable(id[1])
  <2>1. CASE Idle
    BY <2>1 DEF Idle
  <2>2. CASE Killpg /\ Delivers({Current(p) : p \in Takers})
    BY <2>2 DEF Delivers, Reach, Takers, Current
  <2>3. CASE SignalDirect /\ Delivers(Direct)
    BY <2>3 DEF Delivers, Reach, Direct, Current
  <2>4. CASE Send
    BY <2>4 DEF Send, Resend, Reach, Idle
  <2> QED
    BY <1>0, <2>1, <2>2, <2>3, <2>4, StepDelivers
<1>3. \A id \in reached' : id[1] \in Pid
  BY <1>0, StepEffect DEF ProcessId
<1> QED
  BY <1>1, <1>2, <1>3 DEF ReachedTakeSignals, Signalable, Exists, Current

(* A refuser is one that the call did not reach.                           *)
LEMMA KeepsRefusers ==
  ASSUME TypeOK, CallShape, AllPast, ReachedAreDown, KindsOccur, OneTurnEach, RefusalInv, Next
  PROVE  RefusalInv'
<1>0. TableTypeOK /\ CallKinds /\ NoMember \notin ProcessId
  BY KindsAreTypes, RootIsThere
<1>1. setting' = setting
  BY <1>0, HostKeepsPast, StepEffect DEF Next
<1>2. UNCHANGED <<Promised, Kinds>>
  BY <1>1 DEF Promised, Signal, Setuid, Kinds, Pidfd
<1> SUFFICES ASSUME Promised
             PROVE  ReachedTakeSignals' /\ DoubtIsDue' /\ refused' \cap reached' = {}
  BY <1>2 DEF RefusalInv
<1>3. ReachedTakeSignals /\ DoubtIsDue /\ refused \cap reached = {}
  BY DEF RefusalInv
<1>4. CASE Host
  <2>1. UNCHANGED <<pc, member, reached, refused>>
    BY <1>4, HostMoves DEF doneVars
  <2>2. /\ \A id \in ProcessId : Past(id) /\ Exists(id)' => Exists(id)
        /\ ReachedTakeSignals'
    BY <1>3, <1>4, HostKeepsTakers DEF Promised
  <2>3. member \in reached => member \in ProcessId /\ Past(member)
    BY <1>0 DEF AllPast, CallKinds
  <2> QED
    BY <1>2, <1>3, <2>1, <2>2, <2>3 DEF DoubtIsDue
<1>5. CASE Step
  <2>1. ReachedTakeSignals'
    BY <1>3, <1>5, StepKeepsTakers
  <2>2. CASE Reconfirm
    <3>1. refused' = (IF Dead(member) THEN refused ELSE refused \cup {member}) /\ reached' = reached
          /\ pc = "reconfirm" /\ pc' = "query"
      BY <2>2 DEF Reconfirm, Turn, Idle
    <3>2. member \in reached => Dead(member)
      <4>1. ASSUME member \in reached PROVE Dead(member)
        <5>1. ~ Exists(member) /\ "opaque" \notin Kinds
          BY <1>3, <3>1, <4>1 DEF DoubtIsDue
        <5>2. member[1] \in Pid
          BY <1>0, <4>1 DEF CallKinds, ProcessId
        <5>3. kind[member[1]] # "opaque"
          BY <5>1, <5>2 DEF KindsOccur
        <5> QED
          BY <5>1, <5>3 DEF Dead, Answers, IsAlive
      <4> QED
        BY <4>1
    <3> QED
      BY <1>3, <2>1, <3>1, <3>2 DEF DoubtIsDue
  <2>3. CASE Send
    <3>1. refused' = refused
      BY <2>3 DEF Send, Turn, NotASurvivor, Unassessable
    <3>2. member \in ProcessId /\ member \in heard /\ member \notin refused
      BY <1>0, <2>3 DEF Send, CallShape, CallKinds, OneTurnEach
    <3>3. \A id \in reached' : id \in reached \/ id[1] = member[1]
      BY <2>3, <3>2, <1>0, AddressedIsCurrent DEF Send, Resend, Reach, Idle
    <3>4. refused' \cap reached' = {}
      BY <1>3, <3>1, <3>2, <3>3 DEF OneTurnEach
    <3>5. DoubtIsDue'
      <4>1. SUFFICES ASSUME pc' = "reconfirm", member' \in reached'
                     PROVE  ~ Exists(member)' /\ "opaque" \notin Kinds
        BY <1>2 DEF DoubtIsDue
      <4>2. /\ \E id \in Addressed : ~ Signalable(id[1])
            /\ Idle /\ member' = member
        BY <2>3, <4>1 DEF Send, Turn, NotASurvivor, Unassessable
      <4>3. ~ Signalable(member[1]) /\ member \in reached
        BY <1>0, <3>2, <4>1, <4>2, AddressedIsCurrent DEF Idle
      <4>4. ~ Exists(member)
        BY <1>3, <4>3 DEF ReachedTakeSignals
      <4>5. ~ (Pidfd /\ Signal = "SIGKILL")
        <5>1. Pidfd /\ Signal = "SIGKILL" => Addressed = {}
          BY <4>4 DEF Addressed
        <5> QED
          BY <4>2, <5>1
      <4>6. Exists(member)' <=> Exists(member)
        BY <4>2 DEF Idle, hostVars, tableVars, Exists, Listed, Current
      <4> QED
        BY <4>4, <4>5, <4>6 DEF Promised
    <3> QED
      BY <2>1, <3>4, <3>5
  <2>4. CASE ~ Reconfirm /\ ~ Send
    <3>1. pc' # "reconfirm"
      BY <1>5, <2>4 DEF Step, Killpg, KillpgFails, SignalDirect, Scan, ListFails, ListDone, Query, Verify,
         Decide, Turn, NotASurvivor, Unassessable
    <3>2. refused' = refused
      BY <1>5, <2>4 DEF Step, Killpg, KillpgFails, SignalDirect, Scan, ListFails, ListDone, Query, Verify,
         Decide, Turn, NotASurvivor, Unassessable, doneVars
    <3>3. reached' = reached \/ refused = {}
      <4>1. CASE Killpg \/ SignalDirect
        BY <4>1 DEF Killpg, SignalDirect, OneTurnEach
      <4>2. CASE ~ Killpg /\ ~ SignalDirect
        BY <1>5, <2>4, <4>2 DEF Step, KillpgFails, Scan, ListFails, ListDone, Query, Verify, Decide, Idle
      <4> QED
        BY <4>1, <4>2
    <3> QED
      BY <1>3, <2>1, <3>1, <3>2, <3>3 DEF DoubtIsDue
  <2> QED
    BY <2>2, <2>3, <2>4
<1> QED
  BY <1>4, <1>5 DEF Next

-----------------------------------------------------------------------------
(* No member is forgotten.                                                 *)
LEMMA KeepsAccounted ==
  ASSUME TermHosts, TypeOK, CallShape, AllPast, LeaderStays, UnreachedRefuse, Accounted, Next
  PROVE  Accounted'
<1>0. TableTypeOK /\ CallKinds /\ NoMember \notin ProcessId
  BY KindsAreTypes, RootIsThere
<1>s. Signal' = Signal /\ Signal \in {"SIGKILL", "SIGTERM"}
  BY <1>0, HostKeepsPast, StepEffect, SettingOfCall DEF Next, Signal, TableTypeOK
<1>a. \A id \in present \cup heard : Concerns(id) => Answered(id)
  BY DEF Accounted
<1> SUFFICES ASSUME NEW id \in present' \cup heard', Concerns(id)'
             PROVE  Answered(id)'
  BY DEF Accounted
<1>r. Running(id)' /\ pgrp'[id[1]] = Root /\ id \notin unseen'
  BY DEF Concerns, Remains
<1>1. CASE Host
  <2>1. UNCHANGED <<pc, listVars, member, doneVars, seenVars, reached>>
    BY <1>1, HostMoves
  <2>2. Running(id) /\ pgrp[id[1]] = Root
    BY <1>1, <1>r, <2>1, HostKeepsMembers DEF seenVars
  <2>3. Concerns(id)
    BY <1>s, <1>r, <2>1, <2>2 DEF Concerns, Remains, seenVars
  <2> QED
    BY <1>a, <2>1, <2>3 DEF Answered, TurnToCome, listVars, doneVars, seenVars
<1>2. CASE Step
  <2>0. id \in ProcessId /\ id[1] \in Pid
    <3>1. present' \subseteq ProcessId /\ heard' \subseteq ProcessId
      BY <1>0, <1>2, StepKinds, KindsAreTypes, StepKeepsPast DEF CallKinds
    <3> QED
      BY <3>1 DEF ProcessId
  <2>1. /\ UNCHANGED <<token, pgrp, kind>> /\ reached \subseteq reached' /\ Running(id)
        /\ unseen \subseteq unseen'
    <3>1. UNCHANGED <<token, pgrp, kind>> /\ reached \subseteq reached' /\ Running(id)
      BY <1>0, <1>2, <1>r, <2>0, StepEffect, StepKeepsPast
    <3>2. unseen \subseteq unseen'
      BY <1>2 DEF Step, Killpg, KillpgFails, SignalDirect, Scan, ListFails, ListDone, Query, Verify, Send,
         Reconfirm, Decide, Turn, NotASurvivor, Unassessable, seenVars
    <3> QED
      BY <3>1, <3>2
  <2>2. Current(id[1]) = id /\ Exists(id) /\ IsAlive(id) /\ InGroup(id[1]) /\ id \notin unseen
    BY <1>r, <2>1 DEF Running, IsAlive, Exists, InGroup
  <2>3. ASSUME UNCHANGED <<present, heard>>
        PROVE  Answered(id) /\ id \in present \cup heard
    BY <1>a, <1>s, <1>r, <2>1, <2>2, <2>3 DEF Concerns, Remains
  <2>4. CASE Killpg
    <3>1. id \in present' /\ unscanned' = Pid /\ pc' \in {"direct", "list"}
      BY <2>4 DEF Killpg, CallShape
    <3> QED
      BY <2>0, <3>1 DEF Answered, TurnToCome
  <2>5. CASE KillpgFails \/ ListFails
    BY <2>5 DEF KillpgFails, ListFails, Answered
  <2>6. CASE SignalDirect
    BY <2>1, <2>3, <2>6 DEF SignalDirect, Answered, TurnToCome, listVars, doneVars, seenVars
  <2>7. CASE Scan
    <3>1. PICK read \in SUBSET Pid :
            /\ unscanned' = unscanned \ read
            /\ listed' = listed \cup {Current(p) : p \in {q \in read : Listable(q)}}
            /\ heard' = heard \cup {Current(p) : p \in {q \in read : Listable(q)}}
            /\ unseen' = unseen \cup {Current(p) : p \in {q \in read : Listed(q) /\ ~ Listable(q)}}
      BY <1>0, <2>7 DEF Scan, Reads, CallKinds
    <3>2. UNCHANGED <<pc, member, doneVars, present, reached>> /\ pc = "list"
      BY <2>7 DEF Scan, Idle
    <3>3. CASE id[1] \in read
      <4>1. Listable(id[1])
        BY <1>r, <2>2, <3>1, <3>3 DEF InGroup
      <4> QED
        BY <2>2, <3>1, <3>3, <4>1 DEF Answered, TurnToCome
    <3>4. CASE id[1] \notin read
      <4>1. id \in present \cup heard
        BY <3>1, <3>2, <3>4 DEF Current
      <4>2. Answered(id)
        BY <1>a, <1>s, <1>r, <2>1, <2>2, <3>2, <4>1 DEF Concerns, Remains
      <4> QED
        BY <3>1, <3>2, <3>4, <4>2 DEF Answered, TurnToCome, doneVars
    <3> QED
      BY <3>3, <3>4
  <2>8. CASE ListDone
    BY <2>1, <2>3, <2>8 DEF ListDone, Answered, TurnToCome, listVars, doneVars, seenVars
  <2>9. CASE Query
    <3>1. PICK i \in listed : /\ listed' = listed \ {i}
                              /\ IF Dead(i) THEN Turn("query", NoMember) ELSE Turn("verify", i)
      BY <2>9 DEF Query
    <3>2. UNCHANGED <<present, heard, refused, unassessable, unscanned>> /\ pc = "query"
      BY <2>9, <3>1 DEF Query, Turn, seenVars
    <3>3. ~ Dead(id)
      BY <2>2 DEF Dead
    <3>4. Answered(id) /\ id # member
      BY <1>0, <2>0, <2>3, <3>2 DEF CallShape
    <3>5. i = id => member' = id
      BY <3>1, <3>3 DEF Turn
    <3> QED
      BY <2>1, <3>1, <3>2, <3>4, <3>5 DEF Answered, TurnToCome
  <2>10. CASE Verify \/ Send \/ Reconfirm
    <3>1. UNCHANGED <<present, heard, unscanned, listed>> /\ pc \notin {"direct", "list", "done"}
      BY <2>10 DEF Verify, Send, Reconfirm, Turn, NotASurvivor, Unassessable, seenVars
    <3>2. refused \subseteq refused' /\ unassessable \subseteq unassessable'
      BY <2>10 DEF Verify, Send, Reconfirm, Turn, NotASurvivor, Unassessable
    <3>3. Answered(id) /\ id \in present \cup heard
      BY <2>3, <3>1
    <3>4. CASE id # member
      BY <2>1, <3>1, <3>2, <3>3, <3>4 DEF Answered, TurnToCome
    <3>5. CASE id = member /\ Verify
      BY <2>2, <3>5 DEF Verify, Turn, NotASurvivor, Unassessable, Answered, TurnToCome
    <3>6. CASE id = member /\ Reconfirm
      <4>1. ~ Dead(id)
        BY <2>2 DEF Dead
      <4> QED
        BY <3>6, <4>1 DEF Reconfirm, Answered
    <3>7. CASE id = member /\ Send
      <4>1. member \in ProcessId /\ id \in Addressed
        BY <1>0, <2>0, <2>2, <3>7, AddressedIsCurrent
      <4>2. CASE (\A i \in Addressed : Signalable(i[1])) /\ Resend /\ NotASurvivor
        <5>1. CASE Signal = "SIGKILL"
          <6>1. reached' = reached \cup Addressed
            BY <4>2, <5>1 DEF Resend, Reach
          <6> QED
            BY <4>1, <6>1 DEF Answered
        <5>2. CASE Signal = "SIGTERM"
          <6>1. id \in present
            BY <1>s, <3>1, <5>2 DEF Concerns
          <6>2. Signalable(id[1])
            BY <4>1, <4>2
          <6>3. id \in reached
            BY <2>1, <5>2, <6>1, <6>2 DEF UnreachedRefuse, Signalable
          <6> QED
            BY <2>1, <6>3 DEF Answered
        <5> QED
          BY <1>s, <5>1, <5>2
      <4>3. CASE Turn("reconfirm", member)
        BY <3>7, <4>3 DEF Turn, Answered, TurnToCome
      <4>4. CASE Unassessable
        BY <3>7, <4>4 DEF Unassessable, Answered
      <4> QED
        BY <3>7, <4>2, <4>3, <4>4 DEF Send
    <3> QED
      BY <2>10, <3>4, <3>5, <3>6, <3>7
  <2>11. CASE Decide
    <3>1. UNCHANGED <<present, heard, refused, unassessable>> /\ pc = "query" /\ listed = {} /\ member = NoMember
      BY <2>11 DEF Decide, CallShape, seenVars
    <3>2. Answered(id) /\ id # member
      BY <1>0, <2>0, <2>3, <3>1
    <3>3. id \in reached \/ id \in refused \/ id \in unassessable
      BY <3>1, <3>2 DEF Answered, TurnToCome
    <3> QED
      BY <2>1, <3>1, <3>3 DEF Answered
  <2> QED
    BY <1>2, <2>4, <2>5, <2>6, <2>7, <2>8, <2>9, <2>10, <2>11 DEF Step
<1> QED
  BY <1>1, <1>2 DEF Next

-----------------------------------------------------------------------------
(* The invariants, from the first state on.                                *)
Safe == TypeOK /\ AimInv
Inv == Safe /\ TruthInv

LEMMA InitInv == Init => Inv
<1> SUFFICES ASSUME Init
             PROVE  Inv
  OBVIOUS
<1>1. TableTypeOK /\ Root \in Pid /\ RootId \in ProcessId
  BY InitTypes, RootIsThere DEF Init
<1>2. pgrp \in [Pid -> Pid \cup {NoGroup}] /\ kind \in [Pid -> Kind]
  BY <1>1 DEF Init, Kind
<1>3. TypeOK
  BY <1>1, <1>2 DEF Init, TypeOK, Verdict
<1>4. CallShape /\ AllPast /\ SignalsAreAimed
  BY DEF Init, CallShape, AllPast, SignalsAreAimed, NoStrangerSignalled, TermSentOnce
<1>5. LeaderPinned
  BY <1>1 DEF Init, TableInit, LeaderPinned, Listed
<1>6. GroupIsOurs
  <2>1. \A p \in Pid : InGroup(p) => p = Root
    BY <1>1, SettingFacts DEF Init, InGroup, NoGroup, TableTypeOK, InitPid
  <2>2. Current(Root) = RootId /\ RootId \in genuine
    BY <1>1 DEF Init, TableInit, Current, RootId
  <2> QED
    BY <2>1, <2>2 DEF Init, GroupIsOurs
<1>7. TruthInv
  BY DEF Init, TruthInv, LeaderStays, Accounted, ReachedAreDown, UnreachedRefuse, KindsOccur
<1> QED
  BY <1>3, <1>4, <1>5, <1>6, <1>7 DEF Inv, Safe, AimInv

LEMMA GenuineGrows ==
  ASSUME TypeOK, CallShape, Next
  PROVE  genuine \subseteq genuine'
<1>0. TableTypeOK /\ CallKinds
  BY KindsAreTypes
<1>1. CASE Step
  BY <1>0, <1>1, StepEffect
<1>2. CASE Host
  <2>1. PICK p \in Pid, q \in Pid : Forks(p, q) \/ Ends(p) \/ Changes(p)
    BY <1>2, HostMoves
  <2>2. CASE Forks(p, q)
    BY <1>0, <2>2, ForkEffect DEF Forks
  <2> QED
    BY <2>1, <2>2 DEF Ends, Exit, Collect, Changes, HostRegroup, HostExec, tableVars
<1> QED
  BY <1>1, <1>2 DEF Next

(* A stutter changes nothing that the invariants read.                     *)
LEMMA StutterKeepsAim == Safe /\ UNCHANGED vars => Safe'
BY DEF Safe, TypeOK, TableTypeOK, AimInv, CallShape, AllPast, LeaderPinned, GroupIsOurs, SignalsAreAimed,
   NoStrangerSignalled, TermSentOnce, vars, hostVars, tableVars, listVars, doneVars, seenVars,
   Past, Current, Listed, InGroup, Token, MaxToken, ProcessId, RootId, Signal, Pidfd, RootReaped

LEMMA StutterKeepsTruth == TruthInv /\ UNCHANGED vars => TruthInv'
BY DEF TruthInv, LeaderStays, Accounted, Concerns, Answered, TurnToCome, Remains, ReachedAreDown,
   UnreachedRefuse, KindsOccur, vars, hostVars, tableVars, listVars, doneVars, seenVars,
   Running, Exists, Current, Listed, Signal, Kinds

LEMMA NextSafe == Safe /\ [Next]_vars => Safe'
<1> SUFFICES ASSUME Safe, [Next]_vars
             PROVE  Safe'
  OBVIOUS
<1>1. CASE Next
  <2>1. TypeOK /\ CallShape /\ AllPast /\ LeaderPinned /\ GroupIsOurs /\ SignalsAreAimed
    BY DEF Safe, AimInv
  <2>2. TypeOK' /\ CallShape' /\ AllPast' /\ LeaderPinned' /\ GroupIsOurs' /\ SignalsAreAimed'
    BY <1>1, <2>1, StepKinds, KeepsShape, KeepsPast, KeepsLeader, KeepsGroup, GenuineGrows, KeepsAimed
  <2> QED
    BY <2>2 DEF Safe, AimInv
<1> QED
  BY <1>1, StutterKeepsAim

LEMMA NextTruth == TermHosts /\ Inv /\ [Next]_vars => TruthInv'
<1> SUFFICES ASSUME TermHosts, Inv, [Next]_vars
             PROVE  TruthInv'
  OBVIOUS
<1>1. CASE Next
  <2>1. TypeOK /\ CallShape /\ AllPast /\ LeaderStays /\ Accounted /\ ReachedAreDown /\ UnreachedRefuse /\ KindsOccur
    BY DEF Inv, Safe, AimInv, TruthInv
  <2>2. LeaderStays' /\ Accounted' /\ ReachedAreDown' /\ UnreachedRefuse' /\ KindsOccur'
    BY <1>1, <2>1, KeepsLeaderStays, KeepsAccounted, KeepsDown, KeepsRefusal, KeepsKindsOccur
  <2> QED
    BY <2>2 DEF TruthInv
<1> QED
  BY <1>1, StutterKeepsTruth DEF Inv

LEMMA AlwaysSafe == Spec => []Safe
<1>1. Init => Safe
  BY InitInv DEF Inv
<1> QED
  BY <1>1, NextSafe, PTL DEF Spec

-----------------------------------------------------------------------------
(* The call comes to an end: its measure is made of natural numbers, and   *)
(* each of its steps lowers it.                                            *)
PhaseOf(l) == IF l = "done" THEN 0 ELSE IF l = "list" THEN 2 ELSE IF l = "direct" THEN 3
              ELSE IF l = "idle" THEN 4 ELSE 1
Steps(l) == IF l = "reconfirm" THEN 1 ELSE IF l = "send" THEN 2 ELSE IF l = "verify" THEN 3 ELSE 0
Todo(l, m, u) == IF PhaseOf(l) = 1 THEN 4 * Cardinality(m) + Steps(l)
                 ELSE IF PhaseOf(l) = 2 THEN Cardinality(u) ELSE 0

LEMMA LeftIsThis ==
  /\ CallKinds => Left = <<PhaseOf(pc), Todo(pc, listed, unscanned)>>
  /\ CallKinds' => Left' = <<PhaseOf(pc'), Todo(pc', listed', unscanned')>>
<1>1. Phase = PhaseOf(pc) /\ Phase' = PhaseOf(pc')
  BY DEF Phase, PhaseOf
<1>2. \A l \in {"reconfirm", "send", "verify", "query"} : StepsToTake[l] = Steps(l)
  BY DEF StepsToTake, Steps
<1>3. CallKinds /\ PhaseOf(pc) = 1 => pc \in {"reconfirm", "send", "verify", "query"}
  BY DEF CallKinds, PhaseOf
<1>4. CallKinds' /\ PhaseOf(pc') = 1 => pc' \in {"reconfirm", "send", "verify", "query"}
  BY DEF CallKinds, PhaseOf
<1>5. CallKinds => Left = <<PhaseOf(pc), Todo(pc, listed, unscanned)>>
  BY <1>1, <1>2, <1>3 DEF Left, Todo
<1>6. CallKinds' => Left' = <<PhaseOf(pc'), Todo(pc', listed', unscanned')>>
  <2>1. Left' = <<Phase', CASE Phase' = 1 -> 4 * Cardinality(listed') + StepsToTake[pc']
                            [] Phase' = 2 -> Cardinality(unscanned')
                            [] OTHER      -> 0>>
    BY DEF Left, StepsToTake
  <2> QED
    BY <1>1, <1>2, <1>4, <2>1 DEF Todo
<1> QED
  BY <1>5, <1>6

LEMMA SizesOfTheCall ==
  ASSUME IsFiniteSet(Pid), TableTypeOK, CallKinds
  PROVE  /\ IsFiniteSet(listed) /\ IsFiniteSet(unscanned)
         /\ Cardinality(listed) \in Nat /\ Cardinality(unscanned) \in Nat
<1>0. MaxToken \in Nat
  BY SettingFacts DEF TableTypeOK
<1>1. IsFiniteSet(Token)
  BY <1>0, FS_Interval DEF Token
<1>2. IsFiniteSet(ProcessId)
  BY <1>1, FS_Product DEF ProcessId
<1>3. IsFiniteSet(listed) /\ IsFiniteSet(unscanned)
  BY <1>2, FS_Subset DEF CallKinds
<1> QED
  BY <1>3, FS_CardinalityType

LEMMA LeftIsNatural ==
  ASSUME IsFiniteSet(Pid), TableTypeOK, CallKinds
  PROVE  Left \in Nat \X Nat
<1>1. Todo(pc, listed, unscanned) \in Nat /\ PhaseOf(pc) \in Nat
  BY SizesOfTheCall DEF Todo, PhaseOf, Steps
<1> QED
  BY <1>1, LeftIsThis

Lower == \/ Left'[1] < Left[1]
         \/ Left'[1] = Left[1] /\ Left'[2] < Left[2]

LEMMA StepLowers ==
  ASSUME IsFiniteSet(Pid), TableTypeOK, CallKinds, CallKinds', Step
  PROVE  Lower
<1> DEFINE n == Cardinality(listed)
<1>0. /\ IsFiniteSet(listed) /\ IsFiniteSet(unscanned)
      /\ n \in Nat /\ Cardinality(unscanned) \in Nat
  BY SizesOfTheCall
<1>1. /\ PhaseOf(pc') < PhaseOf(pc) => Lower
      /\ PhaseOf(pc) = 1 /\ PhaseOf(pc') = 1
           /\ 4 * Cardinality(listed') + Steps(pc') < 4 * n + Steps(pc) => Lower
      /\ pc = "list" /\ pc' = "list" /\ Cardinality(unscanned') < Cardinality(unscanned) => Lower
  BY LeftIsThis DEF Lower, Todo, PhaseOf
<1>2. CASE Killpg \/ KillpgFails \/ SignalDirect \/ ListFails \/ ListDone \/ Decide
  BY <1>1, <1>2 DEF Killpg, KillpgFails, SignalDirect, ListFails, ListDone, Decide, PhaseOf
<1>3. CASE Scan
  <2>1. PICK read \in Reads : unscanned' = unscanned \ read
    BY <1>3 DEF Scan
  <2>2. unscanned # {} /\ pc = "list" /\ pc' = "list"
    BY <1>3 DEF Scan
  <2>3. PICK p \in unscanned : p \in read
    BY <2>1, <2>2 DEF Reads
  <2>4. unscanned' \in SUBSET unscanned /\ unscanned' # unscanned
    BY <2>1, <2>3
  <2>5. Cardinality(unscanned') < Cardinality(unscanned)
    BY <1>0, <2>4, FS_Subset, FS_CardinalityType
  <2> QED
    BY <1>1, <2>2, <2>5
<1>4. CASE Query
  <2>1. PICK id \in listed : /\ listed' = listed \ {id}
                             /\ IF Dead(id) THEN Turn("query", NoMember) ELSE Turn("verify", id)
    BY <1>4 DEF Query
  <2>2. Cardinality(listed') = n - 1
    BY <1>0, <2>1, FS_RemoveElement
  <2>3. pc = "query" /\ pc' \in {"query", "verify"}
    BY <1>4, <2>1 DEF Query, Turn
  <2> QED
    BY <1>0, <1>1, <2>2, <2>3 DEF PhaseOf, Steps
<1>5. CASE Verify \/ Send \/ Reconfirm
  <2>1. listed' = listed
    BY <1>5 DEF Verify, Send, Reconfirm, NotASurvivor, Unassessable, Turn
  <2>2. \/ pc = "verify" /\ pc' \in {"query", "send"}
        \/ pc = "send" /\ pc' \in {"query", "reconfirm"}
        \/ pc = "reconfirm" /\ pc' = "query"
    BY <1>5 DEF Verify, Send, Reconfirm, NotASurvivor, Unassessable, Turn
  <2> QED
    BY <1>0, <1>1, <2>1, <2>2 DEF PhaseOf, Steps
<1> QED
  BY <1>2, <1>3, <1>4, <1>5 DEF Step

-----------------------------------------------------------------------------
(* The theorems.                                                           *)

(* signal_group's locals and the table keep their types.                   *)
THEOREM TypeCorrect == Spec => []TypeOK
<1>1. Safe => TypeOK
  BY DEF Safe
<1> QED
  BY <1>1, AlwaysSafe, PTL

(* signal_group, converge: with a pidfd and a leader not collected, no     *)
(* signal leaves the tree, and no call sends a process two SIGTERMs.       *)
THEOREM SignalsStayAimed == Spec => []SignalsAreAimed
<1>1. Safe => SignalsAreAimed
  BY DEF Safe, AimInv
<1> QED
  BY <1>1, AlwaysSafe, PTL

(* decide: Ok means that each member of the group at killpg was reached,   *)
(* and after a SIGKILL that it, and each member listed since, runs no more *)
(* (for a SIGTERM, on hosts where no exec changes a member's credentials   *)
(* during the call).                                                       *)
THEOREM OkIsTheTruth == ASSUME TermHosts PROVE Spec => []OkIsHonest
<1>1. Init => Inv
  BY InitInv
<1>2. Inv /\ [Next]_vars => Inv'
  BY NextSafe, NextTruth DEF Inv
<1>3. Inv => OkIsHonest
  <2> SUFFICES ASSUME Inv, verdict = "Ok"
               PROVE  OkIsHonest
    BY DEF OkIsHonest, OkMeansReached, KillOkMeansDown
  <2>1. /\ pc = "done" /\ listed = {} /\ unscanned = {} /\ refused = {} /\ unassessable = {}
        /\ member = NoMember
    BY DEF Inv, Safe, AimInv, CallShape
  <2>2. \A id \in present \cup heard : id # NoMember
    BY RootIsThere DEF Inv, Safe, TypeOK
  <2>3. \A id \in present \cup heard : Concerns(id) => id \in reached
    BY <2>1, <2>2 DEF Inv, TruthInv, Accounted, Answered, TurnToCome
  <2>4. OkMeansReached
    BY <2>3 DEF OkMeansReached, Concerns
  <2>5. KillOkMeansDown
    BY <2>3 DEF KillOkMeansDown, Concerns, Inv, TruthInv, ReachedAreDown, Remains
  <2> QED
    BY <2>4, <2>5 DEF OkIsHonest
<1> QED
  BY <1>1, <1>2, <1>3, PTL DEF Spec

(* signal_group, converge: the call ends however fast a member that        *)
(* refuses its signal forks. Over finitely many pids its measure is made   *)
(* of natural numbers, each of its steps lowers it, and no move of the     *)
(* host raises it.                                                         *)
THEOREM CallComesToAnEnd ==
  ASSUME IsFiniteSet(Pid)
  PROVE  Spec => CallMakesProgress /\ [](Left \in Nat \X Nat) /\ [][Host => Left' = Left]_vars
<1>1. Safe => Left \in Nat \X Nat
  BY LeftIsNatural, KindsAreTypes DEF Safe
<1>2. Safe /\ Safe' /\ Step => Lower
  <2> SUFFICES ASSUME Safe, Safe', Step
               PROVE  Lower
    OBVIOUS
  <2>1. TableTypeOK /\ CallKinds /\ CallKinds'
    BY KindsAreTypes DEF Safe
  <2> QED
    BY <2>1, StepLowers
<1>3. Host => Left' = Left
  <2> SUFFICES ASSUME Host
               PROVE  Left' = Left
    OBVIOUS
  <2>1. UNCHANGED <<pc, listVars>>
    BY HostMoves
  <2> QED
    BY <2>1 DEF Left, Phase, StepsToTake, listVars
<1>4. CallMakesProgress <=> [][Step => Lower]_vars
  BY DEF CallMakesProgress, Lower
<1> QED
  BY <1>1, <1>2, <1>3, <1>4, AlwaysSafe, PTL

(* reconfirm_survivor, GroupState::Refused: a member reported as a refuser *)
(* was reached by no signal of the call, killpg's included; where no exec  *)
(* changes credentials between a SIGTERM and its probe, and where every    *)
(* process can be queried or the resend goes through a pidfd.              *)
THEOREM RefusersStaySpared == Spec => []RefusersWereSpared
<1> DEFINE RefInv == Safe /\ ReachedAreDown /\ KindsOccur /\ OneTurnEach /\ RefusalInv
<1>1. Init => RefInv
  <2>1. Init => OneTurnEach /\ RefusalInv
    BY RootIsThere DEF Init, OneTurnEach, RefusalInv, ReachedTakeSignals, DoubtIsDue
  <2> QED
    BY <2>1, InitInv DEF Inv, TruthInv
<1>2. RefInv /\ Next => RefInv'
  <2> SUFFICES ASSUME RefInv, Next
               PROVE  RefInv'
    OBVIOUS
  <2>1. TypeOK /\ CallShape /\ AllPast
    BY DEF Safe, AimInv
  <2>2. Safe'
    BY NextSafe
  <2>3. ReachedAreDown' /\ KindsOccur' /\ OneTurnEach' /\ RefusalInv'
    BY <2>1, KeepsDown, KeepsKindsOccur, KeepsOneTurnEach, KeepsRefusers
  <2> QED
    BY <2>2, <2>3
<1>3. RefInv /\ UNCHANGED vars => RefInv'
  <2> SUFFICES ASSUME RefInv, UNCHANGED vars
               PROVE  RefInv'
    OBVIOUS
  <2>1. Safe'
    BY StutterKeepsAim
  <2>2. ReachedAreDown' /\ KindsOccur' /\ OneTurnEach' /\ RefusalInv'
    BY DEF ReachedAreDown, KindsOccur, OneTurnEach, RefusalInv, Promised, ReachedTakeSignals, DoubtIsDue,
       Signalable, Running, Exists, Current, Listed, Signal, Kinds, Setuid, Pidfd, vars, hostVars,
       tableVars, listVars, doneVars, seenVars
  <2> QED
    BY <2>1, <2>2
<1>4. RefInv => RefusersWereSpared
  BY DEF RefusalInv, Promised, RefusersWereSpared
<1> QED
  BY <1>1, <1>2, <1>3, <1>4, PTL DEF Spec
=============================================================================
