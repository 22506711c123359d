--------------------------- MODULE GroupTeardown ---------------------------
(***************************************************************************)
(* Signalling a contained process group and reporting what was achieved:   *)
(* killpg as a first delivery attempt, then ONE listing of the group, and  *)
(* for each listed member a liveness query, a verified resend (SIGKILL) or *)
(* probe (SIGTERM), and a second liveness query before a refusal is final. *)
(*                                                                         *)
(*   src/src/containment/unix.rs         signal_group, verify              *)
(*   src/src/containment/unix/group.rs   members, converge, decide         *)
(*                                                                         *)
(* The host forks, exits, changes credentials, leaves the group and        *)
(* recycles pids between any two of these steps.                           *)
(***************************************************************************)
EXTENDS ProcessTable

(* plain: ours to signal. foreign: refuses with EPERM. opaque: refuses and *)
(* answers no identity query. system: excluded from the SIGKILL resend.    *)
Kind == {"plain", "foreign", "opaque", "system"}

ASSUME GroupAssumption ==
  \A s \in Settings :
     /\ s.signal \in {"SIGKILL", "SIGTERM"}
     /\ s.kinds \subseteq Kind
     /\ {s.listsOpaque, s.atomicList, s.pidfd, s.setuid, s.rootReaped} \subseteq BOOLEAN

VARIABLES pgrp,          \* the process group of each pid
          kind,          \* the kind of each pid's occupant
          pc,            \* where signal_group stands
          unscanned,     \* pids the listing has not read yet
          listed,        \* the members still to be classified
          member,        \* the member being classified, or NoMember
          refused,       \* members that answered EPERM and are not dead
          unassessable,  \* members nothing could be said about
          verdict,       \* what signal_group returned
          present,       \* history: the members running at killpg
          heard,         \* history: the members the listing returned
          unseen,        \* history: the members the listing could not read
          reached,       \* history: identities the signal was delivered to
          again          \* history: identities it was delivered to twice

Signal == setting.signal
Kinds == setting.kinds              \* the kinds of process that occur
ListsOpaque == setting.listsOpaque  \* sysctl lists any member, hidepid does not
AtomicList == setting.atomicList    \* one sysctl, or /proc pid by pid
Pidfd == setting.pidfd              \* a resend goes through a verified pidfd
Setuid == setting.setuid            \* an exec may change kind during the call
RootReaped == setting.rootReaped    \* the leader may be collected before it

hostVars == <<tableVars, pgrp, kind>>
listVars == <<unscanned, listed>>
doneVars == <<refused, unassessable, verdict>>
seenVars == <<present, heard, unseen>>
vars == <<hostVars, pc, listVars, member, doneVars, seenVars, reached, again>>

NoGroup == 0
NoMember == <<InitPid, 0>>
Verdict == {"none", "Ok", "Containment", "Unassessable", "Unlistable", "Io"}

TypeOK == /\ TableTypeOK
          /\ pgrp \in [Pid -> Pid \cup {NoGroup}]
          /\ kind \in [Pid -> Kind]
          /\ pc \in {"idle", "direct", "list", "query", "verify", "send", "reconfirm", "done"}
          /\ unscanned \subseteq Pid
          /\ listed \cup refused \cup unassessable \cup present \cup heard \cup unseen
                \cup reached \cup again \subseteq ProcessId
          /\ member \in ProcessId \cup {NoMember}
          /\ verdict \in Verdict

Init == /\ TableInit
        /\ pgrp = [p \in Pid |-> IF p = Root THEN Root ELSE NoGroup]
        /\ kind = [p \in Pid |-> "plain"]
        /\ pc = "idle"
        /\ unscanned = {} /\ listed = {} /\ member = NoMember
        /\ refused = {} /\ unassessable = {} /\ verdict = "none"
        /\ present = {} /\ heard = {} /\ unseen = {} /\ reached = {} /\ again = {}

InGroup(p) == Listed(p) /\ pgrp[p] = Root

-----------------------------------------------------------------------------
(* What the kernel answers.                                                *)

Signalable(p) == kind[p] \in {"plain", "system"}

(* Liveness and identity: an opaque occupant answers neither.              *)
Answers(p) == Listed(p) => kind[p] # "opaque"
Dead(id) == Answers(id[1]) /\ ~ IsAlive(id)

Reach(ids) == /\ reached' = reached \cup ids
              /\ again' = again \cup (reached \cap ids)
              /\ state' = IF Signal = "SIGKILL"
                          THEN [p \in Pid |-> IF Current(p) \in ids /\ state[p] = "live"
                                              THEN "doomed" ELSE state[p]]
                          ELSE state
              /\ UNCHANGED <<setting, token, ppid, now, genuine, pgrp, kind>>

Idle == UNCHANGED <<hostVars, reached, again>>

-----------------------------------------------------------------------------
(* signal_group. killpg reports success once ANY member took the signal;   *)
(* with none, ESRCH and EPERM are both possible; another errno returns.    *)
Takers == {p \in Pid : InGroup(p) /\ Signalable(p) /\ kind[p] # "system"}

RunningMembers == {Current(p) : p \in {q \in Pid : InGroup(q) /\ state[q] = "live"}}

Killpg == /\ pc = "idle"
          /\ Reach({Current(p) : p \in Takers})
          /\ present' = RunningMembers
          /\ \/ pc' = "list"
             \/ Takers = {} /\ (\E p \in Pid : InGroup(p)) /\ pc' = "direct"
          /\ unscanned' = Pid
          /\ UNCHANGED <<listed, member, doneVars, heard, unseen>>

KillpgFails == /\ pc = "idle"
               /\ pc' = "done"
               /\ verdict' = "Io"
               /\ Idle
               /\ UNCHANGED <<listVars, member, refused, unassessable, seenVars>>

(* signal_direct, on EPERM: the leader's bare pid; its result is ignored.  *)
SignalDirect == /\ pc = "direct"
                /\ pc' = "list"
                /\ Reach(IF Listed(Root) /\ Signalable(Root) THEN {Current(Root)} ELSE {})
                /\ UNCHANGED <<listVars, member, doneVars, seenVars>>

-----------------------------------------------------------------------------
(* members: one record per listed member, carrying its start token.        *)
Listable(p) == InGroup(p) /\ (ListsOpaque \/ kind[p] # "opaque")

(* One sysctl reads them all, /proc yields the next pid.                   *)
Reads == IF AtomicList THEN {unscanned}
         ELSE {{p} : p \in {q \in unscanned : \A r \in unscanned : q <= r}}

Scan == /\ pc = "list"
        /\ unscanned # {}
        /\ \E read \in Reads :
             LET new == {Current(p) : p \in {q \in read : Listable(q)}}
             IN /\ unscanned' = unscanned \ read
                /\ listed' = listed \cup new
                /\ heard' = heard \cup new
                /\ unseen' = unseen \cup {Current(p) : p \in {q \in read : Listed(q) /\ ~ Listable(q)}}
        /\ Idle
        /\ UNCHANGED <<pc, member, doneVars, present>>

ListFails == /\ pc = "list"
             /\ unscanned # {}
             /\ pc' = "done"
             /\ verdict' = "Unlistable"
             /\ Idle
             /\ UNCHANGED <<listVars, member, refused, unassessable, seenVars>>

ListDone == /\ pc = "list"
            /\ unscanned = {}
            /\ pc' = "query"
            /\ Idle
            /\ UNCHANGED <<listVars, member, doneVars, seenVars>>

-----------------------------------------------------------------------------
(* converge: one member after the other.                                   *)

Turn(next, kept) == /\ pc' = next
                    /\ member' = kept
                    /\ UNCHANGED <<unscanned, verdict, seenVars>>

NotASurvivor == Turn("query", NoMember) /\ UNCHANGED <<listed, refused, unassessable>>

Unassessable == /\ Turn("query", NoMember)
                /\ unassessable' = unassessable \cup {member}
                /\ UNCHANGED <<listed, refused>>

(* classify_member: only a positive Dead spares the attempt.               *)
Query == /\ pc = "query"
         /\ \E id \in listed : /\ listed' = listed \ {id}
                               /\ IF Dead(id) THEN Turn("query", NoMember)
                                              ELSE Turn("verify", id)
         /\ Idle
         /\ UNCHANGED <<refused, unassessable>>

Excluded(id) == Signal = "SIGKILL" /\ kind[id[1]] = "system"

(* check_or_signal, open_verified: the identity is resolved once more.     *)
Verify ==
  /\ pc = "verify"
  /\ \/ /\ Excluded(member) \/ ~ Answers(member[1])
        /\ Unassessable
     \/ /\ ~ Excluded(member) /\ Answers(member[1]) /\ ~ Exists(member)
        /\ NotASurvivor
     \/ /\ ~ Excluded(member) /\ Answers(member[1]) /\ Exists(member)
        /\ Turn("send", member)
        /\ UNCHANGED <<listed, refused, unassessable>>
  /\ Idle

(* Mutant: the resend goes to the bare pid even where a pidfd is open.     *)
AddressedByPid == {Current(p) : p \in {q \in {member[1]} : Listed(q)}}

(* The process the resend or probe addresses: a pidfd stays on the verified *)
(* one; a bare pid, all a probe ever has, is whatever holds it now.        *)
Addressed == IF Pidfd /\ Signal = "SIGKILL"
             THEN {id \in {member} : Exists(id)}
             ELSE {Current(p) : p \in {q \in {member[1]} : Listed(q)}}

(* Mutant: every signal is resent for real.                                *)
ResendAny == Reach(Addressed)

(* SIGKILL is sent for real, anything else only probes: kill(pid, 0).     *)
Resend == IF Signal = "SIGKILL" THEN Reach(Addressed) ELSE Idle

(* ESRCH is success, EPERM a refusal, any other errno says nothing.        *)
Send == /\ pc = "send"
        /\ \/ /\ \A id \in Addressed : Signalable(id[1])
              /\ Resend
              /\ NotASurvivor
           \/ /\ \E id \in Addressed : ~ Signalable(id[1])
              /\ Idle
              /\ Turn("reconfirm", member)
              /\ UNCHANGED <<listed, refused, unassessable>>
           \/ Idle /\ Unassessable

(* Mutant: the first EPERM is final.                                       *)
ReconfirmNothing == /\ pc = "reconfirm"
                    /\ Turn("query", NoMember)
                    /\ refused' = refused \cup {member}
                    /\ Idle
                    /\ UNCHANGED <<listed, unassessable>>

(* Mutant: the refuser is kept under the tick after the one it started in. *)
ReconfirmNextTick == /\ pc = "reconfirm"
                     /\ Turn("query", NoMember)
                     /\ refused' = IF Dead(member) THEN refused
                                   ELSE refused \cup {<<member[1], member[2] + 1>>}
                     /\ Idle
                     /\ UNCHANGED <<listed, unassessable>>

(* reconfirm_survivor: only a positive Dead overturns an observed EPERM.   *)
Reconfirm == /\ pc = "reconfirm"
             /\ Turn("query", NoMember)
             /\ refused' = IF Dead(member) THEN refused ELSE refused \cup {member}
             /\ Idle
             /\ UNCHANGED <<listed, unassessable>>

(* Mutant: a delivery that reached anyone settles the verdict.             *)
OutcomeOfKillpg == IF reached # {} THEN "Ok" ELSE "Containment"

(* Mutant: only a refusal counts, an unassessable member does not.         *)
OutcomeOfRefusals == IF refused # {} THEN "Containment" ELSE "Ok"

(* decide, and verify's mapping to the error: a refusal wins.              *)
Outcome == IF refused # {} THEN "Containment"
           ELSE IF unassessable # {} THEN "Unassessable" ELSE "Ok"

(* Mutant: list and converge again until nothing refuses.                  *)
DecideOrRetry == /\ pc = "query"
                 /\ listed = {}
                 /\ IF refused = {} THEN pc' = "done" /\ UNCHANGED unscanned
                                    ELSE pc' = "list" /\ unscanned' = Pid
                 /\ verdict' = Outcome
                 /\ refused' = {}
                 /\ Idle
                 /\ UNCHANGED <<listed, member, unassessable, seenVars>>

Decide == /\ pc = "query"
          /\ listed = {}
          /\ pc' = "done"
          /\ verdict' = Outcome
          /\ Idle
          /\ UNCHANGED <<listVars, member, refused, unassessable, seenVars>>

-----------------------------------------------------------------------------
Step == \/ Killpg \/ KillpgFails \/ SignalDirect \/ Scan \/ ListFails
        \/ ListDone \/ Query \/ Verify \/ Send \/ Reconfirm \/ Decide

(* A pid is not reused while it is the id of a live process group.         *)
HostFork(p, q) == /\ q = Root => \A r \in Pid : ~ InGroup(r)
                  /\ Fork(p, q)
                  /\ pgrp' = [pgrp EXCEPT ![q] = pgrp[p]]
                  /\ kind' = [kind EXCEPT ![q] = kind[p]]

HostExec(p, k) == /\ state[p] = "live"
                  /\ Current(p) \in genuine
                  /\ Setuid \/ pc = "idle"
                  /\ kind' = [kind EXCEPT ![p] = k]
                  /\ UNCHANGED <<tableVars, pgrp>>

(* setsid or setpgid: a tree member leaves, or a new leader takes its pid  *)
(* for its group.                                                          *)
HostRegroup(p) == /\ state[p] = "live"
                  /\ \/ p # Root /\ pgrp[p] = Root /\ pgrp' = [pgrp EXCEPT ![p] = NoGroup]
                     \/ p = Root /\ pgrp[p] # Root /\ pgrp' = [pgrp EXCEPT ![p] = Root]
                  /\ UNCHANGED <<tableVars, kind>>

HostCollect(p) == /\ p = Root => RootReaped
                  /\ Collect(p)
                  /\ UNCHANGED <<pgrp, kind>>

Host == /\ pc # "done"
        /\ \E p \in Pid : \/ \E q \in Pid : HostFork(p, q)
                          \/ \E k \in Kinds : HostExec(p, k)
                          \/ HostRegroup(p)
                          \/ Exit(p) /\ UNCHANGED <<pgrp, kind>>
                          \/ HostCollect(p)
        /\ UNCHANGED <<pc, listVars, member, doneVars, seenVars, reached, again>>

Next == Step \/ Host

Spec == Init /\ [][Next]_vars

-----------------------------------------------------------------------------
(* Still a running member, and one the listing was able to see.            *)
Remains(id) == Running(id) /\ pgrp[id[1]] = Root /\ id \notin unseen

(* Ok is never reported over a member of the group that the signal did not *)
(* reach: killpg's own success, which one member earns for all the others, *)
(* is not the verdict. A member that left the group, or that hidepid hid   *)
(* from the listing, is outside the promise.                               *)
OkMeansReached ==
  verdict = "Ok" => \A id \in present : Remains(id) => id \in reached

(* A SIGKILL that answered Ok leaves neither a member of the group at      *)
(* killpg nor one the listing returned later able to run.                  *)
KillOkMeansDown ==
  verdict = "Ok" /\ Signal = "SIGKILL" =>
     \A id \in present \cup heard : ~ Remains(id)

(* Ok is the truth about the group: reached, and after a SIGKILL down.     *)
OkIsHonest == OkMeansReached /\ KillOkMeansDown

(* A member reported as a refuser was reached by no signal of the call,    *)
(* killpg's included (GroupState::Refused): an EPERM that its zombie or    *)
(* the next process on its pid gave is not blamed on it. Two hosts cannot  *)
(* keep the promise: where an exec changes credentials between a SIGTERM   *)
(* and its probe, and where the next process on a bare pid is one whose    *)
(* liveness nobody can query (reconfirm_survivor keeps the refusal then).  *)
RefusersWereSpared ==
  /\ Signal = "SIGKILL" \/ ~ Setuid
  /\ "opaque" \notin Kinds \/ (Signal = "SIGKILL" /\ Pidfd)
  => refused \cap reached = {}

(* While the leader's pid is pinned by its zombie, no signal of the whole  *)
(* call lands outside the tree, recycled pids included.                    *)
NoStrangerSignalled == ~ RootReaped /\ Pidfd => reached \subseteq genuine

(* SIGTERM is delivered to no process twice: a program that takes a second *)
(* SIGTERM for an escalation must not see one (converge's design note).    *)
TermSentOnce == Signal = "SIGTERM" => again = {}

(* No signal goes where it should not, nor twice where it should once.     *)
SignalsAreAimed == NoStrangerSignalled /\ TermSentOnce

(* What is left of the call: the phases to come, and in this one the pids  *)
(* to read or the members to classify with the steps each still takes.     *)
Phase == CASE pc = "done" -> 0 [] pc = "list" -> 2 [] pc = "direct" -> 3
           [] pc = "idle" -> 4 [] OTHER -> 1
StepsToTake == [reconfirm |-> 1, send |-> 2, verify |-> 3, query |-> 0]
Left == <<Phase, CASE Phase = 1 -> 4 * Cardinality(listed) + StepsToTake[pc]
                   [] Phase = 2 -> Cardinality(unscanned)
                   [] OTHER     -> 0>>

(* One listing: every step of signal_group leaves less to do, so the call  *)
(* ends however fast a refusing member forks.                              *)
CallMakesProgress ==
  [][Step => \/ Left'[1] < Left[1]
             \/ Left'[1] = Left[1] /\ Left'[2] < Left[2]]_vars
=============================================================================
