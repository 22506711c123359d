--------------------------- MODULE FdMarkerSweep ---------------------------
(***************************************************************************)
(* The teardown of the macOS fd marker: every member inherited the write   *)
(* end of one pipe, and a sweep repeats snapshot, compute and signal over  *)
(* three channels (the ppid walk, the marker's holders, the process group) *)
(* until a pass resolves nothing new.                                      *)
(*                                                                         *)
(*   src/src/containment/fdmarker.rs   hard_kill, terminate, sweep_pass,   *)
(*                                     kill_holder, holders, finish_sweep  *)
(*                                                                         *)
(* kill_group and term_group are the ones of GroupTeardown, here in one    *)
(* step that keeps its promise, and so is the walk, TreeWalk's. What is    *)
(* split into steps is what the sweep itself strings together, down to the *)
(* three system calls of kill_holder (is the marker held, is the pid still *)
(* the same process, kill): a member may act between any two of them.      *)
(***************************************************************************)
EXTENDS ProcessTable

(* What a setting says of the call and the tree:                           *)
(*   signal    "SIGKILL" for hard_kill, "SIGTERM" for terminate            *)
(*   hasGroup  TRUE if the marker carries a pgid                           *)
(*   faults    "blind": a snapshot may fail; "unknown": the query of one   *)
(*             identity may be refused                                     *)
(*   leaves    what a member may do by itself during the sweep: "exit",    *)
(*             "close" its marker, "exec" a setuid binary                  *)
ASSUME SweepAssumption ==
  \A s \in Settings : /\ s.signal \in {"SIGKILL", "SIGTERM"}
                     /\ s.hasGroup \in BOOLEAN
                     /\ s.faults \subseteq {"blind", "unknown"}
                     /\ s.leaves \subseteq {"exit", "close", "exec"}

VARIABLES holds,       \* the pids whose occupant holds the marker
          pgrp,        \* the pids whose occupant is in the root's group
          opaque,      \* the pids whose occupant has other credentials: its
                       \* descriptors cannot be listed nor signals sent to it
          rootDenied,  \* Marker.root_denied: root is None
          pc,          \* where the sweep stands
          firstPass,   \* first_pass
          blind,       \* this pass could not read the process table
          snap,        \* this pass's snapshot: its (pid, ppid) edges
          unscanned,   \* listed pids whose descriptors are not read yet
          holders,     \* this_pass_holders
          seen,        \* the identities already dealt with by this sweep
          newWalk,     \* new_walk
          newHolders,  \* new_holders
          held,        \* the holder kill_holder just confirmed, or NoAim
          aim,         \* the identity verified for the next kill, or NoAim
          progressed,  \* this pass resolved something
          incomplete,  \* some known member could not be reached
          groupResult, \* group_result
          verdict,     \* what the sweep returned
          reached,     \* history: identities the signal was delivered to
          viaMarker,   \* history: identities kill_holder took aim at
          since,       \* history: the last token when aim was taken
          strays,      \* history: who was hit in place of an aim, and since
          broken       \* history: some group signal failed as a mechanism

Signal == setting.signal
HasGroup == setting.hasGroup
Faults == setting.faults
Leaves == setting.leaves

hostVars == <<tableVars, holds, pgrp, opaque, rootDenied>>
passVars == <<firstPass, blind, snap, unscanned, holders, newWalk, newHolders, held, aim,
              progressed>>
sweepVars == <<seen, incomplete, groupResult, verdict>>
shotVars == <<viaMarker, since, strays>>
histVars == <<reached, shotVars, broken>>
vars == <<hostVars, pc, passVars, sweepVars, histVars>>

NoAim == <<InitPid, 0>>
Failure == {"Containment", "Unassessable", "Unlistable", "Io"}

TypeOK == /\ TableTypeOK
          /\ holds \cup pgrp \cup opaque \cup unscanned \cup holders \subseteq Pid
          /\ {rootDenied, firstPass, blind, progressed, incomplete, broken} \subseteq BOOLEAN
          /\ pc \in {"idle", "snapshot", "walk", "scan", "resolve", "group", "kill", "done"}
          /\ snap \subseteq Pid \X (Pid \cup {InitPid})
          /\ seen \cup newWalk \cup newHolders \cup reached \cup viaMarker
                \subseteq ProcessId
          /\ newWalk \cup newHolders \subseteq seen
          /\ {held, aim} \subseteq ProcessId \cup {NoAim}
          /\ since \in Token /\ strays \subseteq ProcessId \X Token
          /\ groupResult \in {"Ok"} \cup Failure
          /\ verdict \in {"none", "Ok"} \cup Failure

Init == /\ TableInit
        /\ holds = {Root} /\ pgrp = {Root}
        /\ rootDenied \in BOOLEAN
        /\ opaque = {}
        /\ pc = "idle" /\ firstPass = TRUE /\ blind = FALSE
        /\ snap = {} /\ unscanned = {} /\ holders = {}
        /\ seen = {} /\ newWalk = {} /\ newHolders = {}
        /\ held = NoAim /\ aim = NoAim
        /\ progressed = FALSE /\ incomplete = FALSE
        /\ groupResult = "Ok" /\ verdict = "none"
        /\ reached = {} /\ viaMarker = {} /\ since = 0 /\ strays = {} /\ broken = FALSE

-----------------------------------------------------------------------------
(* What the kernel answers, and what a signal does.                        *)

Alive(p) == state[p] \in {"live", "doomed"}
Holds(p) == Alive(p) /\ p \in holds
InGroup(p) == Alive(p) /\ p \in pgrp
Denies(p) == Alive(p) /\ p \in opaque

(* Pids whose identity query answers Unknown just now.                     *)
Unknowns == IF "unknown" \in Faults THEN SUBSET Pid ELSE {{}}

Reach(ids) == /\ reached' = reached \cup ids
              /\ state' = IF Signal = "SIGKILL"
                          THEN [p \in Pid |-> IF Current(p) \in ids /\ state[p] = "live"
                                              THEN "doomed" ELSE state[p]]
                          ELSE state
              /\ UNCHANGED <<setting, token, ppid, now, genuine, holds, pgrp, opaque, rootDenied>>

ReachNobody == UNCHANGED <<hostVars, reached>>

-----------------------------------------------------------------------------
(* sweep_pass: the snapshot comes first, and an empty one is a blind pass. *)

Snapshot ==
  /\ pc \in {"idle", "snapshot"}
  /\ \/ blind' = FALSE /\ UNCHANGED incomplete
     \/ "blind" \in Faults /\ blind' = TRUE /\ incomplete' = TRUE
  /\ snap' = IF blind' THEN {} ELSE {<<p, ppid[p]>> : p \in {q \in Pid : Listed(q)}}
  /\ unscanned' = {e[1] : e \in snap'}
  /\ progressed' = FALSE
  /\ pc' = "walk"
  /\ ReachNobody
  /\ UNCHANGED <<firstPass, holders, newWalk, newHolders, held, aim, seen, groupResult, verdict,
                 shotVars, broken>>

(* descendants(root, &parents): the walk of TreeWalk, resolved at one go.  *)
(* A pid that answers Unknown is dropped with its subtree, and not noted.  *)
Descendants(unknown) ==
  LET Accepted(p) == Listed(p) /\ p \notin unknown /\ token[p] >= RootToken
      Closed(S) == \A e \in snap : e[2] \in S \cup {Root} /\ Accepted(e[1]) => e[1] \in S
  IN {Current(p) : p \in {q \in Pid \ {Root} : \A S \in SUBSET Pid : Closed(S) => q \in S}}

(* Mutant: what is dealt with is not remembered.                           *)
SeenBefore(ids) == seen

(* seen.insert, by identity and not by pid.                                *)
SeenWith(ids) == seen \cup ids

(* Channels 1 and 2. A root that was denied at attach is a standing gap.   *)
Walk == /\ pc = "walk"
        /\ \E unknown \in Unknowns :
             LET tree == IF rootDenied THEN {} ELSE {RootId} \cup Descendants(unknown)
             IN /\ newWalk' = tree \ seen
                /\ seen' = SeenWith(tree)
        /\ incomplete' = (incomplete \/ rootDenied)
        /\ snap' = {}
        /\ pc' = "scan"
        /\ ReachNobody
        /\ UNCHANGED <<firstPass, blind, unscanned, holders, newHolders, held, aim, progressed,
                       groupResult, verdict, shotVars, broken>>

(* holders: pid by pid. A denied pid is only counted, not reported.        *)
Scan == /\ pc = "scan"
        /\ IF unscanned = {}
           THEN pc' = "resolve" /\ UNCHANGED <<unscanned, holders>>
           ELSE LET p == CHOOSE p \in unscanned : \A q \in unscanned : p <= q
                IN /\ unscanned' = unscanned \ {p}
                   /\ holders' = IF Holds(p) /\ ~ Denies(p) THEN holders \cup {p}
                                                                ELSE holders
                   /\ UNCHANGED pc
        /\ ReachNobody
        /\ UNCHANGED <<firstPass, blind, snap, newWalk, newHolders, held, aim, progressed,
                       sweepVars, shotVars, broken>>

(* Mutant: a holder is dealt with anew in every pass.                      *)
FreshAgain(ids) == ids

(* Mutant: what was dealt with is remembered by pid.                       *)
FreshByPid(ids) == {id \in ids : \A s \in seen : s[1] # id[1]}

(* What this sweep has not dealt with.                                     *)
Fresh(ids) == ids \ seen

(* Each holder's identity: gone is skipped, unknown is a gap.              *)
Resolve == /\ pc = "resolve"
           /\ \E unknown \in Unknowns :
                /\ newHolders' = Fresh({Current(p) : p \in {q \in holders \ unknown : Listed(q)}})
                /\ incomplete' = (incomplete \/ holders \cap unknown # {})
           /\ seen' = SeenWith(newHolders')
           /\ pc' = "group"
           /\ ReachNobody
           /\ UNCHANGED <<firstPass, blind, snap, unscanned, holders, newWalk, held, aim,
                          progressed, groupResult, verdict, shotVars, broken>>

-----------------------------------------------------------------------------
(* The group signal: pass 1 always, later only on a live, freshly          *)
(* confirmed member of the group.                                          *)

Fires == HasGroup /\ (firstPass \/ (~ blind /\ \E p \in holders : InGroup(p)))

IsMechanismFailure(r) == r \in {"Unlistable", "Io"}

(* Mutant: the latest answer stands.                                       *)
LatestError(first, latest) == latest

(* combine_group_errors                                                    *)
Combined(first, latest) ==
  IF IsMechanismFailure(first) \/ IsMechanismFailure(latest) THEN "Io" ELSE "Containment"

Fold(first, latest) ==
  IF first = "Ok" THEN latest ELSE IF latest = "Ok" THEN first ELSE Combined(first, latest)

GroupSignal ==
  /\ pc = "group"
  /\ pc' = "kill"
  /\ IF Fires
     THEN LET takers == {Current(p) : p \in {q \in Pid : InGroup(q) /\ ~ Denies(q)}}
              refuse == \E p \in Pid : InGroup(p) /\ p \in opaque
          IN \E r \in {"Ok"} \cup Failure :
               /\ r = "Ok" => ~ refuse
               /\ r = "Containment" => refuse
               /\ IF r = "Io" THEN ReachNobody ELSE Reach(takers)
               /\ groupResult' = Fold(groupResult, r)
               /\ broken' = (broken \/ IsMechanismFailure(r))
     ELSE ReachNobody /\ UNCHANGED <<groupResult, broken>>
  /\ holders' = {} /\ blind' = FALSE
  /\ UNCHANGED <<firstPass, snap, unscanned, newWalk, newHolders, held, aim, progressed,
                 seen, incomplete, verdict, shotVars>>

-----------------------------------------------------------------------------
(* kill_by_identity: gone or recycled is a resolution, a query or a signal *)
(* that was refused is not.                                                *)

(* Mutant: an attempt the OS refused is not held against the sweep.        *)
NoteForgiving(ok) == /\ progressed' = (progressed \/ ok)
                     /\ UNCHANGED incomplete

Note(ok) == /\ progressed' = (progressed \/ ok)
            /\ incomplete' = (incomplete \/ ~ ok)

(* Mutant: whatever the pid resolves to will do.                           *)
SameByPid(id) == Listed(id[1])

(* The pid still resolves to that identity.                                *)
Same(id) == Exists(id)

(* The re-verification of one identity: same, gone or changed, unknown.    *)
TakeAim(id) == \/ /\ Same(id)
                  /\ aim' = id
                  /\ since' = now
                  /\ UNCHANGED <<progressed, incomplete>>
               \/ /\ ~ Same(id)
                  /\ Note(TRUE)
                  /\ UNCHANGED <<aim, since>>
               \/ /\ "unknown" \in Faults
                  /\ Note(FALSE)
                  /\ UNCHANGED <<aim, since>>

(* kill(2) on the bare pid: its holder of now, ESRCH, or EPERM.            *)
Shoot == /\ aim # NoAim
         /\ LET hit == {Current(p) : p \in {q \in {aim[1]} : Listed(q) /\ ~ Denies(q)}}
            IN /\ Reach(hit)
               /\ strays' = strays \cup ((hit \ {aim}) \X {since})
         /\ Note(~ Denies(aim[1]))
         /\ held' = NoAim /\ aim' = NoAim /\ since' = 0
         /\ UNCHANGED <<pc, firstPass, blind, snap, unscanned, holders, newWalk, newHolders,
                        seen, groupResult, verdict, viaMarker, broken>>

KillWalk == /\ pc = "kill"
            /\ held = NoAim /\ aim = NoAim
            /\ \E id \in newWalk : newWalk' = newWalk \ {id} /\ TakeAim(id)
            /\ ReachNobody
            /\ UNCHANGED <<pc, firstPass, blind, snap, unscanned, holders, newHolders, held,
                           seen, groupResult, verdict, viaMarker, strays, broken>>

(* Mutant: a holder found by the scan is not asked again.                  *)
QueryNothing(id) == held' = id /\ UNCHANGED <<progressed, incomplete>>

(* holds_marker_query at signal time: held, not held (resolved), denied.   *)
Query(id) ==
  \/ /\ Holds(id[1]) /\ ~ Denies(id[1])
     /\ held' = id
     /\ UNCHANGED <<progressed, incomplete>>
  \/ /\ ~ Holds(id[1]) \/ Denies(id[1])
     /\ UNCHANGED held
     /\ Note(~ Denies(id[1]))

KillHolder == /\ pc = "kill"
              /\ newWalk = {}
              /\ held = NoAim /\ aim = NoAim
              /\ \E id \in newHolders : newHolders' = newHolders \ {id} /\ Query(id)
              /\ ReachNobody
              /\ UNCHANGED <<pc, firstPass, blind, snap, unscanned, holders, newWalk, aim, seen,
                             groupResult, verdict, shotVars, broken>>

KillConfirmed == /\ held # NoAim /\ aim = NoAim
                 /\ TakeAim(held)
                 /\ held' = aim'
                 /\ viaMarker' = viaMarker \cup ({aim'} \ {NoAim})
                 /\ ReachNobody
                 /\ UNCHANGED <<pc, firstPass, blind, snap, unscanned, holders, newWalk,
                                newHolders, seen, groupResult, verdict, strays, broken>>

PassDone == pc = "kill" /\ newWalk \cup newHolders = {} /\ held = NoAim /\ aim = NoAim

(* The loop of hard_kill; terminate makes one pass.                        *)
Repeats == Signal = "SIGKILL" /\ progressed

NextPass == /\ PassDone
            /\ Repeats
            /\ pc' = "snapshot"
            /\ firstPass' = FALSE
            /\ ReachNobody
            /\ UNCHANGED <<blind, snap, unscanned, holders, newWalk, newHolders, held, aim,
                           progressed, sweepVars, shotVars, broken>>

(* finish_sweep                                                            *)
Finish == /\ PassDone
          /\ ~ Repeats
          /\ pc' = "done"
          /\ verdict' = IF incomplete THEN Fold("Unassessable", groupResult) ELSE groupResult
          /\ ReachNobody
          /\ UNCHANGED <<passVars, seen, incomplete, groupResult, shotVars, broken>>

-----------------------------------------------------------------------------
Step == \/ Snapshot \/ Walk \/ Scan \/ Resolve \/ GroupSignal
        \/ KillWalk \/ KillHolder \/ KillConfirmed \/ Shoot \/ NextPass \/ Finish

May(what) == pc = "idle" \/ what \in Leaves

(* Fork passes the marker, the group and the credentials on.               *)
Inherit(S, p, q) == IF p \in S THEN S \cup {q} ELSE S \ {q}

HostFork(p, q) == /\ q = Root => \A r \in Pid : ~ InGroup(r)
                  /\ Fork(p, q)
                  /\ holds' = Inherit(holds, p, q)
                  /\ pgrp' = Inherit(pgrp, p, q)
                  /\ opaque' = Inherit(opaque, p, q)

HostExit(p) == /\ state[p] = "live" /\ Current(p) \in genuine => May("exit")
               /\ Exit(p)
               /\ UNCHANGED <<holds, pgrp, opaque>>

(* setsid: the member leaves the group and keeps the marker.               *)
HostSetsid(p) == /\ state[p] = "live" /\ p \in pgrp /\ p # Root
                 /\ pgrp' = pgrp \ {p}
                 /\ UNCHANGED <<tableVars, holds, opaque>>

HostClose(p) == /\ state[p] = "live" /\ p \in holds /\ May("close")
                /\ holds' = holds \ {p}
                /\ UNCHANGED <<tableVars, pgrp, opaque>>

HostExec(p) == /\ state[p] = "live" /\ p \in holds \ opaque /\ May("exec")
               /\ opaque' = opaque \cup {p}
               /\ UNCHANGED <<tableVars, holds, pgrp>>

(* The root's own zombie is collected by wait() only, never mid-sweep.     *)
HostCollect(p) == /\ p # Root
                  /\ Collect(p)
                  /\ UNCHANGED <<holds, pgrp, opaque>>

Host == /\ pc # "done"
        /\ \E p \in Pid : \/ \E q \in Pid : HostFork(p, q)
                          \/ HostExit(p) \/ HostSetsid(p) \/ HostClose(p)
                          \/ HostExec(p) \/ HostCollect(p)
        /\ UNCHANGED <<rootDenied, pc, passVars, sweepVars, histVars>>

Next == Step \/ Host

Spec == Init /\ [][Next]_vars

-----------------------------------------------------------------------------
Member(id) == Running(id) /\ id[1] \in holds

(* hard_kill answers Ok over no running process that holds the marker and  *)
(* can be queried: the re-snapshot loop closes the gap between a pass's    *)
(* snapshot and its signals (fdmarker.rs lines 1063-1072).                 *)
OkMeansSwept ==
  verdict = "Ok" /\ Signal = "SIGKILL" =>
     \A p \in Pid : Member(Current(p)) => p \in opaque

(* It does where the members live on: there the loop has seen whoever is   *)
(* forked while it runs, since its parent is still there to be found.      *)
StayersAreSwept == Leaves = {} => OkMeansSwept

(* Whatever members do meanwhile, no identity the sweep discovered is      *)
(* still a member under an Ok without the signal having reached it.        *)
KnownMembersReached ==
  verdict = "Ok" => \A id \in seen : Member(id) => id \in reached

(* Whom the marker channel takes aim at inherited the marker, however fast *)
(* the pids of dead members go to strangers: kill_holder asks the pid that *)
(* the scan saw again, then kill_by_identity compares its identity.        *)
HoldersAreGenuine == viaMarker \subseteq genuine

(* A signal hits another process than the one it was aimed at only in the  *)
(* window that a bare pid leaves open: that process was created after the  *)
(* identity was verified. No earlier change of hands gets through.         *)
StraysAreLate ==
  \A s \in strays : s[1][2] > s[2] \/ (SameTick /\ s[1][2] = s[2])

(* No signal by pid is misaimed but by what no check can see.              *)
KillsAreAimed == HoldersAreGenuine /\ StraysAreLate

(* A group signal that broke down in any pass is not masked by a later     *)
(* pass that succeeded or was merely refused (combine_group_errors).       *)
MechanismFailureSurfaces ==
  verdict # "none" /\ broken => IsMechanismFailure(verdict)

(* An Ok hides nothing the sweep met on its way: no discovered member it   *)
(* did not reach, no group signal that broke down.                         *)
FailuresSurface == KnownMembersReached /\ MechanismFailureSurfaces

(* What is left of the sweep: identities it may still come across, counted *)
(* twice so that a pass that resolves one may be followed by another, then *)
(* the phases of the pass, then the work of the phase.                     *)
Identities == Cardinality(Pid) * (MaxToken + 1)
InHand == held # NoAim \/ aim # NoAim
Busy == pc # "snapshot" /\ (newWalk \cup newHolders # {} \/ InHand \/ progressed)
Phase == CASE pc \in {"idle", "snapshot"} -> 6 [] pc = "walk" -> 5 [] pc = "scan" -> 4
           [] pc = "resolve" -> 3 [] pc = "group" -> 2 [] pc = "kill" -> 1 [] OTHER -> 0
Left == <<2 * (Identities - Cardinality(seen)) + (IF Busy THEN 1 ELSE 0),
          Phase,
          CASE pc = "scan" -> Cardinality(unscanned)
            [] pc = "kill" -> 3 * (Cardinality(newWalk) + Cardinality(newHolders))
                                + (IF aim # NoAim THEN 1 ELSE IF held # NoAim THEN 2 ELSE 0)
            [] OTHER       -> 0>>

(* The loop ends however fast a member that refuses its signal forks: a    *)
(* pass is repeated only if it resolved an identity never dealt with       *)
(* before, and every step of the sweep leaves less to do.                  *)
CallMakesProgress ==
  [][Step => \/ Left'[1] < Left[1]
             \/ Left'[1] = Left[1] /\ Left'[2] < Left[2]
             \/ Left'[1] = Left[1] /\ Left'[2] = Left[2] /\ Left'[3] < Left[3]]_vars
=============================================================================
