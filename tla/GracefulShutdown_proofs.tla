---------------------- MODULE GracefulShutdown_proofs ----------------------
(***************************************************************************)
(* Whatever fails during a shutdown, nobody is left asked but unkilled, an *)
(* Ok is never early, and no recycled number is signalled: for any tree,   *)
(* any number of calls, and any deployment with any faults.                *)
(***************************************************************************)
EXTENDS GracefulShutdown, TLAPS

-----------------------------------------------------------------------------
(* The inductive invariant.  While a call runs, the child is ours to       *)
(* collect, so its number stays its own unless it was gone before.         *)
RootIsOurs == /\ pid # "root" => /\ status[Root] = "gone"
                                 /\ ~ (setting.windows /\ owner = "sync")
              /\ pc \in Call \cup Dropping /\ owner # "foreign" /\ ~ early
                   => status[Root] # "gone"

(* What has happened by the time the call stands where it stands.          *)
StandsFor == /\ pc = "term" => ~ asked /\ ~ rootExited
             /\ pc \in {"backstop", "collect"} => swept
             /\ pc = "reap" => swept \/ drained \/ (op = "lone" /\ rootExited)
             /\ pc = "kill" => op = "lone"
             /\ pc # "idle" => result = "none"

UnbornHoldNothing == \A m \in Member : status[m] = "unborn" => m \notin group \cup marked

(* Nobody the mechanism can name is left running, but those its sweep did  *)
(* not see.                                                                *)
Quiet == /\ Proves /\ ~ Can("lost") => Live = {}
         /\ ~ Proves /\ ByGroup => Known \subseteq missed

SweptClean == owner # "foreign" /\ op = "tree"
  => /\ pc = "backstop" /\ ~ sweepErr => Quiet
     /\ pc = "reap" => Quiet
     /\ result = "Ok" => Quiet /\ status[Root] = "gone"

(* A number found to be the root's stays so until the root is collected,   *)
(* which during a call only the parent of a foreign process does.          *)
AimHolds == /\ checked = "root" => setting.bare /\ (status[Root] = "gone" => late)
            /\ checked # "no" => pc \in {"term", "sweep", "kill", "drop_tree"}
            /\ late => owner = "foreign" /\ setting.bare

ShutdownInv == RootIsOurs /\ StandsFor /\ UnbornHoldNothing /\ SweptClean /\ AimHolds

-----------------------------------------------------------------------------
(* The kinds of the variables: of the host's, and of the call's.           *)
Life == {"unborn", "live", "doomed", "zombie", "gone"}
Answer == {"none", "Ok", "Unsupported", "Refused", "Io", "Unlistable", "Sweep", "Watch",
           "Cancelled"}

HostKinds == /\ setting \in Settings /\ status \in [Member -> Life]
             /\ group \subseteq Member /\ marked \subseteq Member /\ deaf \subseteq Member
             /\ pid \in {"root", "free", "stranger"} /\ missed \subseteq Member
CallKinds == /\ pc \in {"idle", "dropped"} \cup Call \cup Dropping
             /\ op \in {"tree", "lone"} /\ result \in Answer
             /\ drained \in BOOLEAN /\ rootExited \in BOOLEAN /\ watchErr \in BOOLEAN
             /\ sweepErr \in BOOLEAN /\ swept \in BOOLEAN /\ early \in BOOLEAN
             /\ stray \in BOOLEAN /\ late \in BOOLEAN /\ asked \in BOOLEAN
             /\ checked \in {"no", "root", "other"} /\ calls \in 0..MaxCalls

LEMMA KindsAreTypes == (TypeOK <=> HostKinds /\ CallKinds) /\ (TypeOK' <=> HostKinds' /\ CallKinds')
<1>1. TypeOK <=> HostKinds /\ CallKinds
  BY DEF TypeOK, HostKinds, CallKinds, Life, Answer
<1>2. TypeOK' <=> HostKinds' /\ CallKinds'
  BY DEF TypeOK, HostKinds, CallKinds, Life, Answer
<1> QED
  BY <1>1, <1>2

-----------------------------------------------------------------------------
(* The moves of the host, and what they cannot bring back.                 *)
Moves == Host \/ \E m \in Member : ExitDoomed(m)

LEMMA MovesLeaveTheCall ==
  ASSUME Moves
  PROVE  UNCHANGED <<setting, callVars, result, seenVars, checked>> /\ pc' = pc
BY DEF aimVars, Moves, Host, Exit, ExitDoomed, Fork, Leave, Close, Credentials, Recycle, Collected

LEMMA MovesOfTheHost ==
  ASSUME HostKinds, UnbornHoldNothing, Moves
  PROVE  /\ HostKinds' /\ UnbornHoldNothing'
         /\ status[Root] = "gone" => status'[Root] = "gone"
         /\ status'[Root] = "gone" => \/ status[Root] = "gone"
                                      \/ owner = "foreign" \/ pc = "idle"
         /\ Quiet => Quiet'
         /\ late' = late \/ (Collected /\ late' = (late \/ checked = "root"))
         /\ status'[Root] = "gone" /\ checked = "root" => status[Root] = "gone" \/ late'
<1> USE ShutdownAssumption DEF HostKinds, Life, Quiet, Known, Named, Live, Proves, ByGroup, mech,
                              owner, Can, aimVars
<1>1. ASSUME NEW m \in Member, Exit(m) \/ ExitDoomed(m)
      PROVE  /\ HostKinds' /\ UnbornHoldNothing'
             /\ status[Root] = "gone" => status'[Root] = "gone"
             /\ status'[Root] = "gone" => status[Root] = "gone"
             /\ (Quiet => Quiet') /\ late' = late
  BY <1>1 DEF Exit, ExitDoomed, Dies, UnbornHoldNothing
<1>2. ASSUME NEW m \in Member, Leave(m) \/ Close(m) \/ Credentials(m)
      PROVE  HostKinds' /\ UnbornHoldNothing' /\ status' = status /\ (Quiet => Quiet')
             /\ late' = late
  BY <1>2 DEF Leave, Close, Credentials, UnbornHoldNothing
<1>3. ASSUME NEW m \in Member, NEW c \in Member, Fork(m, c)
      PROVE  /\ HostKinds' /\ UnbornHoldNothing'
             /\ status[Root] = "gone" => status'[Root] = "gone"
             /\ status'[Root] = "gone" => status[Root] = "gone"
             /\ (Quiet => Quiet') /\ late' = late
  <2>1. /\ status \in [Member -> Life] /\ status[m] = "live" /\ status[c] = "unborn"
        /\ status' = [status EXCEPT ![c] = "live"]
        /\ group' = IF m \in group THEN group \cup {c} ELSE group
        /\ marked' = IF m \in marked THEN marked \cup {c} ELSE marked
        /\ deaf' = IF m \in deaf THEN deaf \cup {c} ELSE deaf
        /\ missed' = IF m \in missed THEN missed \cup {c} ELSE missed
        /\ setting' = setting /\ pid' = pid /\ late' = late
    BY <1>3 DEF Fork, Inherit
  <2>2. HostKinds'
    BY <2>1
  <2>3. (status[Root] = "gone") = (status'[Root] = "gone")
    BY <2>1
  <2>4. Live # {} /\ Live' = Live \cup {c}
    BY <2>1
  <2>5. ASSUME Quiet, ~ Proves, ByGroup PROVE Known' \subseteq missed'
    <3>1. Known \subseteq missed /\ m \in Live /\ c \notin Named
      BY <2>1, <2>5 DEF UnbornHoldNothing
    <3>2. CASE m \in Named
      <4>1. m \in missed /\ missed' = missed \cup {c}
        BY <2>1, <3>1, <3>2
      <4>2. Named' \subseteq Named \cup {c}
        BY <2>1
      <4> QED
        BY <2>4, <3>1, <4>1, <4>2
    <3>3. CASE m \notin Named
      <4>1. Named' = Named
        BY <2>1, <3>3
      <4>2. Live' \cap Named' = Live \cap Named
        BY <2>4, <3>1, <4>1
      <4> QED
        BY <2>1, <3>1, <4>2
    <3> QED
      BY <3>2, <3>3
  <2>6. UnbornHoldNothing'
    BY <2>1 DEF UnbornHoldNothing
  <2> QED
    BY <2>1, <2>2, <2>3, <2>4, <2>5, <2>6
<1>4. CASE Recycle
  BY <1>4 DEF Recycle, UnbornHoldNothing
<1>5. CASE Collected
  <2>1. late' = (late \/ checked = "root")
    BY <1>5 DEF Collected
  <2>2. checked = "root" => late'
    BY <2>1
  <2>3. HostKinds' /\ UnbornHoldNothing' /\ (Quiet => Quiet') /\ status'[Root] = "gone"
    BY <1>5 DEF Collected, CollectRoot, UnbornHoldNothing
  <2>4. owner = "foreign" \/ pc = "idle"
    BY <1>5 DEF Collected
  <2> QED
    BY <1>5, <2>1, <2>2, <2>3, <2>4
<1> QED
  BY <1>1, <1>2, <1>3, <1>4, <1>5 DEF Moves, Host

-----------------------------------------------------------------------------
(* A kill of running members, and the collection of an exited root, only   *)
(* ever shrink what is live.                                               *)
Shrinks == /\ HostKinds' /\ UnbornHoldNothing'
           /\ Live' \subseteq Live
           /\ missed' = missed => (Quiet => Quiet')
           /\ UNCHANGED <<setting, group, marked, deaf, pid>>

(* The numbers, groups and descriptors are left as they are.               *)
Rests == UNCHANGED <<setting, group, marked, deaf, pid>> /\ missed' \subseteq Member

LEMMA LessStaysQuiet ==
  ASSUME HostKinds, Rests, Live' \subseteq Live, missed' = missed
  PROVE  Quiet => Quiet'
BY DEF HostKinds, Rests, Quiet, Known, Named, Proves, ByGroup, mech, owner, Can

LEMMA DoomShrinks ==
  ASSUME HostKinds, UnbornHoldNothing, Rests, NEW hit \in SUBSET Live, Doom(hit)
  PROVE  /\ Shrinks
         /\ Live' = Live \ hit
         /\ (status'[Root] = "gone") <=> (status[Root] = "gone")
<1>1. HostKinds' /\ UnbornHoldNothing'
  BY DEF HostKinds, UnbornHoldNothing, Doom, Live, Rests, Life
<1>2. Live' = Live \ hit
  BY DEF HostKinds, Doom, Live
<1>3. (status'[Root] = "gone") <=> (status[Root] = "gone")
  BY ShutdownAssumption DEF HostKinds, Doom, Live
<1> QED
  BY <1>1, <1>2, <1>3, LessStaysQuiet DEF Shrinks, Rests

LEMMA KillShrinks ==
  ASSUME HostKinds, UnbornHoldNothing, Rests, NEW refused, KillRoot(refused)
  PROVE  Shrinks /\ ((status'[Root] = "gone") <=> (status[Root] = "gone"))
<1>1. PICK hit \in SUBSET Live : Doom(hit)
  BY DEF KillRoot
<1> QED
  BY <1>1, DoomShrinks

LEMMA CollectShrinks ==
  ASSUME HostKinds, UnbornHoldNothing, Rests, CollectRoot
  PROVE  Shrinks /\ status'[Root] = "gone"
<1>1. HostKinds' /\ UnbornHoldNothing' /\ status'[Root] = "gone"
  BY ShutdownAssumption DEF HostKinds, UnbornHoldNothing, CollectRoot, Rests, Life
<1>2. Live' \subseteq Live
  BY DEF HostKinds, CollectRoot, Live
<1> QED
  BY <1>1, <1>2, LessStaysQuiet DEF Shrinks, Rests

LEMMA StillShrinks ==
  ASSUME HostKinds, UnbornHoldNothing, Rests, status' = status
  PROVE  Shrinks
<1>1. HostKinds' /\ UnbornHoldNothing' /\ Live' = Live
  BY DEF HostKinds, UnbornHoldNothing, Rests, Live
<1> QED
  BY <1>1, LessStaysQuiet DEF Shrinks, Rests

(* hard_kill: a clean report means that nobody it can name is left.        *)
LEMMA SweepShrinks ==
  ASSUME HostKinds, UnbornHoldNothing, Rests, HardKill
  PROVE  /\ Shrinks
         /\ (status'[Root] = "gone") <=> (status[Root] = "gone")
         /\ owner # "foreign" /\ ~ sweepErr' => Quiet'
         /\ sweepErr' \in BOOLEAN
         /\ \/ stray' = stray
            \/ ByGroup /\ stray' = (stray \/ pid = "stranger")
            \/ stray' = (stray \/ Misses)
<1>1. CASE mech \in {"cgroup", "job"} /\ owner # "foreign" /\ Doom(Live) /\ Reports(FALSE) /\ Bound
  <2>1. Shrinks /\ Live' = Live \ Live /\ ((status'[Root] = "gone") <=> (status[Root] = "gone"))
    BY <1>1, DoomShrinks
  <2>2. Proves' /\ Live' = {}
    BY <1>1, <2>1 DEF Proves, mech, Rests
  <2> QED
    BY <1>1, <2>1, <2>2 DEF Reports, Bound, Quiet
<1>2. CASE /\ Doom({}) /\ Bound
           /\ \/ mech = "cgroup" /\ Can("lost") /\ Reports(FALSE)
              \/ mech = "job" /\ Reports(TRUE)
              \/ mech = "none" /\ Reports(FALSE)
  <2>1. Shrinks /\ ((status'[Root] = "gone") <=> (status[Root] = "gone"))
    BY <1>2, DoomShrinks
  <2>2. ~ sweepErr' => Quiet'
    BY <1>2 DEF Reports, Quiet, Proves, ByGroup, mech, owner, Can, Rests
  <2> QED
    BY <1>2, <2>1, <2>2 DEF Reports, Bound
<1>3. ASSUME ByGroup, Aimed, NEW unseen \in SUBSET Missable,
             Doom(Known \ (deaf \cup unseen)), missed' = unseen,
             Reports((Known \cap deaf) \ unseen # {}) \/ Reports(TRUE)
      PROVE  /\ Shrinks /\ ((status'[Root] = "gone") <=> (status[Root] = "gone"))
             /\ ~ sweepErr' => Quiet'
             /\ sweepErr' \in BOOLEAN
  <2> DEFINE hit == Known \ (deaf \cup unseen)
  <2>0. hit \in SUBSET Live /\ Doom(hit)
    BY <1>3 DEF Known
  <2> HIDE DEF hit
  <2>1. Shrinks /\ Live' = Live \ hit
              /\ ((status'[Root] = "gone") <=> (status[Root] = "gone"))
    BY <2>0, DoomShrinks
  <2>2. ASSUME ~ sweepErr' PROVE Quiet'
    <3>1. (Known \cap deaf) \ unseen = {}
      BY <1>3, <2>2 DEF Reports
    <3>2. Known \ unseen \subseteq hit
      BY <3>1 DEF hit
    <3>3. Named' = Named
      BY DEF Named, Rests, mech
    <3>4. Known' \subseteq missed'
      BY <1>3, <2>1, <3>2, <3>3 DEF Known
    <3>5. ~ Proves'
      BY <1>3 DEF Proves, ByGroup, mech, Rests
    <3> QED
      BY <3>4, <3>5 DEF Quiet
  <2>3. sweepErr' \in BOOLEAN
    BY <1>3 DEF Reports
  <2> QED
    BY <2>1, <2>2, <2>3
<1>4. CASE /\ Walks /\ (Bound \/ ByIdentity)
           /\ (\E hit \in SUBSET (Live \ deaf) : Doom(hit)) /\ Reports(FALSE)
  <2>1. Shrinks /\ ((status'[Root] = "gone") <=> (status[Root] = "gone"))
    <3>1. PICK hit \in SUBSET Live : Doom(hit)
      BY <1>4
    <3> QED
      BY <3>1, DoomShrinks
  <2>2. owner # "foreign" => Quiet'
    BY <1>4 DEF Walks, Quiet, Proves, ByGroup, mech, owner, Can, Rests
  <2>3. stray' = stray \/ stray' = (stray \/ Misses)
    BY <1>4 DEF Bound, ByIdentity
  <2> QED
    BY <1>4, <2>1, <2>2, <2>3 DEF Reports
<1>5. CASE /\ ByGroup /\ Aimed
           /\ \E unseen \in SUBSET Missable :
                /\ Doom(Known \ (deaf \cup unseen)) /\ missed' = unseen
                /\ \/ Reports((Known \cap deaf) \ unseen # {})
                   \/ Can("listing") /\ Reports(TRUE)
  <2>1. /\ Shrinks /\ ((status'[Root] = "gone") <=> (status[Root] = "gone"))
        /\ ~ sweepErr' => Quiet'
        /\ sweepErr' \in BOOLEAN
    BY <1>3, <1>5
  <2> QED
    BY <1>5, <2>1 DEF Aimed
<1> QED
  BY <1>1, <1>2, <1>4, <1>5 DEF HardKill

-----------------------------------------------------------------------------
(* The kinds of the variables, and who is unborn, under each step.         *)
LEMMA StepKinds ==
  ASSUME HostKinds, CallKinds, UnbornHoldNothing, Next
  PROVE  HostKinds' /\ CallKinds' /\ UnbornHoldNothing'
<1> USE DEF Return, Proceed, Saw, Said, Answer, Call, Dropping, Finish
<1>1. CASE Moves
  <2>1. late' \in BOOLEAN
    BY <1>1, MovesOfTheHost DEF CallKinds
  <2>2. CallKinds'
    BY <1>1, <2>1, MovesLeaveTheCall DEF CallKinds, callVars, seenVars
  <2> QED
    BY <1>1, <2>2, MovesOfTheHost
<1>2. ASSUME NEW o \in {"tree", "lone"}, Begin(o)
      PROVE  HostKinds' /\ CallKinds' /\ UnbornHoldNothing'
  <2>1. Rests /\ status' = status
    BY <1>2 DEF Begin, Rests, hostVars
  <2>2. calls' \in 0..MaxCalls
    BY <1>2, ShutdownAssumption DEF Begin, CallKinds
  <2>3. /\ pc' = "term" /\ op' = o /\ result' = "none" /\ asked' = FALSE
        /\ drained' = FALSE /\ rootExited' = FALSE /\ watchErr' = FALSE
        /\ sweepErr' = FALSE /\ swept' = FALSE /\ stray' = FALSE /\ early' \in BOOLEAN
        /\ late' = FALSE /\ checked' = checked
    BY <1>2 DEF Begin
  <2>4. CallKinds'
    BY <2>2, <2>3 DEF CallKinds
  <2> QED
    BY <2>1, <2>4, StillShrinks DEF Shrinks
<1>3. CASE Term
  <2> USE DEF TermUnsupported, TermUnpinned, TermConsole, TermIdentity, TermCgroup, TermGroup,
              TermWalk, TreeSignal, Offered, Aimed, Bound, ByIdentity
  <2>1. Rests /\ status' = status
    BY <1>3 DEF Term, Rests, hostVars, HostKinds
  <2>2. /\ UNCHANGED <<op, drained, rootExited, watchErr, sweepErr, calls, swept, early, late>>
        /\ checked' = "no"
    BY <1>3 DEF Term, callVars
  <2>3. asked' \in BOOLEAN
    BY <1>3 DEF Term
  <2>4. /\ pc' \in {"watch", "idle"}
        /\ result' \in Answer
        /\ stray' \in BOOLEAN
    BY <1>3 DEF Term, CallKinds
  <2>5. CallKinds'
    BY <2>2, <2>3, <2>4 DEF CallKinds
  <2> QED
    BY <2>1, <2>5, StillShrinks DEF Shrinks
<1>4. CASE Watch /\ ~ ExitCollected
  <2> USE DEF DrainProved, DrainUnproved, Probe, WatchFails, GraceElapses, ExitSeen, TreeWatch,
              RootWatch, Still, Escalate
  <2>1. Rests /\ status' = status
    BY <1>4 DEF Watch, Rests, hostVars, HostKinds, aimVars
  <2>2. UNCHANGED <<op, sweepErr, calls, seenVars, checked, late>>
    BY <1>4 DEF Watch, aimVars
  <2>3. /\ drained' \in BOOLEAN /\ rootExited' \in BOOLEAN /\ watchErr' \in BOOLEAN
        /\ pc' \in {"reap", "probe", "sweep", "kill", "idle"} /\ result' \in Answer
    <3>1. CASE Probe
      <4>1. rootExited' \in BOOLEAN
        BY <3>1 DEF Exited
      <4> QED
        BY <3>1, <4>1 DEF CallKinds
    <3>2. CASE DrainProved \/ DrainUnproved \/ WatchFails \/ GraceElapses
      BY <3>2 DEF CallKinds
    <3>3. CASE ExitSeen
      BY <3>3 DEF CallKinds
    <3> QED
      BY <1>4, <3>1, <3>2, <3>3 DEF Watch
  <2>4. CallKinds'
    BY <2>2, <2>3 DEF CallKinds, seenVars
  <2> QED
    BY <2>1, <2>4, StillShrinks DEF Shrinks
<1>5. CASE ExitCollected
  <2>1. Rests /\ CollectRoot
    BY <1>5 DEF ExitCollected, Rests, HostKinds, aimVars
  <2>2. CallKinds'
    BY <1>5 DEF ExitCollected, CallKinds, seenVars, aimVars
  <2> QED
    BY <2>1, <2>2, CollectShrinks DEF Shrinks
<1>6. CASE Sweep \/ DropTree
  <2>0. HardKill => missed' \subseteq Member
    BY DEF HardKill, Missable, Known, Live
  <2>1. Rests /\ HardKill
    BY <1>6, <2>0 DEF Sweep, DropTree, Outside, Rests
  <2>2. Shrinks /\ sweepErr' \in BOOLEAN /\ stray' \in BOOLEAN
    BY <2>1, SweepShrinks DEF CallKinds
  <2>3. CallKinds'
    BY <1>6, <2>2 DEF Sweep, DropTree, Outside, CallKinds
  <2> QED
    BY <2>2, <2>3 DEF Shrinks
<1>7. CASE Backstop \/ LoneKill \/ DropKill
  <2>1. Rests /\ \E refused \in BOOLEAN : KillRoot(refused)
    BY <1>7 DEF Backstop, LoneKill, DropKill, Outside, Rests, HostKinds
  <2>2. /\ UNCHANGED <<op, calls, drained, rootExited, watchErr, asked, early, sweepErr, late>>
        /\ swept' \in BOOLEAN /\ stray' \in BOOLEAN /\ checked' = "no"
        /\ pc' \in {"reap", "collect", "idle", "dropped", "drop_reap"} /\ result' \in Answer
    <3>1. CASE Backstop
      BY <3>1 DEF Backstop, Outside, CallKinds
    <3>2. CASE LoneKill
      <4>1. stray' \in BOOLEAN
        BY <3>2 DEF LoneKill, Bound, ByIdentity, CallKinds
      <4> QED
        BY <3>2, <4>1 DEF LoneKill, Outside, CallKinds
    <3>3. CASE DropKill
      BY <3>3 DEF DropKill, Outside, CallKinds
    <3> QED
      BY <1>7, <3>1, <3>2, <3>3
  <2>3. /\ pc' \in {"idle", "dropped"} \cup Call \cup Dropping
        /\ op' \in {"tree", "lone"} /\ calls' \in 0..MaxCalls
        /\ drained' \in BOOLEAN /\ rootExited' \in BOOLEAN /\ watchErr' \in BOOLEAN
        /\ asked' \in BOOLEAN /\ early' \in BOOLEAN /\ sweepErr' \in BOOLEAN /\ late' \in BOOLEAN
    BY <2>2 DEF CallKinds
  <2>4. CallKinds'
    BY <2>2, <2>3 DEF CallKinds
  <2> QED
    BY <2>1, <2>4, KillShrinks DEF Shrinks
<1>8. CASE Reap \/ Collect \/ DropReap
  <2>1. Rests /\ (CollectRoot \/ status' = status)
    BY <1>8 DEF Reap, Collect, DropReap, Outside, Rests, HostKinds
  <2>2. CallKinds'
    BY <1>8 DEF Reap, Collect, DropReap, Outside, CallKinds
  <2> QED
    BY <2>1, <2>2, CollectShrinks, StillShrinks DEF Shrinks
<1>9. CASE Cancel \/ Drop
  <2>1. Rests /\ status' = status
    BY <1>9 DEF Cancel, Drop, Rests, hostVars, HostKinds, aimVars
  <2>2. CallKinds'
    <3>1. CASE Cancel
      BY <3>1 DEF Cancel, CallKinds, callVars, seenVars, aimVars
    <3>2. CASE Drop
      <4>1. early' \in BOOLEAN
        BY <3>2 DEF Drop
      <4> QED
        BY <3>2, <4>1 DEF Drop, CallKinds, callVars
    <3> QED
      BY <1>9, <3>1, <3>2
  <2> QED
    BY <2>1, <2>2, StillShrinks DEF Shrinks
<1>10. CASE Verify
  <2>1. Rests /\ status' = status
    BY <1>10 DEF Verify, Rests, hostVars, HostKinds
  <2>2. CallKinds'
    BY <1>10 DEF Verify, CallKinds, callVars, seenVars
  <2> QED
    BY <2>1, <2>2, StillShrinks DEF Shrinks
<1> QED
  BY <1>1, <1>2, <1>3, <1>4, <1>5, <1>6, <1>7, <1>8, <1>9, <1>10 DEF Next, Step, Moves, Watch

-----------------------------------------------------------------------------
(* A number leaves the root only once the root is collected, and nobody    *)
(* but the call collects while it runs.                                    *)
LEMMA KeepsRootOurs ==
  ASSUME HostKinds, UnbornHoldNothing, RootIsOurs, Next
  PROVE  RootIsOurs'
<1> USE DEF Return, Proceed, Call, Dropping
<1>1. CASE Moves
  <2>1. UNCHANGED <<setting, pc, early>> /\ (status[Root] = "gone" => status'[Root] = "gone")
    BY <1>1, MovesLeaveTheCall, MovesOfTheHost DEF seenVars
  <2>2. pid' # pid => Recycle
    BY <1>1 DEF Moves, Host, Exit, ExitDoomed, Fork, Leave, Close, Credentials, Collected
  <2>3. pid' # pid => status'[Root] = "gone" /\ ~ (setting.windows /\ owner = "sync")
    BY <2>1, <2>2 DEF Recycle, Pinned
  <2>4. status'[Root] = "gone" => status[Root] = "gone" \/ owner = "foreign" \/ pc = "idle"
    BY <1>1, MovesOfTheHost
  <2> QED
    BY <2>1, <2>3, <2>4 DEF RootIsOurs, owner
<1>2. CASE (\E o \in {"tree", "lone"} : Begin(o)) \/ Drop
  BY <1>2 DEF Begin, Drop, RootIsOurs, owner, hostVars
<1>3. CASE Verify \/ Term \/ (Watch /\ ~ ExitCollected) \/ Cancel
  <2> USE DEF TermUnsupported, TermUnpinned, TermConsole, TermIdentity, TermCgroup, TermGroup,
              TermWalk, TreeSignal, Offered, Said, DrainProved, DrainUnproved, Probe, WatchFails,
              GraceElapses, ExitSeen, TreeWatch, RootWatch, Still, Escalate, Cancel, Verify, ByNumber
  <2>1. UNCHANGED <<setting, hostVars, early>>
    BY <1>3 DEF Term, Watch, seenVars
  <2>2. pc \in Call \cup Dropping /\ (pc' = pc \/ pc \in Call)
    BY <1>3 DEF Term, Watch
  <2> QED
    BY <2>1, <2>2 DEF RootIsOurs, owner, hostVars
<1>4. CASE Sweep \/ Backstop \/ LoneKill \/ DropTree \/ DropKill
  <2>1. Rests /\ early' = early /\ pc \in Call \cup Dropping
    <3>1. HardKill => missed' \subseteq Member
      BY DEF HardKill, Missable, Known, Live
    <3> QED
      BY <1>4, <3>1 DEF Sweep, Backstop, LoneKill, DropTree, DropKill, Outside, Rests, HostKinds
  <2>2. (status'[Root] = "gone") <=> (status[Root] = "gone")
    BY <1>4, <2>1, SweepShrinks, KillShrinks DEF Sweep, Backstop, LoneKill, DropTree, DropKill
  <2> QED
    BY <2>1, <2>2 DEF RootIsOurs, owner, Rests
<1>5. CASE Reap \/ Collect \/ DropReap \/ ExitCollected
  <2>1. Rests /\ early' = early /\ pc' \in {"idle", "dropped"}
    BY <1>5 DEF Reap, Collect, DropReap, ExitCollected, Outside, Rests, seenVars, aimVars, HostKinds
  <2>2. status[Root] = "gone" => status'[Root] = "gone"
    BY <1>5, <2>1, CollectShrinks DEF Reap, Collect, DropReap, ExitCollected
  <2> QED
    BY <2>1, <2>2 DEF RootIsOurs, owner, Rests
<1> QED
  BY <1>1, <1>2, <1>3, <1>4, <1>5 DEF Next, Step, Moves, Watch

(* What each place of the call stands for, step by step.                   *)
LEMMA KeepsPlaces ==
  ASSUME CallKinds, StandsFor, Next
  PROVE  StandsFor'
<1> USE DEF StandsFor, Return, Proceed, Saw, Said, Call, Dropping
<1>1. CASE Moves
  BY <1>1, MovesLeaveTheCall DEF callVars, seenVars
<1>2. CASE (\E o \in {"tree", "lone"} : Begin(o)) \/ Drop \/ Cancel
  BY <1>2 DEF Begin, Drop, Cancel, callVars, seenVars
<1>3. CASE Term
  <2>1. pc = "term" /\ pc' \in {"watch", "idle"} /\ (pc' = "watch" => result' = result)
    BY <1>3 DEF Term, TermUnsupported, TermUnpinned, TermConsole, TermIdentity, TermCgroup,
                TermGroup, TermWalk, TreeSignal, Offered
  <2> QED
    BY <2>1
<1>4. CASE Watch
  <2> USE DEF DrainProved, DrainUnproved, Probe, WatchFails, GraceElapses, ExitSeen,
              ExitCollected, TreeWatch, RootWatch, Still, Escalate
  <2>1. UNCHANGED <<op, swept>> /\ pc' \in {"reap", "probe", "sweep", "kill", "idle"}
    BY <1>4 DEF Watch, seenVars
  <2>2. pc' = "reap" => drained' \/ (op = "lone" /\ rootExited')
    BY <1>4 DEF Watch, CallKinds
  <2>3. (pc' = "kill" => op = "lone") /\ (pc' # "idle" => result' = result)
    BY <1>4 DEF Watch, CallKinds
  <2>4. pc # "idle"
    BY <1>4 DEF Watch
  <2> QED
    BY <2>1, <2>2, <2>3, <2>4
<1>5. CASE Sweep \/ DropTree
  BY <1>5 DEF Sweep, DropTree, Outside
<1>6. CASE Backstop
  BY <1>6 DEF Backstop, Outside
<1>7. CASE LoneKill
  BY <1>7 DEF LoneKill, Outside
<1>8. CASE DropKill
  BY <1>8 DEF DropKill, Outside
<1>9. CASE Reap \/ Collect \/ DropReap
  BY <1>9 DEF Reap, Collect, DropReap, Outside
<1>10. CASE Verify
  BY <1>10 DEF Verify, callVars, seenVars
<1> QED
  BY <1>1, <1>2, <1>3, <1>4, <1>5, <1>6, <1>7, <1>8, <1>9, <1>10 DEF Next, Step, Moves

(* An Ok of a tree call comes only after a proof or a clean sweep.         *)
LEMMA KeepsSweptClean ==
  ASSUME HostKinds, CallKinds, UnbornHoldNothing, StandsFor, SweptClean, Next
  PROVE  SweptClean'
<1> USE DEF Return, Proceed, Saw, Said
<1>1. CASE Moves
  <2>1. UNCHANGED <<setting, pc, op, sweepErr, result>>
    BY <1>1, MovesLeaveTheCall DEF callVars
  <2> QED
    BY <1>1, <2>1, MovesOfTheHost DEF SweptClean, owner
<1>2. CASE (\E o \in {"tree", "lone"} : Begin(o)) \/ Drop \/ DropTree \/ DropKill \/ DropReap \/ Cancel
  <2>1. setting' = setting /\ pc' \notin {"backstop", "reap"} /\ result' # "Ok"
    BY <1>2 DEF Begin, Drop, DropTree, DropKill, DropReap, Cancel, Outside, hostVars, StandsFor,
                Dropping
  <2> QED
    BY <2>1 DEF SweptClean
<1>3. CASE Term
  <2>1. setting' = setting /\ pc' \in {"watch", "idle"} /\ result' # "Ok"
    BY <1>3 DEF Term, TermUnsupported, TermUnpinned, TermConsole, TermIdentity, TermCgroup,
                TermGroup, TermWalk, TreeSignal, Offered, StandsFor
  <2> QED
    BY <2>1 DEF SweptClean
<1>4. CASE DrainProved
  <2>1. Proves /\ Live = {} /\ setting' = setting /\ status' = status
    BY <1>4 DEF DrainProved, TreeWatch, Still, Running, Live, hostVars
  <2>2. Quiet'
    BY <2>1 DEF Quiet, Proves, Live, mech
  <2>3. result' = "none" /\ pc' = "reap"
    BY <1>4 DEF DrainProved, TreeWatch, StandsFor
  <2> QED
    BY <2>2, <2>3 DEF SweptClean
<1>5. CASE DrainUnproved \/ Probe \/ WatchFails \/ GraceElapses
  <2>1. setting' = setting /\ pc' \in {"probe", "sweep", "kill"} /\ result' # "Ok"
    BY <1>5 DEF DrainUnproved, Probe, WatchFails, GraceElapses, TreeWatch, RootWatch, Still,
                Escalate, StandsFor
  <2> QED
    BY <2>1 DEF SweptClean
<1>6. CASE ExitSeen \/ ExitCollected
  <2>1. \/ op' = "lone"
        \/ pc' = "sweep" /\ result' # "Ok"
    BY <1>6 DEF ExitSeen, ExitCollected, RootWatch, Still, StandsFor
  <2> QED
    BY <2>1 DEF SweptClean
<1>7. CASE Sweep
  <2>0. HardKill => missed' \subseteq Member
    BY DEF HardKill, Missable, Known, Live, HostKinds
  <2>1. Rests /\ HardKill /\ op' = op /\ result = "none"
    BY <1>7, <2>0 DEF Sweep, Outside, Rests, StandsFor
  <2>2. owner # "foreign" => pc' = "backstop" /\ result' = "none"
    BY <1>7, <2>1 DEF Sweep
  <2>3. owner # "foreign" /\ ~ sweepErr' => Quiet'
    BY <2>1, SweepShrinks
  <2> QED
    BY <2>1, <2>2, <2>3 DEF SweptClean, owner, Rests
<1>8. CASE Backstop
  <2>1. Rests /\ UNCHANGED <<op, sweepErr, missed>> /\ pc = "backstop" /\ result = "none"
    BY <1>8 DEF Backstop, Outside, Rests, StandsFor, HostKinds
  <2>2. /\ pc' \in {"reap", "collect", "idle"} /\ result' # "Ok"
        /\ pc' = "reap" => ~ sweepErr
    BY <1>8, <2>1 DEF Backstop
  <2>3. Quiet => Quiet'
    BY <1>8, <2>1, KillShrinks DEF Backstop, Shrinks
  <2> QED
    BY <2>1, <2>2, <2>3 DEF SweptClean, owner, Rests
<1>9. CASE LoneKill
  BY <1>9 DEF LoneKill, Outside, SweptClean, StandsFor
<1>10. CASE Reap
  <2>1. Rests /\ op' = op /\ pc = "reap" /\ pc' = "idle" /\ missed' = missed
    BY <1>10 DEF Reap, Outside, Rests, HostKinds
  <2>2. result' = "Ok" => CollectRoot
    BY <1>10 DEF Reap
  <2>3. result' = "Ok" => status'[Root] = "gone" /\ (Quiet => Quiet')
    BY <2>1, <2>2, CollectShrinks DEF Shrinks
  <2> QED
    BY <2>1, <2>3 DEF SweptClean, owner, Rests
<1>11. CASE Collect
  BY <1>11 DEF Collect, SweptClean, Outside
<1>12. CASE Verify
  <2>1. UNCHANGED <<setting, hostVars, pc, op, sweepErr, result, missed>>
    BY <1>12 DEF Verify, callVars
  <2>2. Quiet' = Quiet /\ status'[Root] = status[Root] /\ owner' = owner
    BY <2>1 DEF Quiet, Known, Named, Live, Proves, ByGroup, Can, mech, owner, hostVars
  <2> QED
    BY <2>1, <2>2 DEF SweptClean
<1> QED
  BY <1>1, <1>2, <1>3, <1>4, <1>5, <1>6, <1>7, <1>8, <1>9, <1>10, <1>11, <1>12
     DEF Next, Step, Watch, Moves

(* A check of the root's number holds good until a foreign parent collects.*)
LEMMA KeepsAim ==
  ASSUME HostKinds, CallKinds, UnbornHoldNothing, AimHolds, Next
  PROVE  AimHolds'
<1> USE DEF Return, Proceed, Call, Dropping
<1>1. CASE Moves
  <2>1. UNCHANGED <<setting, pc, checked>>
    BY <1>1, MovesLeaveTheCall
  <2>2. /\ late' = late \/ (Collected /\ late' = (late \/ checked = "root"))
        /\ status'[Root] = "gone" /\ checked = "root" => status[Root] = "gone" \/ late'
    BY <1>1, MovesOfTheHost
  <2>3. status[Root] = "gone" /\ checked = "root" => late'
    <3>1. status[Root] = "gone" /\ checked = "root" => late
      BY DEF AimHolds
    <3>2. late => late'
      BY <2>2
    <3> QED
      BY <3>1, <3>2
  <2>4. ASSUME late' PROVE owner = "foreign" /\ setting.bare
    <3>1. late \/ (Collected /\ checked = "root")
      BY <2>2, <2>4
    <3>2. Collected /\ checked = "root" => owner = "foreign"
      BY DEF AimHolds, Collected
    <3> QED
      BY <3>1, <3>2 DEF AimHolds
  <2>5. checked' = "root" => setting'.bare /\ (status'[Root] = "gone" => late')
    BY <2>1, <2>2, <2>3 DEF AimHolds
  <2>6. (checked' # "no" => pc' \in {"term", "sweep", "kill", "drop_tree"}) /\ owner' = owner
    BY <2>1 DEF AimHolds, owner
  <2> QED
    BY <2>1, <2>4, <2>5, <2>6 DEF AimHolds
<1>2. CASE (\E o \in {"tree", "lone"} : Begin(o)) \/ Drop
  BY <1>2 DEF Begin, Drop, AimHolds
<1>3. CASE Verify
  BY <1>3 DEF Verify, AimHolds, owner, hostVars, ByNumber
<1>4. CASE Term
  BY <1>4 DEF Term, TermUnsupported, TermUnpinned, TermConsole, TermIdentity, TermCgroup, TermGroup,
              TermWalk, Said, AimHolds, owner
<1>5. CASE Watch \/ Cancel
  <2>1. /\ UNCHANGED <<setting, checked, late>>
        /\ pc \in {"watch", "probe", "reap", "collect"}
    BY <1>5 DEF Watch, Cancel, DrainProved, DrainUnproved, Probe, WatchFails, GraceElapses, ExitSeen,
                ExitCollected, TreeWatch, RootWatch, Still, aimVars
  <2>2. checked = "no"
    BY <2>1 DEF AimHolds
  <2> QED
    BY <2>1, <2>2 DEF AimHolds, owner
<1>6. CASE Sweep \/ Backstop \/ LoneKill \/ Reap \/ Collect \/ DropTree \/ DropKill \/ DropReap
  <2>1. checked' = "no" /\ UNCHANGED <<setting, late>>
    BY <1>6 DEF Sweep, Backstop, LoneKill, Reap, Collect, DropTree, DropKill, DropReap, Outside
  <2> QED
    BY <2>1 DEF AimHolds, owner
<1> QED
  BY <1>1, <1>2, <1>3, <1>4, <1>5, <1>6 DEF Next, Step, Moves

-----------------------------------------------------------------------------
(* The theorems.                                                           *)

LEMMA InitInv == Init => TypeOK /\ ShutdownInv
<1> SUFFICES ASSUME Init
             PROVE  TypeOK /\ ShutdownInv
  OBVIOUS
<1>1. HostKinds
  BY ShutdownAssumption DEF Init, HostKinds, Life
<1>2. CallKinds
  <2>1. calls \in 0..MaxCalls
    BY ShutdownAssumption DEF Init
  <2>2. /\ pc = "idle" /\ op = "tree" /\ result = "none" /\ asked = FALSE
        /\ checked = "no" /\ late = FALSE
        /\ drained = FALSE /\ rootExited = FALSE /\ watchErr = FALSE /\ sweepErr = FALSE
        /\ swept = FALSE /\ early = FALSE /\ stray = FALSE
    BY DEF Init
  <2> QED
    BY <2>1, <2>2 DEF CallKinds, Answer
<1>3. RootIsOurs /\ StandsFor /\ SweptClean /\ AimHolds
  BY DEF Init, RootIsOurs, StandsFor, SweptClean, AimHolds, Call, Dropping
<1>4. UnbornHoldNothing
  BY DEF Init, UnbornHoldNothing
<1> QED
  BY <1>1, <1>2, <1>3, <1>4, KindsAreTypes DEF ShutdownInv

LEMMA NextInv == TypeOK /\ ShutdownInv /\ [Next]_vars => TypeOK' /\ ShutdownInv'
<1> SUFFICES ASSUME TypeOK, ShutdownInv, [Next]_vars
             PROVE  TypeOK' /\ ShutdownInv'
  OBVIOUS
<1>1. CASE Next
  <2>1. /\ HostKinds /\ CallKinds /\ RootIsOurs /\ StandsFor /\ UnbornHoldNothing
        /\ SweptClean /\ AimHolds
    BY KindsAreTypes DEF ShutdownInv
  <2>2. HostKinds' /\ CallKinds' /\ UnbornHoldNothing'
    BY <1>1, <2>1, StepKinds
  <2>3. RootIsOurs' /\ StandsFor' /\ SweptClean' /\ AimHolds'
    BY <1>1, <2>1, KeepsRootOurs, KeepsPlaces, KeepsSweptClean, KeepsAim
  <2> QED
    BY <2>2, <2>3, KindsAreTypes DEF ShutdownInv
<1>2. CASE UNCHANGED vars
  <2>1. TypeOK'
    BY <1>2 DEF TypeOK, vars, hostVars, callVars, seenVars, aimVars
  <2>2. RootIsOurs' /\ StandsFor'
    BY <1>2 DEF ShutdownInv, RootIsOurs, StandsFor, owner, vars, hostVars, callVars, seenVars
  <2>3. UnbornHoldNothing'
    BY <1>2 DEF ShutdownInv, UnbornHoldNothing, vars, hostVars
  <2>4. SweptClean'
    BY <1>2 DEF ShutdownInv, SweptClean, Quiet, Known, Named, Live, Proves, ByGroup, Can, mech, owner,
                vars, hostVars, callVars, aimVars
  <2>5. AimHolds'
    BY <1>2 DEF ShutdownInv, AimHolds, owner, vars, hostVars, aimVars
  <2> QED
    BY <2>1, <2>2, <2>3, <2>4, <2>5 DEF ShutdownInv
<1> QED
  BY <1>1, <1>2

(* TypeCorrect: the variables of a shutdown keep their kinds, and the      *)
(* strengthening of the invariants below holds.                            *)
THEOREM TypeCorrect == Spec => [](TypeOK /\ ShutdownInv)
BY InitInv, NextInv, PTL DEF Spec

(* TreeDownOnOk: Ok from graceful_shutdown_tree means that the root is     *)
(* collected and whoever the mechanism can name is down, but for those its *)
(* sweep could not see and their children; a kernel's mechanism has none.  *)
THEOREM TreeDownOnOk == Spec => []OkMeansTreeDown
<1>1. TypeOK /\ ShutdownInv => OkMeansTreeDown
  <2> SUFFICES ASSUME TypeOK, ShutdownInv, result = "Ok", op = "tree", owner # "foreign"
               PROVE  status[Root] = "gone" /\ Covered \cap Live = {}
    BY DEF OkMeansTreeDown
  <2>1. Quiet /\ status[Root] = "gone"
    BY DEF ShutdownInv, SweptClean
  <2>2. Root \notin Live
    BY <2>1 DEF Live
  <2>3. CASE Proves /\ ~ Can("lost")
    BY <2>1, <2>3 DEF Quiet
  <2>4. CASE ~ Proves /\ ByGroup
    <3>1. Live \cap Named \subseteq missed
      BY <2>1, <2>4 DEF Quiet, Known
    <3>2. Covered = {Root} \cup (Named \ missed)
      BY <2>4 DEF Covered
    <3> QED
      BY <2>1, <2>2, <3>1, <3>2
  <2>5. CASE (Proves /\ Can("lost")) \/ (~ Proves /\ ~ ByGroup)
    <3>1. Covered = {Root}
      BY <2>5 DEF Covered
    <3> QED
      BY <2>1, <2>2, <3>1
  <2> QED
    BY <2>3, <2>4, <2>5
<1> QED
  BY <1>1, TypeCorrect, PTL

(* NobodyAbandoned: whatever fails in between, those who were asked to     *)
(* exit are killed or seen to exit, and an exit that was seen is collected.*)
(* It is stated of every step that returns, and of what the host does to   *)
(* a call that has returned.                                               *)
LEMMA NextNoneAbandoned ==
  ASSUME TypeOK, ShutdownInv, NoneAbandoned, Next
  PROVE  NoneAbandoned'
<1>0. HostKinds /\ CallKinds /\ RootIsOurs /\ StandsFor /\ UnbornHoldNothing
  BY KindsAreTypes DEF ShutdownInv
<1> USE DEF Return, Proceed, Saw, Said
<1>1. CASE Moves
  <2>1. UNCHANGED <<setting, pc, callVars, result, seenVars>>
    BY <1>1, MovesLeaveTheCall
  <2>2. status[Root] = "gone" => status'[Root] = "gone"
    BY <1>0, <1>1, MovesOfTheHost
  <2> QED
    BY <2>1, <2>2 DEF NoneAbandoned, owner, callVars, seenVars
<1>2. CASE (\E o \in {"tree", "lone"} : Begin(o)) \/ Drop \/ DropTree \/ DropKill \/ DropReap \/ Cancel
  <2>1. pc' # "idle" \/ result' = "Cancelled"
    BY <1>2 DEF Begin, Drop, DropTree, DropKill, DropReap, Cancel
  <2> QED
    BY <2>1 DEF NoneAbandoned
<1>3. CASE Term
  <2>1. /\ pc' = "idle" => ~ asked' \/ result' = "Unlistable"
        /\ rootExited' = rootExited /\ ~ rootExited
    BY <1>0, <1>3 DEF Term, TermUnsupported, TermUnpinned, TermConsole, TermIdentity, TermCgroup,
                TermGroup, TermWalk, TreeSignal, Offered, StandsFor, callVars
  <2> QED
    BY <2>1 DEF NoneAbandoned
<1>4. CASE Watch
  <2>1. \/ pc' # "idle"
        \/ op' = "lone" /\ rootExited' /\ owner = "foreign" /\ setting' = setting
        \/ op' = "lone" /\ rootExited' /\ status'[Root] = "gone"
    <3>1. CASE ExitCollected
      <4>1. CollectRoot /\ Rests
        BY <1>0, <3>1 DEF ExitCollected, Rests, HostKinds, aimVars
      <4>2. status'[Root] = "gone"
        BY <1>0, <4>1, CollectShrinks
      <4> QED
        BY <3>1, <4>2 DEF ExitCollected
    <3>2. CASE ExitSeen
      BY <3>2 DEF ExitSeen, RootWatch, Still
    <3>3. CASE DrainProved \/ DrainUnproved \/ Probe \/ WatchFails \/ GraceElapses
      BY <3>3 DEF DrainProved, DrainUnproved, Probe, WatchFails, GraceElapses, TreeWatch, RootWatch,
                  Escalate
    <3> QED
      BY <1>4, <3>1, <3>2, <3>3 DEF Watch
  <2> QED
    BY <2>1 DEF NoneAbandoned, owner
<1>5. CASE Sweep \/ LoneKill
  <2>1. swept' = TRUE /\ setting' = setting
    BY <1>5 DEF Sweep, LoneKill, Outside
  <2>2. pc' = "idle" => owner = "foreign" \/ result' = "Io"
    BY <1>5 DEF Sweep, LoneKill
  <2> QED
    BY <2>1, <2>2 DEF NoneAbandoned, owner
<1>6. CASE Backstop
  <2>1. UNCHANGED <<swept, rootExited>> /\ swept
    BY <1>0, <1>6 DEF Backstop, Outside, StandsFor
  <2>2. pc' = "idle" => ~ rootExited
    BY <1>6 DEF Backstop
  <2> QED
    BY <2>1, <2>2 DEF NoneAbandoned
<1>7. CASE Reap \/ Collect
  <2>1. UNCHANGED <<swept, drained, op, rootExited>> /\ Rests
    BY <1>0, <1>7 DEF Reap, Collect, Outside, Rests, HostKinds
  <2>2. swept \/ drained \/ (op = "lone" /\ rootExited)
    BY <1>0, <1>7 DEF Reap, Collect, StandsFor
  <2>3. result' = "Io" \/ CollectRoot
    BY <1>7 DEF Reap, Collect
  <2>4. result' = "Io" \/ status'[Root] = "gone"
    BY <1>0, <2>1, <2>3, CollectShrinks
  <2> QED
    BY <2>1, <2>2, <2>4 DEF NoneAbandoned
<1>8. CASE Verify
  BY <1>8 DEF Verify, NoneAbandoned, owner, hostVars, callVars, seenVars
<1> QED
  BY <1>1, <1>2, <1>3, <1>4, <1>5, <1>6, <1>7, <1>8 DEF Next, Step, Moves

THEOREM NobodyAbandoned == Spec => []NoneAbandoned
<1>1. Init => NoneAbandoned
  BY DEF Init, NoneAbandoned
<1>2. TypeOK /\ ShutdownInv /\ NoneAbandoned /\ [Next]_vars => NoneAbandoned'
  <2>1. CASE UNCHANGED vars
    BY <2>1 DEF NoneAbandoned, owner, vars, hostVars, callVars, seenVars
  <2> QED
    BY <2>1, NextNoneAbandoned
<1> QED
  BY <1>1, <1>2, TypeCorrect, PTL DEF Spec

(* StrangersSpared: a recycled root number is never signalled, except      *)
(* through a group id when the root was collected before the call began,   *)
(* and on macOS where a foreign parent collects between check and signal.  *)
Excused == \/ early /\ mech \in {"group", "marker"}
           \/ setting.bare /\ owner = "foreign" /\ late

LEMMA NextNoStranger ==
  ASSUME TypeOK, ShutdownInv, NoStrangerSignalled, Next
  PROVE  NoStrangerSignalled'
<1>0. HostKinds /\ RootIsOurs /\ UnbornHoldNothing /\ AimHolds
  BY KindsAreTypes DEF ShutdownInv
<1>a. stray => Excused
  BY DEF NoStrangerSignalled, Excused
<1>b. ASSUME Misses PROVE Excused
  BY <1>0, <1>b DEF Misses, AimHolds, RootIsOurs, Excused
<1>c. ASSUME ByGroup, pid = "stranger", pc \in Call \cup Dropping PROVE Excused
  BY <1>0, <1>c DEF ByGroup, RootIsOurs, Excused
<1>d. SUFFICES ASSUME stray' PROVE Excused'
  BY DEF NoStrangerSignalled, Excused, mech, owner
<1>1. CASE (\E o \in {"tree", "lone"} : Begin(o)) \/ Drop
  BY <1>1, <1>d DEF Begin, Drop
<1>2. CASE TermConsole
  <2>1. owner # "foreign" /\ (owner = "sync" \/ status[Root] # "gone") /\ setting.windows
    <3>1. owner = "sync" \/ owner = "async" \/ owner = "foreign"
      BY <1>0, ShutdownAssumption DEF HostKinds, owner
    <3> QED
      BY <1>2, <3>1 DEF TermConsole, Offered, Unpinned, Pinned
  <2>2. pid = "root"
    BY <1>0, <2>1 DEF RootIsOurs
  <2>3. stray /\ UNCHANGED <<setting, early, late>>
    BY <1>2, <1>d, <2>2 DEF TermConsole, Said, Aimed, Bound
  <2> QED
    BY <1>a, <2>3 DEF Excused, mech, owner
<1>3. CASE TermGroup \/ TermIdentity \/ TermWalk
  <2>1. UNCHANGED <<setting, early, late>> /\ pc \in Call \cup Dropping
    BY <1>3 DEF TermGroup, TermIdentity, TermWalk, TreeSignal, Offered, Said, Call
  <2>2. stray \/ Misses \/ (ByGroup /\ pid = "stranger")
    BY <1>3, <1>d DEF TermGroup, TermIdentity, TermWalk, Aimed, Bound, ByIdentity
  <2> QED
    BY <1>a, <1>b, <1>c, <2>1, <2>2 DEF Excused, mech, owner
<1>4. CASE Sweep \/ DropTree
  <2>0. HardKill => missed' \subseteq Member
    BY <1>0 DEF HardKill, Missable, Known, Live, HostKinds
  <2>1. Rests /\ HardKill /\ UNCHANGED <<setting, early, late>> /\ pc \in Call \cup Dropping
    BY <1>4, <2>0 DEF Sweep, DropTree, Outside, Rests, Call, Dropping
  <2>2. stray \/ Misses \/ (ByGroup /\ pid = "stranger")
    BY <1>0, <1>d, <2>1, SweepShrinks
  <2> QED
    BY <1>a, <1>b, <1>c, <2>1, <2>2 DEF Excused, mech, owner
<1>5. CASE Moves
  <2>1. UNCHANGED <<setting, early, stray>>
    BY <1>5, MovesLeaveTheCall DEF seenVars
  <2>2. late => late'
    BY <1>0, <1>5, MovesOfTheHost
  <2> QED
    BY <1>a, <1>d, <2>1, <2>2 DEF Excused, mech, owner
<1>6. CASE LoneKill
  <2>1. (stray \/ Misses) /\ UNCHANGED <<setting, early, late>>
    BY <1>6, <1>d DEF LoneKill, Outside, Bound, ByIdentity
  <2> QED
    BY <1>a, <1>b, <2>1 DEF Excused, mech, owner
<1>7. CASE \/ TermUnsupported \/ TermUnpinned \/ TermCgroup \/ Verify \/ Watch \/ Cancel
           \/ Backstop \/ Reap \/ Collect \/ DropKill \/ DropReap
  <2>1. UNCHANGED <<setting, stray, early, late>>
    <3>1. CASE TermUnsupported \/ TermUnpinned \/ TermCgroup \/ Verify
      BY <3>1 DEF TermUnsupported, TermUnpinned, TermCgroup, Verify, Said, Bound, seenVars
    <3>2. CASE Watch \/ Cancel
      BY <3>2 DEF Watch, DrainProved, DrainUnproved, Probe, WatchFails, GraceElapses, ExitSeen,
                  ExitCollected, TreeWatch, RootWatch, Still, Cancel, seenVars, aimVars
    <3>3. CASE Backstop \/ Reap \/ Collect \/ DropKill \/ DropReap
      BY <3>3 DEF Backstop, Reap, Collect, DropKill, DropReap, Outside
    <3> QED
      BY <1>7, <3>1, <3>2, <3>3
  <2> QED
    BY <1>a, <1>d, <2>1 DEF Excused, mech, owner
<1> QED
  BY <1>1, <1>2, <1>3, <1>4, <1>5, <1>6, <1>7 DEF Next, Step, Term, Moves

THEOREM StrangersSpared == Spec => []NoStrangerSignalled
<1>1. Init => NoStrangerSignalled
  BY DEF Init, NoStrangerSignalled
<1>2. TypeOK /\ ShutdownInv /\ NoStrangerSignalled /\ [Next]_vars => NoStrangerSignalled'
  <2>1. CASE UNCHANGED vars
    BY <2>1 DEF NoStrangerSignalled, mech, owner, vars, seenVars, aimVars
  <2> QED
    BY <2>1, NextNoStranger
<1> QED
  BY <1>1, <1>2, TypeCorrect, PTL DEF Spec
=============================================================================
