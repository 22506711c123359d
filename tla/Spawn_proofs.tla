---------------------------- MODULE Spawn_proofs ----------------------------
(***************************************************************************)
(* Any calls that spawn side by side, with any commands, on any machine,   *)
(* keep what Spawn promises.  First the wiring: every backend wires a      *)
(* child as it was asked to, and refuses what cannot be had and nothing    *)
(* else.  Then the programs the calls follow, the inductive invariant,     *)
(* what each step does to it, and the promises it implies.                 *)
(***************************************************************************)
EXTENDS Spawn, SequenceTheorems, WellFoundedInduction, TLAPS

Slots(fds) == Std \cup DOMAIN fds

-----------------------------------------------------------------------------
(* The slots above and below 2 are all of them.                            *)
LEMMA SlotsAreStdAndHigh ==
  ASSUME NEW fds, Redirections(fds)
  PROVE  Std \cup High(fds) = Slots(fds)
BY DEF Redirections, Slots, Std, High

(* A redirection that is no merge is its own slot's, configured or not.    *)
LEMMA OfIsOwn ==
  ASSUME NEW fds, Redirections(fds), NEW s \in Slots(fds), ~ IsMerge(fds, s)
  PROVE  Of(fds, s).to = s
BY DEF Redirections, IsMerge, Of, Stream

(* A slot that is merged is one the caller has configured.                 *)
LEMMA MergesAreConfigured ==
  ASSUME NEW fds, NEW s, IsMerge(fds, s)
  PROVE  s \in DOMAIN fds /\ Of(fds, s) = fds[s]
BY DEF IsMerge, Of, Stream

(* resolve_stdio over all slots, with the pipes its own, refuses just what *)
(* is impossible: a chain of merges, a parent's stream above 2, and a      *)
(* merge into a slot that does not exist.                                  *)
Impossible(fds) == \/ Chained(fds)
                   \/ \E s \in Slots(fds) \ Merges(fds, Slots(fds)) : NoStream(fds, s)
                   \/ \E s \in Merges(fds, Slots(fds)) :
                        fds[s].to \notin Slots(fds) \ Merges(fds, Slots(fds))

(* Just those redirections are the ones nobody could wire.                 *)
LEMMA RefusalIsExact ==
  ASSUME NEW fds, Redirections(fds)
  PROVE  Impossible(fds) <=> ~ Possible(fds)
<1>1. Merges(fds, Slots(fds)) = Merges(fds, DOMAIN fds)
  BY MergesAreConfigured DEF Merges, Slots
<1>2. \A s \in Slots(fds) : NoStream(fds, s) => ~ IsMerge(fds, s) /\ s \in DOMAIN fds
  BY DEF NoStream, IsMerge, Slots, Std
<1>3. \A s \in DOMAIN fds : IsMerge(fds, s) =>
        (fds[s].to \in Slots(fds) \ Merges(fds, Slots(fds))
           <=> fds[s].to \in Slots(fds) /\ ~ IsMerge(fds, fds[s].to))
  BY DEF Merges
<1>4. Chained(fds) <=> \E s \in DOMAIN fds : IsMerge(fds, s) /\ IsMerge(fds, fds[s].to)
  BY DEF Chained, Merges
<1>5. (\E s \in Slots(fds) \ Merges(fds, Slots(fds)) : NoStream(fds, s))
        <=> \E s \in DOMAIN fds : NoStream(fds, s)
  BY <1>2 DEF Merges, Slots
<1>6. (\E s \in Merges(fds, Slots(fds)) : fds[s].to \notin Slots(fds) \ Merges(fds, Slots(fds)))
        <=> \E s \in DOMAIN fds : /\ IsMerge(fds, s)
                                  /\ ~ (fds[s].to \in Slots(fds) /\ ~ IsMerge(fds, fds[s].to))
  BY <1>1, <1>3 DEF Merges
<1>7. Possible(fds) <=>
        /\ \A s \in DOMAIN fds : IsMerge(fds, s) => ~ IsMerge(fds, fds[s].to)
        /\ \A s \in DOMAIN fds : ~ NoStream(fds, s)
        /\ \A s \in DOMAIN fds : IsMerge(fds, s) => fds[s].to \in Slots(fds)
  BY DEF Possible, Merges, Slots
<1> QED
  BY <1>4, <1>5, <1>6, <1>7 DEF Impossible

(* A wiring is faithful when it is refused for what is impossible alone,   *)
(* and otherwise gives each slot its own end or that of its target.        *)
LEMMA FaithfulWhen ==
  ASSUME NEW fds, Redirections(fds), NEW wired,
         Impossible(fds) => wired = Refused,
         ~ Impossible(fds) =>
            wired = Wired([s \in Slots(fds) |-> ChildEnd(fds, Of(fds, s).to)],
                           [s \in {p \in Slots(fds) : IsPipe(fds, p)} |-> ParentEnd(fds, s)])
  PROVE  Faithful(fds, wired)
<1>1. {p \in Slots(fds) : IsPipe(fds, p)} = {p \in DOMAIN fds : IsPipe(fds, p)}
  BY DEF Slots, IsPipe, Of, Stream
<1>2. CASE Impossible(fds)
  <2>1. wired.ok = FALSE
    BY <1>2 DEF Refused
  <2>2. wired.ok = Possible(fds)
    BY <1>2, <2>1, RefusalIsExact DEF Possible
  <2> QED
    BY <2>1, <2>2 DEF Faithful
<1>3. CASE ~ Impossible(fds)
  <2> DEFINE ends == [s \in Slots(fds) |-> ChildEnd(fds, Of(fds, s).to)]
             parent == [s \in {p \in Slots(fds) : IsPipe(fds, p)} |-> ParentEnd(fds, s)]
  <2>1. wired = [ok |-> TRUE, child |-> ends, parent |-> parent]
    BY <1>3 DEF Wired
  <2>2. ends = [s \in Std \cup DOMAIN fds |-> Asked(fds, s)]
    BY DEF Asked, Slots
  <2>3. parent = [s \in {p \in DOMAIN fds : IsPipe(fds, p)} |-> ParentEnd(fds, s)]
    BY <1>1
  <2> HIDE DEF ends, parent
  <2>4. wired.ok = TRUE /\ wired.child = ends /\ wired.parent = parent
    BY <2>1
  <2>5. wired.ok = Possible(fds)
    BY <1>3, <2>4, RefusalIsExact DEF Possible
  <2> QED
    BY <2>2, <2>3, <2>4, <2>5 DEF Faithful
<1> QED
  BY <1>2, <1>3

-----------------------------------------------------------------------------
(* The pass over all slots, with every pipe the resolver's own.            *)
LEMMA OwnPipes ==
  ASSUME NEW fds, Redirections(fds), NEW slots, slots = Slots(fds)
  PROVE  Faithful(fds, resolve_stdio(fds, slots, FALSE))
<1> DEFINE merges == Merges(fds, slots)
           made == {s \in slots \ merges : ~ (FALSE /\ s < 3 /\ IsPipe(fds, s))}
           wired == resolve_stdio(fds, slots, FALSE)
<1>1. made = Slots(fds) \ Merges(fds, Slots(fds))
  OBVIOUS
<1>2. Impossible(fds) => wired = Refused
  BY <1>1 DEF resolve_stdio, Impossible
<1>3. [s \in made \cup merges |-> ChildEnd(fds, IF s \in merges THEN fds[s].to ELSE s)]
        = [s \in Slots(fds) |-> ChildEnd(fds, Of(fds, s).to)]
  <2>1. made \cup merges = Slots(fds)
    BY <1>1 DEF Merges
  <2>2. ASSUME NEW s \in Slots(fds)
        PROVE  (IF s \in merges THEN fds[s].to ELSE s) = Of(fds, s).to
    BY OfIsOwn, MergesAreConfigured DEF Merges
  <2> QED
    BY <2>1, <2>2
<1>4. {m \in made : IsPipe(fds, m)} = {p \in Slots(fds) : IsPipe(fds, p)}
  BY <1>1 DEF Merges, IsPipe, IsMerge
<1>5. ~ Impossible(fds) =>
        wired = Wired([s \in Slots(fds) |-> ChildEnd(fds, Of(fds, s).to)],
                       [s \in {p \in Slots(fds) : IsPipe(fds, p)} |-> ParentEnd(fds, s)])
  BY <1>1, <1>3, <1>4 DEF resolve_stdio, Impossible
<1> QED
  BY <1>2, <1>5, FaithfulWhen

(* SyncIsFaithful: the synchronous spawn, by std and command-fds.          *)
THEOREM SyncIsFaithful ==
  ASSUME NEW fds, Redirections(fds)
  PROVE  Faithful(fds, SyncWiring(fds))
BY SlotsAreStdAndHigh, OwnPipes DEF SyncWiring

(* SyncStdIsFaithful: std's own Windows spawn, for what routing leaves it. *)
THEOREM SyncStdIsFaithful ==
  ASSUME NEW fds, Redirections(fds), High(fds) = {}
  PROVE  Faithful(fds, SyncStdWiring(fds))
<1>1. Std = Slots(fds)
  BY SlotsAreStdAndHigh
<1> QED
  BY <1>1, OwnPipes DEF SyncStdWiring

(* RawIsFaithful: the raw Windows backends, which own every pipe.          *)
THEOREM RawIsFaithful ==
  ASSUME NEW fds, Redirections(fds)
  PROVE  Faithful(fds, resolve_raw_ends(fds))
<1> DEFINE slots == Std \cup High(fds)
           first == slots \ Merges(fds, slots)
<1>1. slots = Slots(fds) /\ first = Slots(fds) \ Merges(fds, Slots(fds))
  BY SlotsAreStdAndHigh
<1>2. {p \in first : IsPipe(fds, p)} = {p \in Slots(fds) : IsPipe(fds, p)}
  BY <1>1 DEF Merges, IsPipe, IsMerge
<1>3. Impossible(fds) => resolve_raw_ends(fds) = Refused
  BY <1>1 DEF resolve_raw_ends, Impossible
<1>4. ~ Impossible(fds) =>
        resolve_raw_ends(fds)
          = Wired([s \in Slots(fds) |-> ChildEnd(fds, Of(fds, s).to)],
                  [s \in {p \in Slots(fds) : IsPipe(fds, p)} |-> ParentEnd(fds, s)])
  BY <1>1, <1>2 DEF resolve_raw_ends, Impossible
<1> QED
  BY <1>3, <1>4, FaithfulWhen

(* TablesFit: what ensure_fd_table_fits lets through is told to the child  *)
(* in full, and what it refuses would have been cut short.                 *)
THEOREM TablesFit ==
  ASSUME NEW fds, Redirections(fds)
  PROVE  ensure_fd_table_fits(fds) <=> Encodable(fds)
<1>1. ASSUME NEW s \in Nat
      PROVE  encoded_len(s) <= 65535 <=> cbReserved2(s) = encoded_len(s)
  BY DEF encoded_len, cbReserved2
<1> QED
  BY <1>1 DEF ensure_fd_table_fits, Encodable, Redirections
-----------------------------------------------------------------------------
(* The asynchronous spawn takes the slots of its pre-pass out of the map;  *)
(* of the others the map says what it said.                                *)
LEMMA RestAgrees ==
  ASSUME NEW fds, NEW pre, NEW s, s \notin pre
  PROVE  LET rest == Restrict(fds, DOMAIN fds \ pre)
         IN /\ Of(rest, s) = Of(fds, s)
            /\ IsMerge(rest, s) <=> IsMerge(fds, s)
            /\ IsPipe(rest, s) <=> IsPipe(fds, s)
            /\ NoStream(rest, s) <=> NoStream(fds, s)
            /\ ChildEnd(rest, s) = ChildEnd(fds, s)
            /\ ParentEnd(rest, s) = ParentEnd(fds, s)
            /\ s \in DOMAIN fds => s \in DOMAIN rest /\ rest[s] = fds[s]
<1> DEFINE rest == Restrict(fds, DOMAIN fds \ pre)
<1>1. DOMAIN rest = DOMAIN fds \ pre /\ \A d \in DOMAIN fds \ pre : rest[d] = fds[d]
  BY DEF Restrict
<1>2. Of(rest, s) = Of(fds, s)
  BY <1>1 DEF Of
<1> HIDE DEF rest
<1>3. /\ IsMerge(rest, s) <=> IsMerge(fds, s)
      /\ IsPipe(rest, s) <=> IsPipe(fds, s)
      /\ NoStream(rest, s) <=> NoStream(fds, s)
  BY <1>2 DEF IsMerge, IsPipe, NoStream
<1>4. ChildEnd(rest, s) = ChildEnd(fds, s)
  BY <1>2 DEF ChildEnd
<1>5. ParentEnd(rest, s) = ParentEnd(fds, s)
  BY <1>2 DEF ParentEnd
<1> QED
  BY <1>1, <1>2, <1>3, <1>4, <1>5 DEF rest

(* A merge the pre-pass leaves is into a slot it leaves, and tokio does    *)
(* not own the pipe of that slot.                                          *)
LEMMA LeftMerges ==
  ASSUME NEW fds, Redirections(fds), ~ Chained(fds),
         NEW s \in DOMAIN fds, IsMerge(fds, s), s \notin PrePassed(fds)
  PROVE  /\ fds[s].to \notin PrePassed(fds)
         /\ ~ IsMerge(fds, fds[s].to)
         /\ ~ (fds[s].to \in Std /\ IsPipe(fds, fds[s].to))
<1> DEFINE targets == {t \in Std : /\ IsPipe(fds, t)
                                   /\ \E m \in Merges(fds, DOMAIN fds) : fds[m].to = t}
<1>1. PrePassed(fds) = targets \cup {m \in Merges(fds, DOMAIN fds) : fds[m].to \in targets}
  BY DEF PrePassed
<1>2. s \in Merges(fds, DOMAIN fds)
  BY DEF Merges
<1>3. fds[s].to \notin targets
  BY <1>1, <1>2
<1>4. ~ IsMerge(fds, fds[s].to)
  BY <1>2 DEF Chained
<1>5. fds[s].to \notin {m \in Merges(fds, DOMAIN fds) : fds[m].to \in targets}
  BY <1>4 DEF Merges
<1> QED
  BY <1>1, <1>2, <1>3, <1>4, <1>5

(* Who is in the pre-pass: configured standard pipes, and merges into one. *)
LEMMA PrePassMembers ==
  ASSUME NEW fds, Redirections(fds), NEW s \in PrePassed(fds)
  PROVE  /\ s \in Slots(fds) /\ ~ NoStream(fds, s) /\ ~ Chained(fds)
         /\ IsMerge(fds, s) => fds[s].to \in Std /\ ~ IsMerge(fds, fds[s].to)
<1> DEFINE targets == {t \in Std : /\ IsPipe(fds, t)
                                   /\ \E m \in Merges(fds, DOMAIN fds) : fds[m].to = t}
<1>1. ~ Chained(fds) /\ s \in targets \cup {m \in Merges(fds, DOMAIN fds) : fds[m].to \in targets}
  BY DEF PrePassed
<1>2. CASE s \in targets
  BY <1>1, <1>2 DEF Slots, Std, NoStream, IsMerge, IsPipe
<1>3. CASE s \in Merges(fds, DOMAIN fds) /\ fds[s].to \in targets
  BY <1>1, <1>3 DEF Slots, Std, NoStream, IsMerge, IsPipe, Merges
<1> QED
  BY <1>1, <1>2, <1>3

(* AsyncIsFaithful: the asynchronous spawn through tokio, which owns the   *)
(* piped standard slots that nothing is merged into.                       *)
THEOREM AsyncIsFaithful ==
  ASSUME NEW fds, Redirections(fds)
  PROVE  Faithful(fds, AsyncWiring(fds, High(fds)))
<1> DEFINE pre == PrePassed(fds)
           rest == Restrict(fds, DOMAIN fds \ pre)
           slots == (Std \ pre) \cup (High(fds) \ pre)
           merges == Merges(rest, slots)
           made == {s \in slots \ merges : ~ (s < 3 /\ IsPipe(rest, s))}
           core == resolve_stdio(rest, slots, TRUE)
           piped == {s \in Std \ pre : IsPipe(rest, s)}
           ours == {s \in pre : IsPipe(fds, s)}
           wired == AsyncWiring(fds, High(fds))
<1>1. slots = Slots(fds) \ pre
  BY SlotsAreStdAndHigh
<1>2. merges = {s \in Slots(fds) \ pre : IsMerge(fds, s)}
  BY <1>1, RestAgrees DEF Merges
<1>3. made = {s \in Slots(fds) \ pre : ~ IsMerge(fds, s) /\ ~ (s < 3 /\ IsPipe(fds, s))}
  BY <1>1, <1>2, RestAgrees
<1>4. piped = {s \in Std \ pre : IsPipe(fds, s)}
  BY RestAgrees
<1>5. Chained(rest) <=> Chained(fds)
  <2>1. CASE Chained(fds)
    <3>1. pre = {}
      BY <2>1 DEF PrePassed
    <3>2. PICK s \in DOMAIN fds : IsMerge(fds, s) /\ IsMerge(fds, fds[s].to)
      BY <2>1 DEF Chained, Merges
    <3>3. s \in DOMAIN rest /\ IsMerge(rest, s) /\ IsMerge(rest, rest[s].to)
      BY <3>1, <3>2, RestAgrees
    <3> QED
      BY <2>1, <3>3 DEF Chained, Merges
  <2>2. CASE ~ Chained(fds)
    <3> SUFFICES ASSUME Chained(rest)
                 PROVE  FALSE
      BY <2>2
    <3>1. PICK s \in DOMAIN rest : IsMerge(rest, s) /\ IsMerge(rest, rest[s].to)
      BY DEF Chained, Merges
    <3>2. s \in DOMAIN fds /\ s \notin pre /\ rest[s] = fds[s]
      BY DEF Restrict
    <3>3. IsMerge(fds, s)
      BY <3>1, <3>2, RestAgrees
    <3>4. fds[s].to \notin pre /\ ~ IsMerge(fds, fds[s].to)
      BY <2>2, <3>2, <3>3, LeftMerges
    <3> QED
      BY <3>1, <3>2, <3>4, RestAgrees
  <2> QED
    BY <2>1, <2>2
<1>6. \A s \in merges : /\ rest[s] = fds[s] /\ Of(fds, s) = fds[s] /\ s \in DOMAIN fds
                        /\ IsMerge(fds, s) /\ s \notin pre
  BY <1>2, MergesAreConfigured, RestAgrees
<1>7. \A s \in slots : NoStream(rest, s) <=> NoStream(fds, s)
  BY <1>1, RestAgrees
<1>8. ~ core.ok => core = Refused /\ wired = Refused
  BY DEF resolve_stdio, AsyncWiring, Wired
<1>9. core = Refused <=> Impossible(fds)
  <2>1. core = Refused <=> \/ Chained(rest)
                           \/ \E s \in made : NoStream(rest, s)
                           \/ \E s \in merges : rest[s].to \notin made
    BY DEF resolve_stdio, Wired, Refused
  <2>2. CASE Chained(fds)
    BY <1>5, <2>1, <2>2 DEF Impossible
  <2>3. CASE ~ Chained(fds)
    <3>1. (\E s \in made : NoStream(rest, s))
            <=> \E s \in Slots(fds) \ Merges(fds, Slots(fds)) : NoStream(fds, s)
      <4>1. \A s \in Slots(fds) : NoStream(fds, s) =>
              s \notin pre /\ ~ IsMerge(fds, s) /\ ~ IsPipe(fds, s)
        BY PrePassMembers DEF NoStream, IsMerge, IsPipe
      <4>2. made \subseteq slots
        OBVIOUS
      <4> QED
        BY <1>3, <1>7, <4>1, <4>2 DEF Merges
    <3>2. (\E s \in merges : rest[s].to \notin made)
            <=> \E s \in Merges(fds, Slots(fds)) :
                  fds[s].to \notin Slots(fds) \ Merges(fds, Slots(fds))
      <4>1. ASSUME NEW s \in merges
            PROVE  rest[s].to \in made <=> fds[s].to \in Slots(fds) \ Merges(fds, Slots(fds))
        <5>1. /\ fds[s].to \notin pre /\ ~ IsMerge(fds, fds[s].to)
              /\ ~ (fds[s].to \in Std /\ IsPipe(fds, fds[s].to))
          BY <1>6, <2>3, LeftMerges
        <5>2. fds[s].to \in Slots(fds) /\ fds[s].to < 3 => fds[s].to \in Std
          BY DEF Slots, Std, Redirections
        <5> QED
          BY <1>3, <1>6, <5>1, <5>2 DEF Merges
      <4>2. ASSUME NEW s \in Merges(fds, Slots(fds)), s \notin merges
            PROVE  fds[s].to \in Slots(fds) \ Merges(fds, Slots(fds))
        <5>1. s \in pre /\ IsMerge(fds, s)
          BY <1>2, <4>2 DEF Merges
        <5> QED
          BY <5>1, PrePassMembers DEF Merges, Slots
      <4>3. merges \subseteq Merges(fds, Slots(fds))
        BY <1>2 DEF Merges
      <4> QED
        BY <4>1, <4>2, <4>3
    <3> QED
      BY <1>5, <2>1, <2>3, <3>1, <3>2 DEF Impossible
  <2> QED
    BY <2>2, <2>3
<1>10. Impossible(fds) => wired = Refused
  <2>1. ASSUME Impossible(fds) PROVE core.ok = FALSE
    <3>1. core = [ok |-> FALSE, child |-> <<>>, parent |-> <<>>]
      BY <1>9, <2>1 DEF Refused
    <3> HIDE DEF core
    <3> QED
      BY <3>1
  <2> QED
    BY <1>8, <2>1
<1>11. ASSUME ~ Impossible(fds)
       PROVE  wired = Wired([s \in Slots(fds) |-> ChildEnd(fds, Of(fds, s).to)],
                             [s \in {p \in Slots(fds) : IsPipe(fds, p)} |-> ParentEnd(fds, s)])
  <2> DEFINE ends == [s \in made \cup merges
                         |-> ChildEnd(rest, IF s \in merges THEN rest[s].to ELSE s)]
             parent == [s \in {m \in made : IsPipe(rest, m)} |-> ParentEnd(rest, s)]
             allChild == [s \in pre \cup piped \cup DOMAIN core.child |->
                            CASE s \in pre -> ChildEnd(fds, Of(fds, s).to)
                              [] s \in piped -> ChildEnd(rest, s)
                              [] OTHER -> core.child[s]]
             allParent == [s \in ours \cup piped \cup DOMAIN core.parent |->
                             CASE s \in ours -> ParentEnd(fds, s)
                               [] s \in piped -> ParentEnd(rest, s)
                               [] OTHER -> core.parent[s]]
  <2>1. core # Refused
    BY <1>9, <1>11
  <2>2. core = Wired(ends, parent)
    BY <2>1 DEF resolve_stdio
  <2>3. core.ok = TRUE /\ core.child = ends /\ core.parent = parent
    <3> HIDE DEF core, ends, parent
    <3> QED
      BY <2>2 DEF Wired
  <2>4. wired = Wired(allChild, allParent)
    BY <2>3 DEF AsyncWiring
  <2>5. ~ Chained(fds)
    BY <1>11 DEF Impossible
  <2>6. allChild = [s \in Slots(fds) |-> ChildEnd(fds, Of(fds, s).to)]
    <3>1. pre \cup piped \cup made \cup merges = Slots(fds)
      <4>1. pre \subseteq Slots(fds) /\ Std \subseteq Slots(fds)
        BY PrePassMembers DEF Slots
      <4>2. \A s \in Slots(fds) : s < 3 => s \in Std
        BY DEF Slots, Std, Redirections
      <4> QED
        BY <1>2, <1>3, <1>4, <4>1, <4>2
    <3>2. ASSUME NEW s \in piped, s \notin pre
          PROVE  ChildEnd(rest, s) = ChildEnd(fds, Of(fds, s).to)
      <4>1. s \in Slots(fds) /\ ~ IsMerge(fds, s)
        BY <1>4 DEF Slots, IsPipe, IsMerge
      <4> QED
        BY <3>2, <4>1, RestAgrees, OfIsOwn
    <3>3. ASSUME NEW s \in made \cup merges, s \notin pre, s \notin piped
          PROVE  ends[s] = ChildEnd(fds, Of(fds, s).to)
      <4>1. CASE s \in merges
        <5>1. rest[s].to = Of(fds, s).to /\ fds[s].to \notin pre
          BY <1>6, <2>5, <4>1, LeftMerges
        <5>2. ends[s] = ChildEnd(rest, rest[s].to)
          BY <3>3, <4>1
        <5>3. ChildEnd(rest, fds[s].to) = ChildEnd(fds, fds[s].to)
          BY <5>1, RestAgrees
        <5> QED
          BY <1>6, <4>1, <5>1, <5>2, <5>3
      <4>2. CASE s \notin merges
        <5>1. s \in Slots(fds) /\ ~ IsMerge(fds, s)
          BY <1>3, <3>3, <4>2
        <5>2. ends[s] = ChildEnd(rest, s)
          BY <3>3, <4>2
        <5>3. Of(fds, s).to = s
          BY <5>1, OfIsOwn
        <5>4. ChildEnd(rest, s) = ChildEnd(fds, s)
          BY <3>3, RestAgrees
        <5> QED
          BY <5>2, <5>3, <5>4
      <4> QED
        BY <4>1, <4>2
    <3>4. DOMAIN core.child = made \cup merges
      BY <2>3
    <3> HIDE DEF pre, piped, made, merges, core, ends, rest
    <3>5. DOMAIN allChild = Slots(fds)
      BY <3>1, <3>4
    <3>6. ASSUME NEW s \in Slots(fds)
          PROVE  allChild[s] = ChildEnd(fds, Of(fds, s).to)
      <4>1. CASE s \in pre
        <5>1. allChild[s] = CASE s \in pre -> ChildEnd(fds, Of(fds, s).to)
                              [] s \in piped -> ChildEnd(rest, s)
                              [] OTHER -> core.child[s]
          BY <4>1
        <5>2. s \notin piped
          BY <4>1, <1>4
        <5> QED
          BY <4>1, <5>1, <5>2
      <4>2. CASE s \notin pre /\ s \in piped
        <5>1. allChild[s] = ChildEnd(rest, s)
          BY <3>1, <4>2
        <5> QED
          BY <3>2, <4>2, <5>1
      <4>3. CASE s \notin pre /\ s \notin piped
        <5>1. s \in made \cup merges
          BY <3>1, <4>3
        <5>2. allChild[s] = core.child[s]
          BY <3>4, <4>3, <5>1
        <5> QED
          BY <2>3, <3>3, <4>3, <5>1, <5>2
      <4> QED
        BY <4>1, <4>2, <4>3
    <3> QED
      BY <3>5, <3>6
  <2>7. allParent = [s \in {p \in Slots(fds) : IsPipe(fds, p)} |-> ParentEnd(fds, s)]
    <3>1. ours \cup piped \cup {m \in made : IsPipe(rest, m)} = {p \in Slots(fds) : IsPipe(fds, p)}
      <4>1. pre \subseteq Slots(fds) /\ Std \subseteq Slots(fds)
        BY PrePassMembers DEF Slots
      <4>2. \A s \in Slots(fds) : s < 3 => s \in Std
        BY DEF Slots, Std, Redirections
      <4>3. {m \in made : IsPipe(rest, m)} = {m \in made : IsPipe(fds, m)}
        BY <1>3, RestAgrees
      <4>4. \A s \in Slots(fds) : IsPipe(fds, s) => ~ IsMerge(fds, s)
        BY DEF IsPipe, IsMerge
      <4> QED
        BY <1>3, <1>4, <4>1, <4>2, <4>3, <4>4
    <3>2. ASSUME NEW s \in piped \cup made
          PROVE  ParentEnd(rest, s) = ParentEnd(fds, s)
      BY <1>3, <1>4, RestAgrees
    <3>3. DOMAIN core.parent = {m \in made : IsPipe(rest, m)}
      BY <2>3
    <3>4. \A s \in {m \in made : IsPipe(rest, m)} : core.parent[s] = ParentEnd(rest, s)
      BY <2>3
    <3> HIDE DEF ours, piped, made, merges, core, parent, rest
    <3>5. DOMAIN allParent = {p \in Slots(fds) : IsPipe(fds, p)}
      BY <3>1, <3>3
    <3>6. ASSUME NEW s \in {p \in Slots(fds) : IsPipe(fds, p)}
          PROVE  allParent[s] = ParentEnd(fds, s)
      BY <3>1, <3>2, <3>3, <3>4
    <3> QED
      BY <3>5, <3>6
  <2> QED
    BY <2>4, <2>6, <2>7
<1> QED
  BY <1>10, <1>11, FaithfulWhen

-----------------------------------------------------------------------------
(* The steps of a program, and the order they come in.                     *)
StepName == {"runtime", "elevate", "build", "prepare", "resolve", "lock", "mark", "fence",
             "create", "close", "release", "unlock", "assign", "resume", "attach", "identify",
             "adopt", "password", "kill", "wait", "reap", "drop"}

(* When a step may come at the earliest and at the latest. identify comes  *)
(* before the child is attached or after it, as the backend goes.          *)
Earliest(os, s) ==
  CASE s = "runtime" -> 0
    [] s = "elevate" -> 1
    [] s \in {"build", "resolve"} -> 2
    [] s = "prepare" -> IF os = "macos" THEN 4 ELSE 2
    [] s = "lock" -> 3
    [] s = "mark" -> 4
    [] s = "fence" -> 5
    [] s = "create" -> 6
    [] s \in {"close", "release"} -> 7
    [] s = "unlock" -> 8
    [] s \in {"assign", "identify"} -> 9
    [] s = "resume" -> 10
    [] s \in {"attach", "adopt"} -> 11
    [] s = "password" -> 12
    [] s = "kill" -> 13
    [] s \in {"wait", "reap"} -> 14
    [] OTHER -> 15
Latest(os, s) == IF s = "identify" THEN 11 ELSE Earliest(os, s)

InOrder(os, q) ==
  \A i, j \in 1..Len(q) : i < j => q[i] # q[j] /\ Earliest(os, q[i]) <= Latest(os, q[j])

(* The steps that occur in a program, by their places.                     *)
LEMMA RangeOfSequence ==
  ASSUME NEW q \in Seq(StepName)
  PROVE  Range(q) = {q[i] : i \in 1..Len(q)} /\ Range(q) \subseteq StepName
BY DEF Range

(* Taking the first step off a program leaves one in order, without that   *)
(* step, and with nothing left that is due before it.                      *)
LEMMA TailInOrder ==
  ASSUME NEW os, NEW q \in Seq(StepName), q # <<>>, InOrder(os, q)
  PROVE  /\ Tail(q) \in Seq(StepName) /\ InOrder(os, Tail(q))
         /\ Head(q) \in Range(q) /\ Range(Tail(q)) = Range(q) \ {Head(q)}
         /\ \A t \in Range(q) \ {Head(q)} : Earliest(os, Head(q)) <= Latest(os, t)
<1>1. /\ Tail(q) \in Seq(StepName) /\ Len(q) \in Nat /\ Len(q) >= 1 /\ Len(Tail(q)) = Len(q) - 1
      /\ Head(q) = q[1]
      /\ \A i \in 1..Len(Tail(q)) : Tail(q)[i] = q[i + 1]
  OBVIOUS
<1>2. InOrder(os, Tail(q))
  BY <1>1 DEF InOrder
<1>3. \A t \in Range(q) : t = q[1] \/ \E i \in 1..Len(Tail(q)) : t = Tail(q)[i]
  <2> SUFFICES ASSUME NEW j \in 1..Len(q), j # 1
               PROVE  \E i \in 1..Len(Tail(q)) : q[j] = Tail(q)[i]
    BY RangeOfSequence
  <2>1. j - 1 \in 1..Len(Tail(q)) /\ (j - 1) + 1 = j
    BY <1>1
  <2> QED
    BY <1>1, <2>1
<1>4. \A i \in 1..Len(Tail(q)) : /\ Tail(q)[i] \in Range(q) \ {q[1]}
                               /\ Earliest(os, q[1]) <= Latest(os, Tail(q)[i])
  BY <1>1, RangeOfSequence DEF InOrder
<1>5. Range(Tail(q)) = {Tail(q)[i] : i \in 1..Len(Tail(q))}
  BY <1>1, RangeOfSequence
<1>6. q[1] \in Range(q)
  BY <1>1, RangeOfSequence
<1> QED
  BY <1>1, <1>2, <1>3, <1>4, <1>5, <1>6

(* Two pieces in order make one, when no step of the second comes before   *)
(* one of the first.                                                       *)
LEMMA ConcatInOrder ==
  ASSUME NEW os, NEW p \in Seq(StepName), NEW q \in Seq(StepName), InOrder(os, p), InOrder(os, q),
         \A s \in Range(p), t \in Range(q) : s # t /\ Earliest(os, s) <= Latest(os, t)
  PROVE  /\ p \o q \in Seq(StepName) /\ InOrder(os, p \o q)
         /\ Range(p \o q) = Range(p) \cup Range(q)
<1>1. /\ p \o q \in Seq(StepName) /\ Len(p \o q) = Len(p) + Len(q)
      /\ Len(p) \in Nat /\ Len(q) \in Nat
      /\ \A i \in 1..Len(p) + Len(q) : (p \o q)[i] = IF i <= Len(p) THEN p[i] ELSE q[i - Len(p)]
  OBVIOUS
<1>2. ASSUME NEW i \in 1..Len(p) + Len(q), NEW j \in 1..Len(p) + Len(q), i < j
      PROVE  /\ (p \o q)[i] # (p \o q)[j]
             /\ Earliest(os, (p \o q)[i]) <= Latest(os, (p \o q)[j])
  <2>1. CASE j <= Len(p)
    <3>1. i \in 1..Len(p) /\ j \in 1..Len(p)
      BY <1>1, <1>2, <2>1
    <3> QED
      BY <1>1, <1>2, <2>1, <3>1 DEF InOrder
  <2>2. CASE i > Len(p)
    <3>1. i - Len(p) \in 1..Len(q) /\ j - Len(p) \in 1..Len(q) /\ i - Len(p) < j - Len(p)
      BY <1>1, <1>2, <2>2
    <3> QED
      BY <1>1, <1>2, <2>2, <3>1 DEF InOrder
  <2>3. CASE i <= Len(p) /\ j > Len(p)
    <3>1. i \in 1..Len(p) /\ j - Len(p) \in 1..Len(q)
      BY <1>1, <2>3
    <3>2. p[i] \in Range(p) /\ q[j - Len(p)] \in Range(q)
      BY <3>1, RangeOfSequence
    <3> QED
      BY <1>1, <2>3, <3>2
  <2> QED
    BY <1>1, <2>1, <2>2, <2>3
<1>3. InOrder(os, p \o q)
  BY <1>1, <1>2 DEF InOrder
<1>4. Range(p \o q) \subseteq Range(p) \cup Range(q)
  <2>0. Range(p \o q) = {(p \o q)[i] : i \in 1..Len(p) + Len(q)}
    BY <1>1, RangeOfSequence
  <2> SUFFICES ASSUME NEW i \in 1..Len(p) + Len(q)
               PROVE  (p \o q)[i] \in Range(p) \cup Range(q)
    BY <2>0
  <2>1. CASE i <= Len(p)
    BY <1>1, <2>1, RangeOfSequence
  <2>2. CASE i > Len(p)
    <3>1. i - Len(p) \in 1..Len(q)
      BY <1>1, <2>2
    <3> QED
      BY <1>1, <2>2, <3>1, RangeOfSequence
  <2> QED
    BY <1>1, <2>1, <2>2
<1>5. ASSUME NEW i \in 1..Len(p) PROVE p[i] \in Range(p \o q)
  <2>1. i \in 1..Len(p) + Len(q) /\ (p \o q)[i] = p[i]
    BY <1>1
  <2> QED
    BY <1>1, <2>1, RangeOfSequence
<1>6. ASSUME NEW i \in 1..Len(q) PROVE q[i] \in Range(p \o q)
  <2>1. i + Len(p) \in 1..Len(p) + Len(q) /\ (p \o q)[i + Len(p)] = q[i]
    BY <1>1
  <2> QED
    BY <1>1, <2>1, RangeOfSequence
<1> QED
  BY <1>1, <1>3, <1>4, <1>5, <1>6, RangeOfSequence

(* A program is in order, has a step for all that is due, and has neither  *)
(* a step of another backend nor one that only follows a failure.          *)
Left(c) == Range(todo[c])

Due(k) == {"lock", "create", "unlock", "drop"}
            \cup (IF Windows THEN {"close"} ELSE {})
            \cup (IF host.os = "macos" THEN {"fence"} ELSE {})
            \cup (IF JobRoot(k) THEN {"resume"} ELSE {})

Ending == {"kill", "wait", "reap"}

(* The empty program and those of one step.                                *)
LEMMA ShortSequences ==
  ASSUME NEW os
  PROVE  /\ <<>> \in Seq(StepName) /\ Range(<<>>) = {} /\ InOrder(os, <<>>)
         /\ \A s \in StepName : /\ <<s>> \in Seq(StepName) /\ Range(<<s>>) = {s}
                               /\ InOrder(os, <<s>>)
<1>1. <<>> \in Seq(StepName) /\ Range(<<>>) = {} /\ InOrder(os, <<>>)
  BY DEF Range, InOrder
<1>2. ASSUME NEW s \in StepName
      PROVE  <<s>> \in Seq(StepName) /\ Range(<<s>>) = {s} /\ InOrder(os, <<s>>)
  BY DEF Range, InOrder
<1> QED
  BY <1>1, <1>2

(* The pieces of two steps.                                                *)
LEMMA PairInOrder ==
  ASSUME NEW os, NEW s \in StepName, NEW t \in StepName, s # t, Earliest(os, s) <= Latest(os, t)
  PROVE  /\ <<s, t>> \in Seq(StepName) /\ Range(<<s, t>>) = {s, t} /\ InOrder(os, <<s, t>>)
<1>1. <<s, t>> \in Seq(StepName) /\ Len(<<s, t>>) = 2
  OBVIOUS
<1>2. \A i \in 1..2 : i = 1 \/ i = 2
  OBVIOUS
<1>3. InOrder(os, <<s, t>>)
  BY <1>1, <1>2 DEF InOrder
<1>4. Range(<<s, t>>) = {s, t}
  BY <1>1, <1>2 DEF Range
<1> QED
  BY <1>1, <1>3, <1>4

(* What a spawn does under the inheritance lock, on each system.           *)
LEMMA LockedInOrder ==
  ASSUME host.os \in {"linux", "macos", "windows"}
  PROVE  /\ Locked \in Seq(StepName) /\ InOrder(host.os, Locked)
         /\ Range(Locked) = {"lock", "create", "unlock"}
                              \cup (IF Windows THEN {"mark", "close"} ELSE {})
                              \cup (IF host.os = "macos" THEN {"prepare", "fence", "release"} ELSE {})
<1>1. CASE host.os = "linux"
  <2> DEFINE q == <<"lock", "create", "unlock">>
  <2>1. Locked = q /\ ~ Windows /\ host.os # "macos"
    BY <1>1 DEF Locked, Windows
  <2>2. q \in Seq(StepName) /\ InOrder(host.os, q) /\ Range(q) = {"lock", "create", "unlock"}
    <3>1. q \in Seq(StepName) /\ Len(q) = 3
      BY DEF StepName
    <3>2. \A i \in 1..3 : i = 1 \/ i = 2 \/ i = 3
      OBVIOUS
    <3>3. InOrder(host.os, q)
      BY <3>1, <3>2 DEF InOrder, Earliest, Latest
    <3> QED
      BY <3>1, <3>2, <3>3 DEF Range
  <2> QED
    BY <2>1, <2>2
<1>2. CASE host.os = "windows"
  <2> DEFINE q == <<"lock", "mark", "create", "close", "unlock">>
  <2>1. Locked = q /\ Windows /\ host.os # "macos"
    BY <1>2 DEF Locked, Windows
  <2>2. q \in Seq(StepName) /\ Len(q) = 5
    BY DEF StepName
  <2>3. \A i \in 1..5 : i = 1 \/ i = 2 \/ i = 3 \/ i = 4 \/ i = 5
    OBVIOUS
  <2>4. InOrder(host.os, q)
    BY <2>2, <2>3 DEF InOrder, Earliest, Latest
  <2>5. Range(q) = {"lock", "mark", "create", "close", "unlock"}
    BY <2>2, <2>3 DEF Range
  <2> QED
    BY <2>1, <2>2, <2>4, <2>5
<1>3. CASE host.os = "macos"
  <2> DEFINE q == <<"lock", "prepare", "fence", "create", "release", "unlock">>
  <2>1. Locked = q /\ ~ Windows /\ host.os = "macos"
    BY <1>3 DEF Locked, Windows
  <2>2. q \in Seq(StepName) /\ Len(q) = 6
    BY DEF StepName
  <2>3. \A i \in 1..6 : i = 1 \/ i = 2 \/ i = 3 \/ i = 4 \/ i = 5 \/ i = 6
    OBVIOUS
  <2>4. InOrder(host.os, q)
    BY <1>3, <2>2, <2>3 DEF InOrder, Earliest, Latest
  <2>5. Range(q) = {"lock", "prepare", "fence", "create", "release", "unlock"}
    BY <2>2, <2>3 DEF Range
  <2> QED
    BY <2>1, <2>2, <2>4, <2>5
<1> QED
  BY <1>1, <1>2, <1>3

(* What a spawn does before it takes the lock.                             *)
LEMMA PreludeInOrder ==
  ASSUME host.os \in {"linux", "macos", "windows"}, NEW k
  PROVE  /\ Prelude(k) \in Seq(StepName) /\ InOrder(host.os, Prelude(k))
         /\ Range(Prelude(k)) = {"build", "resolve"}
                                  \cup (IF host.os = "macos" THEN {} ELSE {"prepare"})
<1> DEFINE raw == <<"build", "prepare", "resolve">>
           mac == <<"build", "resolve">>
           std == <<"build", "resolve", "prepare">>
<1>1. /\ raw \in Seq(StepName) /\ Len(raw) = 3 /\ std \in Seq(StepName) /\ Len(std) = 3
      /\ mac \in Seq(StepName) /\ Len(mac) = 2
  BY DEF StepName
<1>2. (\A i \in 1..3 : i = 1 \/ i = 2 \/ i = 3) /\ (\A i \in 1..2 : i = 1 \/ i = 2)
  OBVIOUS
<1>3. /\ Range(raw) = {"build", "resolve", "prepare"} /\ Range(std) = {"build", "resolve", "prepare"}
      /\ Range(mac) = {"build", "resolve"}
  BY <1>1, <1>2 DEF Range
<1>4. InOrder(host.os, mac)
  BY <1>1, <1>2 DEF InOrder, Earliest, Latest
<1>5. host.os # "macos" => InOrder(host.os, raw) /\ InOrder(host.os, std)
  BY <1>1, <1>2 DEF InOrder, Earliest, Latest
<1>6. CASE Raw(k)
  <2>1. Prelude(k) = raw /\ host.os # "macos"
    BY <1>6 DEF Prelude, Raw, Windows
  <2> QED
    BY <1>1, <1>3, <1>5, <2>1
<1>7. CASE ~ Raw(k) /\ host.os = "macos"
  <2>1. Prelude(k) = mac
    BY <1>7 DEF Prelude
  <2> QED
    BY <1>1, <1>3, <1>4, <1>7, <2>1
<1>8. CASE ~ Raw(k) /\ host.os # "macos"
  <2>1. Prelude(k) = std
    BY <1>8 DEF Prelude
  <2> QED
    BY <1>1, <1>3, <1>5, <1>8, <2>1
<1> QED
  BY <1>6, <1>7, <1>8

(* How a started child is put into its job and reported.                   *)
LEMMA AttachingInOrder ==
  ASSUME NEW k
  PROVE  /\ Attaching(k) \in Seq(StepName) /\ InOrder(host.os, Attaching(k))
         /\ Range(Attaching(k)) = {"attach"} \cup (IF JobRoot(k) THEN {"assign", "resume"} ELSE {})
<1> DEFINE last == <<"attach">>
<1>1. /\ last \in Seq(StepName) /\ Range(last) = {"attach"}
      /\ InOrder(host.os, last)
  BY ShortSequences DEF StepName
<1>3. /\ JobSteps \in Seq(StepName) /\ Range(JobSteps) = {"assign", "resume"}
      /\ InOrder(host.os, JobSteps)
  <2>1. "assign" \in StepName /\ "resume" \in StepName /\ "assign" # "resume"
    BY DEF StepName
  <2>2. Earliest(host.os, "assign") <= Latest(host.os, "resume")
    BY DEF Earliest, Latest
  <2> QED
    BY <2>1, <2>2, PairInOrder DEF JobSteps
<1>4. /\ JobRoot(k) => Attaching(k) = JobSteps \o last
      /\ ~ JobRoot(k) => Attaching(k) = <<>> \o last
  BY DEF Attaching
<1>0. <<>> \o last = last
  BY <1>1
<1> HIDE DEF last
<1>5. CASE JobRoot(k)
  <2>1. Attaching(k) = JobSteps \o last
    BY <1>4, <1>5
  <2>2. \A s \in Range(JobSteps), t \in Range(last) :
          s # t /\ Earliest(host.os, s) <= Latest(host.os, t)
    BY <1>1, <1>3 DEF Earliest, Latest
  <2>3. /\ JobSteps \o last \in Seq(StepName) /\ InOrder(host.os, JobSteps \o last)
        /\ Range(JobSteps \o last) = Range(JobSteps) \cup Range(last)
    BY <1>1, <1>3, <2>2, ConcatInOrder
  <2> QED
    BY <1>1, <1>3, <1>5, <2>1, <2>3
<1>6. CASE ~ JobRoot(k)
  <2> QED
    BY <1>0, <1>1, <1>4, <1>6
<1> QED
  BY <1>5, <1>6

(* The order in which a backend identifies its child and attaches it.      *)
LEMMA AdoptingInOrder ==
  ASSUME NEW k
  PROVE  /\ Adopting(k) \in Seq(StepName) /\ InOrder(host.os, Adopting(k))
         /\ Range(Adopting(k)) = {"attach", "identify"}
              \cup (IF JobRoot(k) THEN {"assign", "resume"} ELSE {})
              \cup (IF SyncStd(k) THEN {"adopt"} ELSE {})
<1> DEFINE one == <<"identify">>
           two == <<"identify", "adopt">>
<1>1. one \in Seq(StepName) /\ Range(one) = {"identify"} /\ InOrder(host.os, one)
  BY ShortSequences DEF StepName
<1>2. two \in Seq(StepName) /\ InOrder(host.os, two) /\ Range(two) = {"identify", "adopt"}
  <2>1. "identify" \in StepName /\ "adopt" \in StepName /\ "identify" # "adopt"
    BY DEF StepName
  <2>2. Earliest(host.os, "identify") <= Latest(host.os, "adopt")
    BY DEF Earliest, Latest
  <2> QED
    BY <2>1, <2>2, PairInOrder
<1>3. \A s \in Range(Attaching(k)), t \in {"identify", "adopt"} :
        /\ s # t /\ Earliest(host.os, s) <= Latest(host.os, t)
        /\ Earliest(host.os, "identify") <= Latest(host.os, s)
  BY AttachingInOrder DEF Earliest, Latest
<1> HIDE DEF one, two
<1>4. /\ SyncStd(k) => Adopting(k) = Attaching(k) \o two
      /\ ~ SyncStd(k) /\ Raw(k) => Adopting(k) = Attaching(k) \o one
      /\ ~ SyncStd(k) /\ ~ Raw(k) => Adopting(k) = one \o Attaching(k)
  <2>1. Adopting(k) = CASE SyncStd(k) -> Attaching(k) \o two
                        [] Raw(k) -> Attaching(k) \o one
                        [] OTHER -> one \o Attaching(k)
    BY DEF Adopting, one, two
  <2>2. CASE SyncStd(k)
    BY <2>1, <2>2 DEF SyncStd
  <2>3. CASE ~ SyncStd(k)
    BY <2>1, <2>3
  <2> QED
    BY <2>2, <2>3
<1>5. CASE SyncStd(k)
  <2>1. /\ Attaching(k) \o two \in Seq(StepName) /\ InOrder(host.os, Attaching(k) \o two)
        /\ Range(Attaching(k) \o two) = Range(Attaching(k)) \cup Range(two)
    BY <1>2, <1>3, AttachingInOrder, ConcatInOrder
  <2> QED
    BY <1>2, <1>4, <1>5, <2>1, AttachingInOrder
<1>6. CASE ~ SyncStd(k) /\ Raw(k)
  <2>1. /\ Attaching(k) \o one \in Seq(StepName) /\ InOrder(host.os, Attaching(k) \o one)
        /\ Range(Attaching(k) \o one) = Range(Attaching(k)) \cup Range(one)
    BY <1>1, <1>3, AttachingInOrder, ConcatInOrder
  <2> QED
    BY <1>1, <1>4, <1>6, <2>1, AttachingInOrder
<1>7. CASE ~ SyncStd(k) /\ ~ Raw(k)
  <2>1. /\ one \o Attaching(k) \in Seq(StepName) /\ InOrder(host.os, one \o Attaching(k))
        /\ Range(one \o Attaching(k)) = Range(one) \cup Range(Attaching(k))
    BY <1>1, <1>3, AttachingInOrder, ConcatInOrder
  <2> QED
    BY <1>1, <1>4, <1>7, <2>1, AttachingInOrder
<1> QED
  BY <1>5, <1>6, <1>7

Fits(k, q) ==
  /\ q \in Seq(StepName) /\ InOrder(host.os, q)
  /\ {"build", "resolve", "prepare", "attach"} \cup Due(k) \subseteq Range(q)
  /\ Range(q) \cap ({"elevate"} \cup Ending) = {}
  /\ Range(q) \cap {"mark", "close"} # {} => Windows
  /\ Range(q) \cap {"assign", "resume"} # {} => JobRoot(k)

(* The program of every backend, system and mode is in order, has every    *)
(* step that is due, and no step of another backend.                       *)
LEMMA ProgramFits ==
  ASSUME host.os \in {"linux", "macos", "windows"}, NEW k
  PROVE  Fits(k, Program(k)) /\ "runtime" \notin Range(Program(k))
<1> DEFINE last == <<"drop">>
           pl == Prelude(k) \o Locked
           pla == pl \o Adopting(k)
           plad == pla \o Delivery(k)
<1>1. last \in Seq(StepName) /\ Range(last) = {"drop"} /\ InOrder(host.os, last)
  BY ShortSequences DEF StepName
<1>2. /\ Delivery(k) \in Seq(StepName) /\ Range(Delivery(k)) \subseteq {"password"}
      /\ InOrder(host.os, Delivery(k))
  <2>1. CASE Delivery(k) = <<"password">>
    BY <2>1, ShortSequences DEF StepName
  <2>2. CASE Delivery(k) = <<>>
    BY <2>2, ShortSequences
  <2> QED
    BY <2>1, <2>2 DEF Delivery
<1>3. Program(k) = plad \o last
  BY DEF Program
<1> HIDE DEF last
<1>4. pl \in Seq(StepName) /\ InOrder(host.os, pl) /\ Range(pl) = Range(Prelude(k)) \cup Range(Locked)
  <2>1. \A s \in Range(Prelude(k)), t \in Range(Locked) :
          s # t /\ Earliest(host.os, s) <= Latest(host.os, t)
    BY PreludeInOrder, LockedInOrder DEF Earliest, Latest
  <2> QED
    BY <2>1, PreludeInOrder, LockedInOrder, ConcatInOrder
<1> HIDE DEF pl
<1>5. \A t \in {"build", "resolve", "prepare", "lock", "mark", "fence", "create", "close", "release",
              "unlock"} : Earliest(host.os, t) <= 8
  BY DEF Earliest
<1>6. \A s \in Range(pl) : Earliest(host.os, s) <= 8
  BY <1>4, <1>5, PreludeInOrder, LockedInOrder
<1>7. \A t \in Range(Adopting(k)) :
        /\ t \in {"assign", "resume", "attach", "identify", "adopt"}
        /\ Latest(host.os, t) >= 9 /\ Earliest(host.os, t) <= 11
  BY AdoptingInOrder DEF Earliest, Latest
<1>8. /\ pla \in Seq(StepName) /\ InOrder(host.os, pla)
      /\ Range(pla) = Range(pl) \cup Range(Adopting(k))
  <2>1. \A s \in Range(pl), t \in Range(Adopting(k)) :
          s # t /\ Earliest(host.os, s) <= Latest(host.os, t)
    <3>1. \A s \in Range(pl), t \in Range(Adopting(k)) : s # t
      BY <1>4, <1>7, PreludeInOrder, LockedInOrder
    <3>2. \A s \in Range(pl) : Earliest(host.os, s) \in Int
      BY DEF Earliest
    <3>3. \A t \in Range(Adopting(k)) : Latest(host.os, t) \in Int
      BY DEF Earliest, Latest
    <3> QED
      BY <1>6, <1>7, <3>1, <3>2, <3>3
  <2> QED
    BY <1>4, <2>1, AdoptingInOrder, ConcatInOrder
<1>9. \A s \in Range(pla) : Earliest(host.os, s) \in Int /\ Earliest(host.os, s) <= 11
                             /\ s # "password" /\ s # "drop"
  <2>1. \A s : Earliest(host.os, s) \in Int
    BY DEF Earliest
  <2>2. \A s \in Range(pl) : s # "password" /\ s # "drop"
    BY <1>4, PreludeInOrder, LockedInOrder
  <2>3. \A s \in Range(pl) : Earliest(host.os, s) <= 11
    BY <1>6, <2>1
  <2> QED
    BY <1>7, <1>8, <2>1, <2>2, <2>3
<1> HIDE DEF pla
<1>10. Latest(host.os, "password") = 12 /\ Latest(host.os, "drop") = 15 /\ Earliest(host.os, "password") = 12
  BY DEF Earliest, Latest
<1>11. /\ plad \in Seq(StepName) /\ InOrder(host.os, plad)
       /\ Range(plad) = Range(pla) \cup Range(Delivery(k))
  <2>1. \A s \in Range(pla), t \in Range(Delivery(k)) :
          s # t /\ Earliest(host.os, s) <= Latest(host.os, t)
    BY <1>2, <1>9, <1>10
  <2> QED
    BY <1>2, <1>8, <2>1, ConcatInOrder
<1> HIDE DEF plad
<1>12. /\ Program(k) \in Seq(StepName) /\ InOrder(host.os, Program(k))
       /\ Range(Program(k)) = Range(plad) \cup {"drop"}
  <2>1. \A s \in Range(plad), t \in Range(last) :
          s # t /\ Earliest(host.os, s) <= Latest(host.os, t)
    BY <1>1, <1>2, <1>9, <1>10, <1>11
  <2> QED
    BY <1>1, <1>3, <1>11, <2>1, ConcatInOrder
<1>13. /\ Range(Program(k)) = Range(Prelude(k)) \cup Range(Locked) \cup Range(Adopting(k))
                               \cup Range(Delivery(k)) \cup {"drop"}
  BY <1>4, <1>8, <1>11, <1>12
<1> DEFINE R == Range(Program(k))
<1>14. {"build", "resolve", "prepare", "attach"} \cup Due(k) \subseteq R
  <2>1. {"build", "resolve", "prepare", "attach"} \subseteq R
    BY <1>13, PreludeInOrder, LockedInOrder, AdoptingInOrder
  <2>2. {"lock", "create", "unlock", "drop"} \subseteq R
    BY <1>13, LockedInOrder
  <2>3. (Windows => "close" \in R) /\ (host.os = "macos" => "fence" \in R)
    BY <1>13, LockedInOrder
  <2>4. JobRoot(k) => "resume" \in R
    BY <1>13, AdoptingInOrder
  <2> QED
    BY <2>1, <2>2, <2>3, <2>4 DEF Due
<1>15. R \cap ({"runtime", "elevate"} \cup Ending) = {}
  <2> DEFINE E == {"runtime", "elevate", "kill", "wait", "reap"}
  <2>1. Range(Prelude(k)) \cap E = {} /\ Range(Delivery(k)) \cap E = {}
    BY <1>2, PreludeInOrder
  <2>2. Range(Locked) \cap E = {}
    BY LockedInOrder
  <2>3. Range(Adopting(k)) \cap E = {}
    BY <1>7
  <2>4. R \cap E = {}
    BY <1>13, <2>1, <2>2, <2>3
  <2> QED
    BY <2>4 DEF Ending
<1>16. R \cap {"mark", "close"} # {} => Windows
  <2>1. Range(Prelude(k)) \cap {"mark", "close"} = {} /\ Range(Delivery(k)) \cap {"mark", "close"} = {}
    BY <1>2, PreludeInOrder
  <2>2. Range(Adopting(k)) \cap {"mark", "close"} = {}
    BY <1>7
  <2>3. ~ Windows => Range(Locked) \cap {"mark", "close"} = {}
    BY LockedInOrder
  <2> QED
    BY <1>13, <2>1, <2>2, <2>3
<1>17. R \cap {"assign", "resume"} # {} => JobRoot(k)
  <2>1. /\ Range(Prelude(k)) \cap {"assign", "resume"} = {}
        /\ Range(Delivery(k)) \cap {"assign", "resume"} = {}
    BY <1>2, PreludeInOrder
  <2>2. Range(Locked) \cap {"assign", "resume"} = {}
    BY LockedInOrder
  <2>3. ~ JobRoot(k) => Range(Adopting(k)) \cap {"assign", "resume"} = {}
    BY AdoptingInOrder
  <2> QED
    BY <1>13, <2>1, <2>2, <2>3
<1> QED
  BY <1>12, <1>14, <1>15, <1>16, <1>17 DEF Fits

(* So has what a call starts on: its program, or the elevation that comes  *)
(* before one.                                                             *)
LEMMA StartInOrder ==
  ASSUME host.os \in {"linux", "macos", "windows"}, NEW k
  PROVE  /\ Start(k) \in Seq(StepName) /\ InOrder(host.os, Start(k)) /\ Start(k) # <<>>
         /\ ~ k.elevate => Fits(k, Start(k))
         /\ k.elevate => /\ Range(Start(k)) \subseteq {"runtime", "elevate", "drop"}
                         /\ {"elevate", "drop"} \subseteq Range(Start(k))
<1> DEFINE first == IF k.api = "async" THEN <<"runtime">> ELSE <<>>
           derived == <<"elevate", "drop">>
           rest == IF k.elevate THEN derived ELSE Program(k)
<1>1. Start(k) = first \o rest
  BY DEF Start
<1>2. first \in Seq(StepName) /\ Range(first) \subseteq {"runtime"} /\ InOrder(host.os, first)
  <2>1. CASE first = <<"runtime">>
    BY <2>1, ShortSequences DEF StepName
  <2>2. CASE first = <<>>
    BY <2>2, ShortSequences
  <2> HIDE DEF rest
  <2> QED
    BY <2>1, <2>2
<1>3. derived \in Seq(StepName) /\ Range(derived) = {"elevate", "drop"} /\ InOrder(host.os, derived)
  <2>1. "elevate" \in StepName /\ "drop" \in StepName /\ "elevate" # "drop"
    BY DEF StepName
  <2>2. Earliest(host.os, "elevate") <= Latest(host.os, "drop")
    BY DEF Earliest, Latest
  <2> QED
    BY <2>1, <2>2, PairInOrder
<1> HIDE DEF first, derived
<1>4. rest \in Seq(StepName) /\ InOrder(host.os, rest) /\ "runtime" \notin Range(rest)
  <2>1. CASE k.elevate
    BY <1>3, <2>1
  <2>2. CASE ~ k.elevate
    BY <2>2, ProgramFits DEF Fits
  <2> QED
    BY <2>1, <2>2
<1>5. /\ Start(k) \in Seq(StepName) /\ InOrder(host.os, Start(k))
      /\ Range(Start(k)) = Range(first) \cup Range(rest)
  <2>1. Earliest(host.os, "runtime") = 0
    BY DEF Earliest
  <2>2. \A t : Latest(host.os, t) \in Nat
    BY DEF Earliest, Latest
  <2>3. \A s \in Range(first), t \in Range(rest) : s # t /\ Earliest(host.os, s) <= Latest(host.os, t)
    BY <1>2, <1>4, <2>1, <2>2
  <2> HIDE DEF rest
  <2> QED
    BY <1>1, <1>2, <1>4, <2>3, ConcatInOrder
<1>6. CASE k.elevate
  <2>1. Range(rest) = {"elevate", "drop"}
    BY <1>3, <1>6
  <2>2. Range(Start(k)) # {}
    BY <1>5, <2>1
  <2>3. Start(k) # <<>>
    BY <2>2, ShortSequences
  <2> QED
    BY <1>2, <1>5, <1>6, <2>1, <2>3
<1>7. CASE ~ k.elevate
  <2>1. rest = Program(k)
    BY <1>7
  <2>2. Fits(k, Start(k))
    BY <1>2, <1>5, <2>1, ProgramFits DEF Fits, Ending
  <2>3. "drop" \in Range(Start(k))
    BY <2>2 DEF Fits, Due
  <2>4. Start(k) # <<>>
    BY <2>3, ShortSequences
  <2> QED
    BY <1>5, <1>7, <2>2, <2>4
<1> QED
  BY <1>6, <1>7

(* What a call still does after an error.                                  *)
Cleanup == {"close", "unlock", "kill", "wait", "reap", "drop"}

Stopped(q) == q \in {<<"drop">>, <<"wait", "drop">>, <<"kill", "wait", "drop">>,
                     <<"kill", "reap", "drop">>, <<"unlock", "drop">>, <<"close", "unlock", "drop">>}

(* The steps of each way an error ends.                                    *)
LEMMA StoppedRanges ==
  /\ Range(<<"drop">>) = {"drop"} /\ Range(<<"wait", "drop">>) = {"wait", "drop"}
  /\ Range(<<"unlock", "drop">>) = {"unlock", "drop"}
  /\ Range(<<"kill", "wait", "drop">>) = {"kill", "wait", "drop"}
  /\ Range(<<"kill", "reap", "drop">>) = {"kill", "reap", "drop"}
  /\ Range(<<"close", "unlock", "drop">>) = {"close", "unlock", "drop"}
<1>1. /\ \A i \in 1..1 : i = 1
      /\ \A i \in 1..2 : i = 1 \/ i = 2
      /\ \A i \in 1..3 : i = 1 \/ i = 2 \/ i = 3
  OBVIOUS
<1>2. /\ Range(<<"drop">>) = {"drop"} /\ Range(<<"wait", "drop">>) = {"wait", "drop"}
      /\ Range(<<"unlock", "drop">>) = {"unlock", "drop"}
  BY <1>1 DEF Range
<1>3. /\ Range(<<"kill", "wait", "drop">>) = {"kill", "wait", "drop"}
      /\ Range(<<"kill", "reap", "drop">>) = {"kill", "reap", "drop"}
  BY <1>1 DEF Range
<1>4. Range(<<"close", "unlock", "drop">>) = {"close", "unlock", "drop"}
  BY <1>1 DEF Range
<1> QED
  BY <1>2, <1>3, <1>4

(* Each of them is in order, is cleanup alone, ends in the drop of what    *)
(* the call owns, unlocks after closing, and waits for what it has killed. *)
LEMMA StoppedInOrder ==
  ASSUME NEW os, NEW q, Stopped(q)
  PROVE  /\ q \in Seq(StepName) /\ InOrder(os, q)
         /\ Range(q) \subseteq Cleanup /\ "drop" \in Range(q)
         /\ "close" \in Range(q) => "unlock" \in Range(q)
         /\ "kill" \in Range(q) => Range(q) \cap {"wait", "reap"} # {}
<1> DEFINE a == <<"drop">>
           b == <<"wait", "drop">>
           c == <<"kill", "wait", "drop">>
           d == <<"kill", "reap", "drop">>
           e == <<"unlock", "drop">>
           f == <<"close", "unlock", "drop">>
<1>1. /\ a \in Seq(StepName) /\ Len(a) = 1 /\ b \in Seq(StepName) /\ Len(b) = 2
      /\ c \in Seq(StepName) /\ Len(c) = 3 /\ d \in Seq(StepName) /\ Len(d) = 3
      /\ e \in Seq(StepName) /\ Len(e) = 2 /\ f \in Seq(StepName) /\ Len(f) = 3
  BY DEF StepName
<1>2. /\ \A i \in 1..1 : i = 1
      /\ \A i \in 1..2 : i = 1 \/ i = 2
      /\ \A i \in 1..3 : i = 1 \/ i = 2 \/ i = 3
  OBVIOUS
<1>3. InOrder(os, a) /\ InOrder(os, b) /\ InOrder(os, e)
  BY <1>1, <1>2 DEF InOrder, Earliest, Latest
<1>4. InOrder(os, c)
  BY <1>1, <1>2 DEF InOrder, Earliest, Latest
<1>5. InOrder(os, d) /\ InOrder(os, f)
  BY <1>1, <1>2 DEF InOrder, Earliest, Latest
<1>6. Range(a) = {"drop"} /\ Range(b) = {"wait", "drop"} /\ Range(e) = {"unlock", "drop"}
  BY <1>1, <1>2 DEF Range
<1>7. /\ Range(c) = {"kill", "wait", "drop"} /\ Range(d) = {"kill", "reap", "drop"}
      /\ Range(f) = {"close", "unlock", "drop"}
  BY <1>1, <1>2 DEF Range
<1>8. q = a \/ q = b \/ q = c \/ q = d \/ q = e \/ q = f
  BY DEF Stopped
<1> HIDE DEF a, b, c, d, e, f
<1>9. q \in Seq(StepName) /\ InOrder(os, q)
  BY <1>1, <1>3, <1>4, <1>5, <1>8
<1>10. /\ Range(q) \subseteq Cleanup /\ "drop" \in Range(q)
       /\ "close" \in Range(q) => "unlock" \in Range(q)
       /\ "kill" \in Range(q) => Range(q) \cap {"wait", "reap"} # {}
  BY <1>6, <1>7, <1>8 DEF Cleanup
<1> QED
  BY <1>9, <1>10

-----------------------------------------------------------------------------
(* The inductive invariant, call by call.  What is left of a call's steps  *)
(* tells where it stands: it is in order, always ends in the drop, and     *)
(* has all that is due after what is already done.                         *)
ScheduleOK(c) ==
  /\ todo[c] \in Seq(StepName) /\ InOrder(host.os, todo[c])
  /\ Left(c) # {} => "drop" \in Left(c)
  /\ "elevate" \in Left(c) => Left(c) \subseteq {"runtime", "elevate", "drop"}

(* A call in which nothing has failed still has every later step to take.  *)
PendingOK(c) ==
  outcome[c].result = "pending" =>
    /\ Left(c) \cap Ending = {}
    /\ "elevate" \notin Left(c) =>
         \A s \in Left(c), t \in Due(cmd[c]) :
           Latest(host.os, s) < Earliest(host.os, t) => t \in Left(c)

(* One that has failed, or is over, has cleanup alone left.                *)
FailingOK(c) ==
  outcome[c].result # "pending" =>
    /\ Left(c) \subseteq Cleanup
    /\ "close" \in Left(c) => "unlock" \in Left(c)
    /\ "kill" \in Left(c) => Left(c) \cap {"wait", "reap"} # {}
    /\ outcome[c].result = "ok" => Left(c) = {}

(* Steps that only some backends have.                                     *)
BackendOK(c) ==
  /\ Left(c) \cap {"mark", "close"} # {} => Windows
  /\ Left(c) \cap {"assign", "resume"} # {} => JobRoot(cmd[c])

(* The command is the request or its rewrite for an elevation.             *)
RequestOK(c) ==
  /\ DOMAIN cmd[c] = DOMAIN setting.cmd[c]
  /\ cmd[c].api \in {"sync", "async"} /\ cmd[c].mode \in {"none", "strongest", "session", "walk"}
  /\ ~ Windows => cmd[c].flags \subseteq {"no_window"}
  /\ ~ cmd[c].suppressed => cmd[c].wrapper \in {"none", "osascript"}
  /\ cmd[c].wrapper \in {"run0", "osascript"} => cmd[c].mode = "none"
  /\ cmd[c].fds = DerivedFds(setting.cmd[c], cmd[c].wrapper)
  /\ "elevate" \in Left(c) => cmd[c] = setting.cmd[c] /\ setting.cmd[c].elevate
                                /\ outcome[c].result = "pending"

(* Neither an elevation nor what comes before the creation starts a        *)
(* process of the call.                                                    *)
UntouchedOK(c) ==
  /\ "elevate" \in Left(c) =>
       own[c] = [ends |-> "none", marker |-> "none", leaf |-> "none", cleared |-> FALSE]
  /\ Left(c) \cap {"create", "elevate"} # {} =>
       child[c].root = "none" /\ child[c].kid = "none" /\ child[c].rootIn = {} /\ child[c].kidIn = {}

(* An inheritable end and a marker not yet fenced exist only inside the    *)
(* lock.                                                                   *)
EndsOK(c) ==
  /\ own[c].ends = "marked" => Windows /\ "close" \in Left(c) /\ "lock" \notin Left(c)
  /\ own[c].marker = "bare" => /\ host.os = "macos" /\ "fence" \in Left(c) /\ "unlock" \in Left(c)
                               /\ "lock" \notin Left(c)

(* What was prepared is what the mode asks for.                            *)
PreparedOK(c) ==
  /\ own[c].leaf = "made" => host.os = "linux" /\ IsRoot(cmd[c]) /\ cmd[c].mode = "strongest"
  /\ own[c].marker # "none" => marker_wanted(cmd[c])
  /\ FlagsRefused(cmd[c]) => ~ own[c].cleared
  /\ outcome[c].result = "pending" /\ Left(c) \cap {"elevate", "prepare"} = {} => ~ FlagsRefused(cmd[c])

(* The ends that were resolved, once they are.                             *)
WiringOK(c) ==
  /\ own[c].ends # "none" =>
       /\ wiring[c].ok = (Possible(cmd[c].fds) /\ (Raw(cmd[c]) => Encodable(cmd[c].fds)))
       /\ wiring[c].ok => Faithful(cmd[c].fds, wiring[c])
  /\ outcome[c].result \in {"pending", "ok"} /\ Left(c) \cap {"elevate", "resolve"} = {} =>
       \/ ByConsent(c) /\ Left(c) \subseteq {"drop"}
       \/ own[c].ends # "none" /\ wiring[c].ok
  /\ outcome[c].result # "pending" /\ "close" \in Left(c) => own[c].ends # "none"

(* A suspended root has its resume ahead.                                  *)
RootOK(c) ==
  /\ "resume" \in Left(c) /\ "create" \notin Left(c) => child[c].root = "suspended"
  /\ child[c].root = "suspended" /\ outcome[c].result \in {"pending", "ok"} => "resume" \in Left(c)
  /\ child[c].root \in {"none", "suspended"} => child[c].kid = "none"

(* A descendant is where its root is.                                      *)
KidOK(c) ==
  /\ child[c].kid # "none" /\ cmd[c].wrapper \notin {"run0", "osascript"} =>
       child[c].kidIn = child[c].rootIn
  /\ own[c].leaf # "made" =>
       /\ child[c].kid = "live" => "leaf" \notin child[c].kidIn
       /\ child[c].root \in {"suspended", "live"} => "leaf" \notin child[c].rootIn

(* The groups a forked child enters by itself.                             *)
Joined(c) ==
  /\ setting.nested /\ cmd[c].mode # "none" => "ancestor" \in child[c].rootIn
  /\ Posix(cmd[c], "strongest", "group") \subseteq child[c].rootIn
  /\ Posix(cmd[c], "session", "session") \subseteq child[c].rootIn
  /\ own[c].marker # "none" => "marker" \in child[c].rootIn

(* What the report says of them.                                           *)
Reported(c) ==
  LET r == outcome[c].report
  IN /\ (r = "None") <=> (cmd[c].mode = "none")
     /\ r \in DOMAIN Claimed => Claimed[r] \in child[c].rootIn

(* From the creation on the root is in its groups, from the attachment on  *)
(* they are what is reported.                                              *)
GroupsOK(c) ==
  /\ outcome[c].result = "pending" /\ Left(c) \cap {"elevate", "create"} = {} => Joined(c)
  /\ outcome[c].result \in {"pending", "ok"} /\ Left(c) \cap {"elevate", "attach"} = {} => Reported(c)

(* A call that has failed has its child still to end, or has ended it; one *)
(* that is over has closed what it owned.                                  *)
EndedOK(c) ==
  /\ outcome[c].result \notin {"pending", "ok"} /\ ~ outcome[c].excused =>
       \/ child[c].root \in {"none", "reaped"}
       \/ Windows /\ child[c].root \in {"doomed", "zombie"}
       \/ Left(c) \cap Ending # {}
  /\ outcome[c].result \notin {"pending", "ok"} /\ Left(c) = {} =>
       /\ child[c].kid = "live" => "job" \notin child[c].kidIn
       /\ own[c].ends \in {"none", "closed"} /\ own[c].marker \in {"none", "closed"}
       /\ own[c].leaf # "made"
  /\ outcome[c].result = "pending" => Left(c) # {}

(* A leaf that is left was forgotten by its maker, or holds what its drop   *)
(* killed, unless the call gave the child up.                              *)
Leafless == {"elevate", "prepare", "create", "attach"}

LeafOK(c) ==
  /\ own[c].leaf = "forgotten" => Can("leaf")
  /\ own[c].leaf = "busy" => /\ KilledInLeaf(c) \/ (Left(c) = {} /\ outcome[c].excused)
                             /\ Left(c) \cap Leafless = {}

CallOK(c) ==
  /\ ScheduleOK(c) /\ PendingOK(c) /\ FailingOK(c) /\ BackendOK(c) /\ RequestOK(c)
  /\ UntouchedOK(c) /\ EndsOK(c) /\ PreparedOK(c) /\ WiringOK(c) /\ RootOK(c) /\ KidOK(c)
  /\ GroupsOK(c) /\ EndedOK(c) /\ LeafOK(c)

Inv == /\ setting \in Settings
       /\ TypeOK
       /\ \A c \in Calls : child[c].holds = {}
       /\ \A c \in Calls : CallOK(c)

-----------------------------------------------------------------------------
(* A step of one call leaves the others where they were.                   *)
Same(d) == /\ setting' = setting
           /\ cmd'[d] = cmd[d] /\ todo'[d] = todo[d] /\ own'[d] = own[d]
           /\ child'[d] = child[d] /\ wiring'[d] = wiring[d] /\ outcome'[d] = outcome[d]

(* The helpers of a call that a step of another leaves alone.              *)
LEMMA SameLeft ==
  ASSUME NEW d, Same(d)
  PROVE  /\ Left(d)' = Left(d) /\ host' = host /\ (Windows' <=> Windows) /\ Calls' = Calls
         /\ (JobRoot(cmd[d])' <=> JobRoot(cmd[d])) /\ (IsRoot(cmd[d])' <=> IsRoot(cmd[d]))
BY DEF Same, Left, Range, host, Windows, Calls, JobRoot, IsRoot

(* The parts of the invariant about its steps stay.                        *)
LEMMA SameCourse ==
  ASSUME NEW d, Same(d)
  PROVE  /\ ScheduleOK(d) => ScheduleOK(d)'
         /\ PendingOK(d) => PendingOK(d)'
         /\ FailingOK(d) => FailingOK(d)'
         /\ BackendOK(d) => BackendOK(d)'
<1>1. ScheduleOK(d) => ScheduleOK(d)'
  BY SameLeft DEF Same, ScheduleOK
<1>2. PendingOK(d) => PendingOK(d)'
  BY SameLeft DEF Same, PendingOK, Due
<1>3. FailingOK(d) => FailingOK(d)'
  BY SameLeft DEF Same, FailingOK
<1>4. BackendOK(d) => BackendOK(d)'
  BY SameLeft DEF Same, BackendOK
<1> QED
  BY <1>1, <1>2, <1>3, <1>4

(* So do those about its request, its ends, its child and its groups.      *)
LEMMA SameFacts ==
  ASSUME NEW d, Same(d)
  PROVE  /\ RequestOK(d) => RequestOK(d)'
         /\ UntouchedOK(d) => UntouchedOK(d)'
         /\ EndsOK(d) => EndsOK(d)'
         /\ PreparedOK(d) => PreparedOK(d)'
         /\ WiringOK(d) => WiringOK(d)'
         /\ RootOK(d) => RootOK(d)'
         /\ KidOK(d) => KidOK(d)'
         /\ GroupsOK(d) => GroupsOK(d)'
         /\ EndedOK(d) => EndedOK(d)'
         /\ LeafOK(d) => LeafOK(d)'
<1>1. RequestOK(d) => RequestOK(d)'
  BY SameLeft DEF Same, RequestOK
<1>2. UntouchedOK(d) => UntouchedOK(d)'
  BY SameLeft DEF Same, UntouchedOK
<1>3. EndsOK(d) => EndsOK(d)'
  BY SameLeft DEF Same, EndsOK
<1>4. PreparedOK(d) => PreparedOK(d)'
  BY SameLeft DEF Same, PreparedOK, FlagsRefused, marker_wanted
<1>5. WiringOK(d) => WiringOK(d)'
  BY SameLeft DEF Same, WiringOK, Raw, ByConsent
<1>6. RootOK(d) => RootOK(d)'
  BY SameLeft DEF Same, RootOK
<1>7. KidOK(d) => KidOK(d)'
  BY SameLeft DEF Same, KidOK
<1>8. GroupsOK(d) => GroupsOK(d)'
  BY SameLeft DEF Same, GroupsOK, Joined, Reported, Posix, Claimed
<1>9. EndedOK(d) => EndedOK(d)'
  BY SameLeft DEF Same, EndedOK
<1>10. LeafOK(d) => LeafOK(d)'
  BY SameLeft DEF Same, LeafOK, KilledInLeaf, Can
<1> QED
  BY <1>1, <1>2, <1>3, <1>4, <1>5, <1>6, <1>7, <1>8, <1>9, <1>10

(* So the invariant of a call survives every step of the others.           *)
LEMMA SameKeeps ==
  ASSUME NEW d, Same(d), CallOK(d)
  PROVE  CallOK(d)'
BY SameCourse, SameFacts DEF CallOK

Apart(c) == /\ setting' = setting
            /\ \A d \in Calls \ {c} : Same(d)

(* Every action of one call leaves the variables of the others alone, but  *)
(* for the descriptors that a created child inherits.                      *)
LEMMA StepApart ==
  ASSUME TypeOK, NEW c \in Calls, Step(c)
  PROVE  Apart(c)
<1>1. CASE Runtime(c)
  BY <1>1 DEF Runtime, Advance, Fail, Goto, HostOnly, TypeOK, Same, Apart
<1>2. CASE RefuseElevation(c)
  BY <1>2 DEF RefuseElevation, Fail, Goto, HostOnly, TypeOK, Same, Apart
<1>3. CASE Rewrite(c)
  BY <1>3 DEF Rewrite, Goto, HostOnly, TypeOK, Same, Apart
<1>4. CASE LaunchRunas(c)
  BY <1>4 DEF LaunchRunas, Fail, Goto, Reports, Started, HostOnly, TypeOK, Same, Apart
<1>5. CASE Build(c)
  BY <1>5 DEF Build, Advance, Fail, Goto, HostOnly, TypeOK, Same, Apart
<1>6. CASE ResolveEnds(c)
  BY <1>6 DEF ResolveEnds, Advance, Fail, Goto, HostOnly, TypeOK, Same, Apart
<1>7. CASE PrepareRefused(c)
  BY <1>7 DEF PrepareRefused, Fail, Goto, RefusedOwn, HostOnly, TypeOK, Same, Apart
<1>8. CASE Prepare(c)
  BY <1>8 DEF Prepare, Advance, Goto, HostOnly, TypeOK, Same, Apart
<1>9. CASE Fence(c)
  BY <1>9 DEF Fence, Advance, Goto, HostOnly, TypeOK, Same, Apart
<1>10. CASE Lock(c)
  BY <1>10 DEF Lock, Advance, Goto, HostOnly, TypeOK, Same, Apart
<1>11. CASE Mark(c)
  BY <1>11 DEF Mark, Advance, Fail, Goto, HostOnly, TypeOK, Same, Apart
<1>12. CASE CreateFails(c)
  BY <1>12 DEF CreateFails, Fail, Goto, HostOnly, TypeOK, Same, Apart
<1>13. CASE Create(c)
  BY <1>13 DEF Create, Advance, Goto, HostOnly, TypeOK, Same, Apart
<1>14. CASE Close(c)
  BY <1>14 DEF Close, Advance, Goto, HostOnly, TypeOK, Same, Apart
<1>15. CASE Release(c)
  BY <1>15 DEF Release, Advance, Goto, HostOnly, TypeOK, Same, Apart
<1>16. CASE Unlock(c)
  BY <1>16 DEF Unlock, Advance, Goto, HostOnly, TypeOK, Same, Apart
<1>17. CASE Attach(c)
  BY <1>17 DEF Attach, Reports, Fail, Goto, HostOnly, TypeOK, Same, Apart
<1>18. CASE AttachUnlisted(c)
  BY <1>18 DEF AttachUnlisted, Reports, Goto, DropLeaf, HostOnly, TypeOK, Same, Apart
<1>19. CASE Assign(c)
  BY <1>19 DEF Assign, Advance, Goto, HostOnly, TypeOK, Same, Apart
<1>20. CASE Resume(c)
  BY <1>20 DEF Resume, Advance, Fail, Goto, Started, HostOnly, TypeOK, Same, Apart
<1>21. CASE Identify(c)
  BY <1>21 DEF Identify, Advance, Fail, Goto, HostOnly, TypeOK, Same, Apart
<1>22. CASE Adopt(c)
  BY <1>22 DEF Adopt, Advance, Goto, Collect, HostOnly, TypeOK, Same, Apart
<1>23. CASE Password(c)
  BY <1>23 DEF Password, Advance, Fail, Goto, Doom, Collect, HostOnly, TypeOK, Same, Apart
<1>24. CASE Kill(c)
  BY <1>24 DEF Kill, Advance, Goto, Doom, HostOnly, TypeOK, Same, Apart
<1>25. CASE KillRefused(c)
  BY <1>25 DEF KillRefused, Goto, HostOnly, TypeOK, Same, Apart
<1>26. CASE Wait(c)
  BY <1>26 DEF Wait, Advance, Goto, Collect, HostOnly, TypeOK, Same, Apart
<1>27. CASE Return(c)
  BY <1>27 DEF Return, Goto, HostOnly, TypeOK, Same, Apart
<1> QED
  BY <1>1, <1>2, <1>3, <1>4, <1>5, <1>6, <1>7, <1>8, <1>9, <1>10, <1>11, <1>12, <1>13, <1>14,
     <1>15, <1>16, <1>17, <1>18, <1>19, <1>20, <1>21, <1>22, <1>23, <1>24, <1>25, <1>26, <1>27 DEF Step

(* The step at hand is the first that is left.                             *)
LEMMA AtFirst ==
  ASSUME NEW c, ScheduleOK(c), NEW s, At(c, s)
  PROVE  /\ s \in Left(c) /\ todo[c] # <<>> /\ Range(Tail(todo[c])) = Left(c) \ {s}
         /\ Tail(todo[c]) \in Seq(StepName) /\ InOrder(host.os, Tail(todo[c]))
         /\ \A t \in Left(c) \ {s} : Earliest(host.os, s) <= Latest(host.os, t)
BY TailInOrder DEF ScheduleOK, At, Left

Course(c) == ScheduleOK(c) /\ PendingOK(c) /\ FailingOK(c) /\ BackendOK(c)

(* Before cleanup begins a call is pending, and what is due after the step *)
(* at hand is still ahead.                                                 *)
LEMMA HeadPending ==
  ASSUME NEW c, Course(c), NEW s, At(c, s), s \notin Cleanup
  PROVE  /\ outcome[c].result = "pending"
         /\ s # "runtime" /\ s # "elevate" =>
              /\ "elevate" \notin Left(c)
              /\ \A t \in Due(cmd[c]) :
                   Latest(host.os, s) < Earliest(host.os, t) => t \in Left(c) \ {s}
<1>1. s \in Left(c) /\ \A t \in Left(c) \ {s} : Earliest(host.os, s) <= Latest(host.os, t)
  BY AtFirst DEF Course
<1>2. outcome[c].result = "pending"
  BY <1>1 DEF Course, FailingOK
<1>3. ASSUME s # "runtime", s # "elevate"
      PROVE  "elevate" \notin Left(c)
  BY <1>1, <1>3 DEF Course, ScheduleOK, Cleanup
<1>4. ASSUME s # "runtime", s # "elevate", NEW t \in Due(cmd[c]),
             Latest(host.os, s) < Earliest(host.os, t)
      PROVE  t \in Left(c) \ {s}
  <2>1. t \in Left(c)
    BY <1>1, <1>2, <1>3, <1>4 DEF Course, PendingOK
  <2>2. /\ Latest(host.os, s) \in Nat /\ Earliest(host.os, s) \in Nat
        /\ Earliest(host.os, s) <= Latest(host.os, s)
    BY DEF Earliest, Latest
  <2>3. t # s
    BY <1>4, <2>2
  <2> QED
    BY <2>1, <2>3
<1> QED
  BY <1>2, <1>3, <1>4

(* Building the command, resolving its ends and preparing its containment  *)
(* all come before the lock.                                               *)
LEMMA HeadPrelude ==
  ASSUME NEW c, Course(c), NEW s, At(c, s),
         s \in {"build", "resolve"} \/ (s = "prepare" /\ host.os # "macos")
  PROVE  /\ outcome[c].result = "pending" /\ "elevate" \notin Left(c)
         /\ {"lock", "create", "unlock", "drop"} \subseteq Left(c) \ {s}
BY HeadPending DEF Cleanup, Due, Earliest, Latest

(* The lock is taken before an end is marked inheritable or a marker is    *)
(* fenced, and is given back after the creation.                           *)
LEMMA HeadLocked ==
  ASSUME NEW c, Course(c), NEW s, At(c, s),
         s \in {"lock", "mark", "fence"} \/ (s = "prepare" /\ host.os = "macos")
  PROVE  /\ outcome[c].result = "pending" /\ "elevate" \notin Left(c)
         /\ {"create", "unlock", "drop"} \subseteq Left(c) \ {s} /\ Left(c) \cap {"build", "resolve"} = {}
         /\ s # "lock" => "lock" \notin Left(c)
         /\ s = "mark" => Windows
         /\ Windows => "close" \in Left(c)
         /\ host.os = "macos" => (s # "fence" => "fence" \in Left(c))
         /\ host.os # "macos" => "prepare" \notin Left(c)
         /\ s = "fence" => "prepare" \notin Left(c)
<1>1. s \in Left(c) /\ \A t \in Left(c) \ {s} : Earliest(host.os, s) <= Latest(host.os, t)
  BY AtFirst DEF Course
<1>2. s \notin Cleanup /\ s # "runtime" /\ s # "elevate"
  BY DEF Cleanup
<1>3. outcome[c].result = "pending" /\ "elevate" \notin Left(c)
  BY <1>2, HeadPending
<1>4. \A t \in Due(cmd[c]) : Latest(host.os, s) < Earliest(host.os, t) => t \in Left(c) \ {s}
  BY <1>2, HeadPending
<1>5. {"create", "unlock", "drop"} \subseteq Left(c) \ {s}
  BY <1>4 DEF Due, Earliest, Latest
<1>6. Windows => "close" \in Left(c)
  BY <1>4 DEF Due, Earliest, Latest
<1>7. host.os = "macos" => (s # "fence" => "fence" \in Left(c))
  BY <1>4 DEF Due, Earliest, Latest
<1>8. Left(c) \cap {"build", "resolve"} = {}
  BY <1>1 DEF Earliest, Latest
<1>9. s # "lock" => "lock" \notin Left(c)
  BY <1>1 DEF Earliest, Latest
<1>10. s = "mark" => Windows
  BY <1>1 DEF Course, BackendOK
<1>11. (host.os # "macos" => "prepare" \notin Left(c)) /\ (s = "fence" => "prepare" \notin Left(c))
  BY <1>1 DEF Earliest, Latest
<1> QED
  BY <1>3, <1>5, <1>6, <1>7, <1>8, <1>9, <1>10, <1>11

(* When the process is created all that is prepared is prepared, and what  *)
(* is marked is still to be closed.                                        *)
LEMMA HeadCreate ==
  ASSUME NEW c, Course(c), At(c, "create")
  PROVE  /\ outcome[c].result = "pending" /\ "create" \in Left(c)
         /\ {"unlock", "drop"} \subseteq Left(c)
         /\ Left(c) \cap {"elevate", "build", "resolve", "prepare", "lock", "mark", "fence"} = {}
         /\ Windows => "close" \in Left(c)
         /\ JobRoot(cmd[c]) => "resume" \in Left(c)
<1>1. /\ "create" \in Left(c)
      /\ \A t \in Left(c) \ {"create"} : Earliest(host.os, "create") <= Latest(host.os, t)
  BY AtFirst DEF Course
<1>2. /\ outcome[c].result = "pending" /\ "elevate" \notin Left(c)
      /\ \A t \in Due(cmd[c]) : Latest(host.os, "create") < Earliest(host.os, t) => t \in Left(c)
  BY HeadPending DEF Cleanup
<1>3. {"unlock", "drop"} \subseteq Left(c)
  BY <1>2 DEF Due, Earliest, Latest
<1>4. (Windows => "close" \in Left(c)) /\ (JobRoot(cmd[c]) => "resume" \in Left(c))
  BY <1>2 DEF Due, Earliest, Latest
<1>5. Left(c) \cap {"build", "resolve", "prepare", "lock", "mark", "fence"} = {}
  BY <1>1 DEF Earliest, Latest
<1> QED
  BY <1>1, <1>2, <1>3, <1>4, <1>5

(* Closing and unlocking come when nothing is left to create.              *)
LEMMA HeadReleasing ==
  ASSUME NEW c, Course(c), NEW s, At(c, s), s \in {"close", "release", "unlock"}
  PROVE  /\ s \in Left(c) /\ "drop" \in Left(c)
         /\ Left(c) \cap {"elevate", "build", "resolve", "prepare", "lock", "mark", "fence", "create"} = {}
         /\ s \in {"close", "release"} => "unlock" \in Left(c)
         /\ s = "unlock" => "close" \notin Left(c)
<1>1. s \in Left(c) /\ \A t \in Left(c) \ {s} : Earliest(host.os, s) <= Latest(host.os, t)
  BY AtFirst DEF Course
<1>2. "drop" \in Left(c) /\ "elevate" \notin Left(c)
  BY <1>1 DEF Course, ScheduleOK
<1>3. Left(c) \cap {"build", "resolve", "prepare", "lock", "mark", "fence", "create"} = {}
  BY <1>1 DEF Earliest, Latest
<1>4. s = "unlock" => "close" \notin Left(c)
  BY <1>1 DEF Earliest, Latest
<1>5. ASSUME s \in {"close", "release"} PROVE "unlock" \in Left(c)
  <2>1. CASE outcome[c].result = "pending"
    BY <1>1, <1>2, <1>5, <2>1 DEF Course, PendingOK, Due, Earliest, Latest
  <2>2. CASE outcome[c].result # "pending"
    BY <1>1, <1>5, <2>2 DEF Course, FailingOK, Cleanup
  <2> QED
    BY <2>1, <2>2
<1> QED
  BY <1>1, <1>2, <1>3, <1>4, <1>5

(* What is done to a started child comes after the unlock; a job is        *)
(* assigned before the resume, and the report comes after both.            *)
LEMMA HeadStarted ==
  ASSUME NEW c, Course(c), NEW s, At(c, s),
         s \in {"assign", "resume", "attach", "identify", "adopt", "password"}
  PROVE  /\ outcome[c].result = "pending" /\ s \in Left(c) /\ "drop" \in Left(c)
         /\ Left(c) \cap {"elevate", "build", "resolve", "prepare", "lock", "mark", "fence", "create",
                         "close", "unlock"} = {}
         /\ s = "assign" => "resume" \in Left(c)
         /\ s \in {"attach", "adopt", "password"} => Left(c) \cap {"assign", "resume"} = {}
         /\ s = "password" => "attach" \notin Left(c)
<1>1. s \in Left(c) /\ \A t \in Left(c) \ {s} : Earliest(host.os, s) <= Latest(host.os, t)
  BY AtFirst DEF Course
<1>2. "drop" \in Left(c) /\ "elevate" \notin Left(c) /\ outcome[c].result = "pending"
  BY <1>1 DEF Course, ScheduleOK, FailingOK, Cleanup
<1>3. Left(c) \cap {"build", "resolve", "prepare", "lock", "mark", "fence", "create", "close", "unlock"} = {}
  BY <1>1 DEF Earliest, Latest
<1>4. ASSUME s = "assign" PROVE "resume" \in Left(c)
  BY <1>1, <1>2, <1>4 DEF Course, BackendOK, PendingOK, Due, Earliest, Latest
<1>5. s \in {"attach", "adopt", "password"} => Left(c) \cap {"assign", "resume"} = {}
  BY <1>1 DEF Earliest, Latest
<1>6. s = "password" => "attach" \notin Left(c)
  BY <1>1 DEF Earliest, Latest
<1> QED
  BY <1>1, <1>2, <1>3, <1>4, <1>5, <1>6

(* A call that ends its child does nothing else any more.                  *)
LEMMA HeadEnding ==
  ASSUME NEW c, Course(c), NEW s, At(c, s), s \in Ending \cup {"drop"}
  PROVE  /\ s \in Left(c) /\ "drop" \in Left(c) /\ Left(c) \subseteq Ending \cup {"drop"}
         /\ s # "drop" => outcome[c].result # "pending"
         /\ s = "kill" => Left(c) \cap {"wait", "reap"} # {}
         /\ s \in {"wait", "reap"} => "kill" \notin Left(c)
         /\ s = "drop" => Left(c) = {"drop"}
<1>1. s \in Left(c) /\ \A t \in Left(c) \ {s} : Earliest(host.os, s) <= Latest(host.os, t)
  BY AtFirst DEF Course
<1>2. Left(c) \subseteq StepName /\ "drop" \in Left(c)
  BY <1>1, RangeOfSequence DEF Course, ScheduleOK, Left
<1>3. \A t \in StepName : Earliest(host.os, s) <= Latest(host.os, t) => t \in Ending \cup {"drop"}
  BY DEF StepName, Earliest, Latest, Ending
<1>4. s \in {"wait", "reap"} => "kill" \notin Left(c)
  BY <1>1 DEF Earliest, Latest
<1>5. \A t \in StepName : Earliest(host.os, "drop") <= Latest(host.os, t) => t = "drop"
  BY DEF StepName, Earliest, Latest
<1>6. s # "drop" => outcome[c].result # "pending"
  BY <1>1 DEF Course, PendingOK, Ending
<1>7. s = "kill" => Left(c) \cap {"wait", "reap"} # {}
  BY <1>1, <1>6 DEF Course, FailingOK
<1> QED
  BY <1>1, <1>2, <1>3, <1>4, <1>5, <1>6, <1>7

(* The runtime check and the elevation come first of all.                  *)
LEMMA HeadOpening ==
  ASSUME NEW c, Course(c), NEW s, At(c, s), s \in {"runtime", "elevate"}
  PROVE  /\ outcome[c].result = "pending" /\ s \in Left(c) /\ "drop" \in Left(c)
         /\ s = "elevate" => Left(c) = {"elevate", "drop"}
<1>1. s \in Left(c) /\ \A t \in Left(c) \ {s} : Earliest(host.os, s) <= Latest(host.os, t)
  BY AtFirst DEF Course
<1>2. s = "elevate" => "runtime" \notin Left(c)
  BY <1>1 DEF Earliest, Latest
<1> QED
  BY <1>1, <1>2 DEF Course, ScheduleOK, FailingOK, Cleanup

-----------------------------------------------------------------------------
(* Passing a step takes it off the program.                                *)
LEMMA Passing ==
  ASSUME TypeOK, NEW c \in Calls, ScheduleOK(c), NEW s, At(c, s),
         todo' = [todo EXCEPT ![c] = Tail(todo[c])]
  PROVE  Left(c)' = Left(c) \ {s} /\ todo'[c] = Tail(todo[c])
<1>1. todo'[c] = Tail(todo[c])
  BY DEF TypeOK
<1>2. Left(c)' = Range(Tail(todo[c]))
  BY <1>1 DEF Left
<1>3. Range(Tail(todo[c])) = Left(c) \ {s}
  BY AtFirst
<1> QED
  BY <1>1, <1>2, <1>3

(* Leaving the program for another one.                                    *)
LEMMA Going ==
  ASSUME TypeOK, NEW c \in Calls, NEW q, Goto(c, q)
  PROVE  todo'[c] = q /\ Left(c)' = Range(q)
<1>1. todo'[c] = q
  BY DEF TypeOK, Goto
<1> QED
  BY <1>1 DEF Left, Range

(* A step that passes keeps the course of the call: nothing comes back,    *)
(* and nothing that is due is lost.                                        *)
LEMMA PassingCourse ==
  ASSUME TypeOK, NEW c \in Calls, Course(c), NEW s, s \notin {"elevate", "drop", "kill"}, At(c, s),
         setting' = setting, cmd'[c] = cmd[c], todo' = [todo EXCEPT ![c] = Tail(todo[c])],
         outcome'[c].result = outcome[c].result
  PROVE  Course(c)'
<1>1. Left(c)' = Left(c) \ {s} /\ todo'[c] = Tail(todo[c])
  BY Passing DEF Course
<1>2. /\ s \in Left(c) /\ Tail(todo[c]) \in Seq(StepName) /\ InOrder(host.os, Tail(todo[c]))
      /\ \A t \in Left(c) \ {s} : Earliest(host.os, s) <= Latest(host.os, t)
  BY AtFirst DEF Course
<1>3. host' = host /\ (Windows' <=> Windows) /\ (JobRoot(cmd[c])' <=> JobRoot(cmd[c]))
  BY DEF host, Windows, JobRoot, IsRoot
<1>4. ScheduleOK(c)'
  <2>1. todo'[c] \in Seq(StepName) /\ InOrder(host'.os, todo'[c])
    BY <1>1, <1>2, <1>3
  <2>2. "drop" \in Left(c)'
    BY <1>1, <1>2 DEF Course, ScheduleOK
  <2>3. "elevate" \in Left(c)' => Left(c)' \subseteq {"runtime", "elevate", "drop"}
    BY <1>1 DEF Course, ScheduleOK
  <2> QED
    BY <2>1, <2>2, <2>3 DEF ScheduleOK
<1>5. BackendOK(c)'
  BY <1>1, <1>3 DEF Course, BackendOK
<1>6. FailingOK(c)'
  <2> SUFFICES ASSUME outcome[c].result # "pending"
               PROVE  FailingOK(c)'
    BY DEF FailingOK
  <2>1. s \in Cleanup
    BY <1>2 DEF Course, FailingOK
  <2>2. CASE s \in {"close", "unlock"}
    <3>1. s = "unlock" => "close" \notin Left(c)
      BY <2>2, HeadReleasing
    <3> QED
      BY <1>1, <2>2, <3>1 DEF Course, FailingOK
  <2>3. CASE s \in {"wait", "reap"}
    <3>1. "kill" \notin Left(c)
      BY <2>3, HeadEnding DEF Ending
    <3> QED
      BY <1>1, <2>3, <3>1 DEF Course, FailingOK
  <2> QED
    BY <2>1, <2>2, <2>3 DEF Cleanup
<1>7. PendingOK(c)'
  <2> SUFFICES ASSUME outcome[c].result = "pending"
               PROVE  PendingOK(c)'
    BY DEF PendingOK
  <2>1. Due(cmd[c])' = Due(cmd[c])
    BY <1>3 DEF Due
  <2>2. ASSUME "elevate" \notin Left(c), NEW u \in Left(c) \ {s}, NEW t \in Due(cmd[c]),
               Latest(host.os, u) < Earliest(host.os, t)
        PROVE  t \in Left(c) \ {s}
    <3>1. t \in Left(c)
      BY <2>2 DEF Course, PendingOK
    <3>2. t # s
      <4>1. Earliest(host.os, s) <= Latest(host.os, u)
        BY <1>2, <2>2
      <4>2. Earliest(host.os, s) \in Int /\ Latest(host.os, u) \in Int
        BY DEF Earliest, Latest
      <4> QED
        BY <2>2, <4>1, <4>2
    <3> QED
      BY <3>1, <3>2
  <2>3. "elevate" \in Left(c) <=> "elevate" \in Left(c) \ {s}
    OBVIOUS
  <2> QED
    BY <1>1, <1>3, <2>1, <2>2, <2>3 DEF Course, PendingOK
<1> QED
  BY <1>4, <1>5, <1>6, <1>7 DEF Course

(* A step that stops the call keeps it too: cleanup alone is left.         *)
LEMMA StoppingCourse ==
  ASSUME TypeOK, NEW c \in Calls, setting' = setting, NEW q, Stopped(q), Goto(c, q),
         q = <<"close", "unlock", "drop">> => Windows, outcome'[c].result \notin {"pending", "ok"}
  PROVE  Course(c)' /\ Left(c)' = Range(q)
<1>1. todo'[c] = q /\ Left(c)' = Range(q)
  BY Going
<1>2. /\ q \in Seq(StepName) /\ InOrder(host.os, q)
      /\ Range(q) \subseteq Cleanup /\ "drop" \in Range(q)
      /\ "close" \in Range(q) => "unlock" \in Range(q)
      /\ "kill" \in Range(q) => Range(q) \cap {"wait", "reap"} # {}
  BY StoppedInOrder
<1>3. host' = host /\ (Windows' <=> Windows)
  BY DEF host, Windows
<1>4. "elevate" \notin Range(q) /\ Range(q) \cap {"mark", "assign", "resume"} = {}
  BY <1>2 DEF Cleanup
<1>5. ScheduleOK(c)'
  BY <1>1, <1>2, <1>3, <1>4 DEF ScheduleOK
<1>6. FailingOK(c)' /\ PendingOK(c)'
  BY <1>1, <1>2 DEF FailingOK, PendingOK
<1>7. BackendOK(c)'
  <2>1. "close" \in Range(q) => Windows
    BY StoppedRanges DEF Stopped
  <2> QED
    BY <1>1, <1>3, <1>4, <2>1 DEF BackendOK
<1> QED
  BY <1>1, <1>5, <1>6, <1>7 DEF Course

-----------------------------------------------------------------------------
(* Which actions a step is, and what it may change of its call.            *)
Serves(c, s) ==
  \/ s = "runtime" /\ Runtime(c)
  \/ s = "elevate" /\ (RefuseElevation(c) \/ Rewrite(c) \/ LaunchRunas(c))
  \/ s = "build" /\ Build(c)
  \/ s = "resolve" /\ ResolveEnds(c)
  \/ s = "prepare" /\ (PrepareRefused(c) \/ Prepare(c))
  \/ s = "fence" /\ Fence(c)
  \/ s = "lock" /\ Lock(c)
  \/ s = "mark" /\ Mark(c)
  \/ s = "create" /\ (CreateFails(c) \/ Create(c))
  \/ s = "close" /\ Close(c)
  \/ s = "release" /\ Release(c)
  \/ s = "unlock" /\ Unlock(c)
  \/ s = "attach" /\ (Attach(c) \/ AttachUnlisted(c))
  \/ s = "assign" /\ Assign(c)
  \/ s = "resume" /\ Resume(c)
  \/ s = "identify" /\ Identify(c)
  \/ s = "adopt" /\ Adopt(c)
  \/ s = "password" /\ Password(c)
  \/ s = "kill" /\ (Kill(c) \/ KillRefused(c))
  \/ s = "wait" /\ Wait(c)
  \/ s = "reap" /\ Wait(c)
  \/ s = "drop" /\ Return(c)

(* Every action is taken at the step it is the code of.                    *)
LEMMA StepServes ==
  ASSUME NEW c, Step(c)
  PROVE  \E s \in StepName : At(c, s) /\ Serves(c, s)
<1>1. ASSUME Runtime(c) PROVE \E s \in StepName : At(c, s) /\ Serves(c, s)
  <2>1. At(c, "runtime")
    BY <1>1 DEF Runtime
  <2> QED
    BY <1>1, <2>1 DEF Serves, StepName
<1>2. ASSUME RefuseElevation(c) PROVE \E s \in StepName : At(c, s) /\ Serves(c, s)
  <2>1. At(c, "elevate")
    BY <1>2 DEF RefuseElevation
  <2> QED
    BY <1>2, <2>1 DEF Serves, StepName
<1>3. ASSUME Rewrite(c) PROVE \E s \in StepName : At(c, s) /\ Serves(c, s)
  <2>1. At(c, "elevate")
    BY <1>3 DEF Rewrite
  <2> QED
    BY <1>3, <2>1 DEF Serves, StepName
<1>4. ASSUME LaunchRunas(c) PROVE \E s \in StepName : At(c, s) /\ Serves(c, s)
  <2>1. At(c, "elevate")
    BY <1>4 DEF LaunchRunas
  <2> QED
    BY <1>4, <2>1 DEF Serves, StepName
<1>5. ASSUME Build(c) PROVE \E s \in StepName : At(c, s) /\ Serves(c, s)
  <2>1. At(c, "build")
    BY <1>5 DEF Build
  <2> QED
    BY <1>5, <2>1 DEF Serves, StepName
<1>6. ASSUME ResolveEnds(c) PROVE \E s \in StepName : At(c, s) /\ Serves(c, s)
  <2>1. At(c, "resolve")
    BY <1>6 DEF ResolveEnds
  <2> QED
    BY <1>6, <2>1 DEF Serves, StepName
<1>7. ASSUME PrepareRefused(c) PROVE \E s \in StepName : At(c, s) /\ Serves(c, s)
  <2>1. At(c, "prepare")
    BY <1>7 DEF PrepareRefused
  <2> QED
    BY <1>7, <2>1 DEF Serves, StepName
<1>8. ASSUME Prepare(c) PROVE \E s \in StepName : At(c, s) /\ Serves(c, s)
  <2>1. At(c, "prepare")
    BY <1>8 DEF Prepare
  <2> QED
    BY <1>8, <2>1 DEF Serves, StepName
<1>9. ASSUME Fence(c) PROVE \E s \in StepName : At(c, s) /\ Serves(c, s)
  <2>1. At(c, "fence")
    BY <1>9 DEF Fence
  <2> QED
    BY <1>9, <2>1 DEF Serves, StepName
<1>10. ASSUME Lock(c) PROVE \E s \in StepName : At(c, s) /\ Serves(c, s)
  <2>1. At(c, "lock")
    BY <1>10 DEF Lock
  <2> QED
    BY <1>10, <2>1 DEF Serves, StepName
<1>11. ASSUME Mark(c) PROVE \E s \in StepName : At(c, s) /\ Serves(c, s)
  <2>1. At(c, "mark")
    BY <1>11 DEF Mark
  <2> QED
    BY <1>11, <2>1 DEF Serves, StepName
<1>12. ASSUME CreateFails(c) PROVE \E s \in StepName : At(c, s) /\ Serves(c, s)
  <2>1. At(c, "create")
    BY <1>12 DEF CreateFails
  <2> QED
    BY <1>12, <2>1 DEF Serves, StepName
<1>13. ASSUME Create(c) PROVE \E s \in StepName : At(c, s) /\ Serves(c, s)
  <2>1. At(c, "create")
    BY <1>13 DEF Create
  <2> QED
    BY <1>13, <2>1 DEF Serves, StepName
<1>14. ASSUME Close(c) PROVE \E s \in StepName : At(c, s) /\ Serves(c, s)
  <2>1. At(c, "close")
    BY <1>14 DEF Close
  <2> QED
    BY <1>14, <2>1 DEF Serves, StepName
<1>15. ASSUME Release(c) PROVE \E s \in StepName : At(c, s) /\ Serves(c, s)
  <2>1. At(c, "release")
    BY <1>15 DEF Release
  <2> QED
    BY <1>15, <2>1 DEF Serves, StepName
<1>16. ASSUME Unlock(c) PROVE \E s \in StepName : At(c, s) /\ Serves(c, s)
  <2>1. At(c, "unlock")
    BY <1>16 DEF Unlock
  <2> QED
    BY <1>16, <2>1 DEF Serves, StepName
<1>17. ASSUME Attach(c) PROVE \E s \in StepName : At(c, s) /\ Serves(c, s)
  <2>1. At(c, "attach")
    BY <1>17 DEF Attach
  <2> QED
    BY <1>17, <2>1 DEF Serves, StepName
<1>18. ASSUME AttachUnlisted(c) PROVE \E s \in StepName : At(c, s) /\ Serves(c, s)
  <2>1. At(c, "attach")
    BY <1>18 DEF AttachUnlisted
  <2> QED
    BY <1>18, <2>1 DEF Serves, StepName
<1>19. ASSUME Assign(c) PROVE \E s \in StepName : At(c, s) /\ Serves(c, s)
  <2>1. At(c, "assign")
    BY <1>19 DEF Assign
  <2> QED
    BY <1>19, <2>1 DEF Serves, StepName
<1>20. ASSUME Resume(c) PROVE \E s \in StepName : At(c, s) /\ Serves(c, s)
  <2>1. At(c, "resume")
    BY <1>20 DEF Resume
  <2> QED
    BY <1>20, <2>1 DEF Serves, StepName
<1>21. ASSUME Identify(c) PROVE \E s \in StepName : At(c, s) /\ Serves(c, s)
  <2>1. At(c, "identify")
    BY <1>21 DEF Identify
  <2> QED
    BY <1>21, <2>1 DEF Serves, StepName
<1>22. ASSUME Adopt(c) PROVE \E s \in StepName : At(c, s) /\ Serves(c, s)
  <2>1. At(c, "adopt")
    BY <1>22 DEF Adopt
  <2> QED
    BY <1>22, <2>1 DEF Serves, StepName
<1>23. ASSUME Password(c) PROVE \E s \in StepName : At(c, s) /\ Serves(c, s)
  <2>1. At(c, "password")
    BY <1>23 DEF Password
  <2> QED
    BY <1>23, <2>1 DEF Serves, StepName
<1>24. ASSUME Kill(c) PROVE \E s \in StepName : At(c, s) /\ Serves(c, s)
  <2>1. At(c, "kill")
    BY <1>24 DEF Kill
  <2> QED
    BY <1>24, <2>1 DEF Serves, StepName
<1>25. ASSUME KillRefused(c) PROVE \E s \in StepName : At(c, s) /\ Serves(c, s)
  <2>1. At(c, "kill")
    BY <1>25 DEF KillRefused
  <2> QED
    BY <1>25, <2>1 DEF Serves, StepName
<1>26. ASSUME Wait(c) PROVE \E s \in StepName : At(c, s) /\ Serves(c, s)
  <2>1. At(c, "wait") \/ At(c, "reap")
    BY <1>26 DEF Wait
  <2> QED
    BY <1>26, <2>1 DEF Serves, StepName
<1>27. ASSUME Return(c) PROVE \E s \in StepName : At(c, s) /\ Serves(c, s)
  <2>1. At(c, "drop")
    BY <1>27 DEF Return
  <2> QED
    BY <1>27, <2>1 DEF Serves, StepName
<1> QED
  BY <1>1, <1>2, <1>3, <1>4, <1>5, <1>6, <1>7, <1>8, <1>9, <1>10, <1>11, <1>12, <1>13, <1>14,
     <1>15, <1>16, <1>17, <1>18, <1>19, <1>20, <1>21, <1>22, <1>23, <1>24, <1>25, <1>26, <1>27 DEF Step

(* The step goes on to the next one, or ends the call in an error.         *)
Passed(c, s) == /\ Left(c)' = Left(c) \ {s}
                /\ outcome'[c].result = outcome[c].result
Halted(c) == /\ Left(c)' \subseteq Cleanup /\ "drop" \in Left(c)'
             /\ outcome'[c].result \notin {"pending", "ok"}

Moved(c, s) == Course(c)' /\ (Passed(c, s) \/ Halted(c))

Error == {"Io", "Containment", "Unassessable", "AuthFailed", "AuthDeclined", "Untracked"} \cup Refusal

(* An action that goes on with the program passes its step.                *)
LEMMA Advancing ==
  ASSUME TypeOK, NEW c \in Calls, Course(c), NEW s, s \notin {"elevate", "drop", "kill"}, At(c, s),
         setting' = setting, cmd'[c] = cmd[c], Goto(c, Tail(todo[c])),
         outcome'[c].result = outcome[c].result
  PROVE  Moved(c, s)
<1>1. Course(c)'
  BY PassingCourse DEF Goto
<1>2. Left(c)' = Left(c) \ {s}
  BY Passing DEF Goto, Course
<1> QED
  BY <1>1, <1>2 DEF Moved, Passed

(* One that gives the program up for cleanup halts the call.               *)
LEMMA Stopping ==
  ASSUME TypeOK, NEW c \in Calls, setting' = setting, NEW q, Stopped(q), Goto(c, q),
         q = <<"close", "unlock", "drop">> => Windows, outcome'[c].result \in Error
  PROVE  \A s : Moved(c, s)
<1>1. outcome'[c].result \notin {"pending", "ok"}
  BY DEF Error, Refusal
<1>2. Course(c)' /\ Left(c)' = Range(q)
  BY <1>1, StoppingCourse
<1>3. Range(q) \subseteq Cleanup /\ "drop" \in Range(q)
  BY StoppedInOrder
<1> QED
  BY <1>1, <1>2, <1>3 DEF Moved, Halted

(* The cleanups that the error paths use are of the kinds above, and only  *)
(* the Windows unwinding closes ends under the lock.                       *)
LEMMA StopsInUse ==
  /\ Stopped(<<"drop">>) /\ Stopped(<<"wait", "drop">>)
  /\ \A k : Stopped(Teardown(k)) /\ Teardown(k) # <<"close", "unlock", "drop">>
  /\ \A c : Stopped(Unwound(c)) /\ (Unwound(c) = <<"close", "unlock", "drop">> => Windows)
  /\ <<"drop">> # <<"close", "unlock", "drop">>
  /\ <<"wait", "drop">> # <<"close", "unlock", "drop">>
<1>1. /\ <<"kill", "wait", "drop">>[1] # <<"close", "unlock", "drop">>[1]
      /\ <<"kill", "reap", "drop">>[1] # <<"close", "unlock", "drop">>[1]
      /\ <<"unlock", "drop">>[1] # <<"close", "unlock", "drop">>[1]
      /\ <<"drop">>[1] # <<"close", "unlock", "drop">>[1]
      /\ <<"wait", "drop">>[1] # <<"close", "unlock", "drop">>[1]
  OBVIOUS
<1> QED
  BY <1>1 DEF Stopped, Teardown, Unwound

(* An error return halts the call.                                         *)
LEMMA FailMoves ==
  ASSUME TypeOK, NEW c \in Calls, setting' = setting, NEW e \in Error, NEW q, Fail(c, e, q),
         \/ q = <<"drop">> \/ q = <<"wait", "drop">> \/ q = Unwound(c) \/ q = Teardown(cmd[c])
  PROVE  \A s : Moved(c, s)
<1>1. outcome'[c].result = e /\ Goto(c, q)
  BY DEF Fail, TypeOK
<1> QED
  BY <1>1, StopsInUse, Stopping

(* A success goes on.                                                      *)
LEMMA AdvanceMoves ==
  ASSUME TypeOK, NEW c \in Calls, Course(c), NEW s, s \notin {"elevate", "drop", "kill"}, At(c, s),
         setting' = setting, cmd' = cmd, Advance(c)
  PROVE  Moved(c, s)
BY Advancing DEF Advance

(* So does a success that reports a mechanism.                             *)
LEMMA ReportMoves ==
  ASSUME TypeOK, NEW c \in Calls, Course(c), NEW s, s \notin {"elevate", "drop", "kill"}, At(c, s),
         setting' = setting, cmd' = cmd, NEW r, Reports(c, r)
  PROVE  Moved(c, s)
<1>1. outcome'[c].result = outcome[c].result
  BY DEF Reports, TypeOK
<1> QED
  BY <1>1, Advancing DEF Reports

(* Every action but elevation, the kill and the return passes its step or  *)
(* halts the call.                                                         *)
LEMMA ActionMoves ==
  ASSUME TypeOK, NEW c \in Calls, Course(c), NEW s, At(c, s), Serves(c, s),
         s \notin {"elevate", "kill", "drop"}
  PROVE  Moved(c, s)
<1> DEFINE settled == setting' = setting /\ cmd' = cmd
<1>0. "Io" \in Error /\ "Containment" \in Error /\ "Unassessable" \in Error /\ "AuthFailed" \in Error
      /\ "Unsupported" \in Error
  BY DEF Error, Refusal
<1>1. CASE s = "runtime" /\ Runtime(c)
  <2>1. settled /\ (Advance(c) \/ Fail(c, "Io", <<"drop">>))
    BY <1>1 DEF Runtime, HostOnly
  <2> QED
    BY <1>0, <2>1, AdvanceMoves, FailMoves, <1>1
<1>2. CASE s = "build" /\ Build(c)
  <2>1. settled /\ (Advance(c) \/ \E e \in {"Io", "Unsupported"} : Fail(c, e, <<"drop">>))
    BY <1>2 DEF Build, HostOnly
  <2> QED
    BY <1>0, <2>1, AdvanceMoves, FailMoves, <1>2
<1>3. CASE s = "resolve" /\ ResolveEnds(c)
  <2>1. settled /\ (Advance(c) \/ Fail(c, "Unsupported", <<"drop">>))
    BY <1>3 DEF ResolveEnds, HostOnly
  <2> QED
    BY <1>0, <2>1, AdvanceMoves, FailMoves, <1>3
<1>4. CASE s = "prepare" /\ PrepareRefused(c)
  <2>1. settled /\ Fail(c, "Unsupported", <<"drop">>)
    BY <1>4 DEF PrepareRefused, HostOnly
  <2> QED
    BY <1>0, <2>1, FailMoves, <1>4
<1>5. CASE s = "prepare" /\ Prepare(c)
  BY <1>5, AdvanceMoves DEF Prepare, HostOnly
<1>6. CASE s = "fence" /\ Fence(c)
  BY <1>6, AdvanceMoves DEF Fence, HostOnly
<1>7. CASE s = "lock" /\ Lock(c)
  BY <1>7, AdvanceMoves DEF Lock, HostOnly
<1>8. CASE s = "mark" /\ Mark(c)
  <2>1. settled /\ (Advance(c) \/ Fail(c, "Io", Unwound(c)))
    BY <1>8 DEF Mark, HostOnly
  <2> QED
    BY <1>0, <2>1, AdvanceMoves, FailMoves, <1>8
<1>9. CASE s = "create" /\ CreateFails(c)
  <2>1. settled /\ \E e \in CreateErrors(cmd[c]) : Fail(c, e, Unwound(c))
    BY <1>9 DEF CreateFails, HostOnly
  <2>2. CreateErrors(cmd[c]) \subseteq Error
    BY DEF CreateErrors, Error, Refusal
  <2> QED
    BY <2>1, <2>2, FailMoves, <1>9
<1>10. CASE s = "create" /\ Create(c)
  BY <1>10, AdvanceMoves DEF Create, HostOnly
<1>11. CASE s = "close" /\ Close(c)
  BY <1>11, AdvanceMoves DEF Close, HostOnly
<1>12. CASE s = "release" /\ Release(c)
  BY <1>12, AdvanceMoves DEF Release, HostOnly
<1>13. CASE s = "unlock" /\ Unlock(c)
  BY <1>13, AdvanceMoves DEF Unlock, HostOnly
<1>14. CASE s = "attach" /\ Attach(c)
  <2>1. settled /\ (Reports(c, Mechanism(c)) \/ Fail(c, "Unassessable", Teardown(cmd[c])))
    BY <1>14 DEF Attach, HostOnly
  <2> QED
    BY <1>0, <2>1, ReportMoves, FailMoves, <1>14
<1>15. CASE s = "attach" /\ AttachUnlisted(c)
  BY <1>15, ReportMoves DEF AttachUnlisted, HostOnly
<1>16. CASE s = "assign" /\ Assign(c)
  BY <1>16, AdvanceMoves DEF Assign, HostOnly
<1>17. CASE s = "resume" /\ Resume(c)
  <2>1. settled /\ (Advance(c) \/ Fail(c, "Containment", Teardown(cmd[c])))
    BY <1>17 DEF Resume, HostOnly
  <2> QED
    BY <1>0, <2>1, AdvanceMoves, FailMoves, <1>17
<1>18. CASE s = "identify" /\ Identify(c)
  <2>1. settled /\ (Advance(c) \/ Fail(c, "Unassessable", Teardown(cmd[c])))
    BY <1>18 DEF Identify, HostOnly
  <2> QED
    BY <1>0, <2>1, AdvanceMoves, FailMoves, <1>18
<1>19. CASE s = "adopt" /\ Adopt(c)
  <2>1. settled /\ (Advance(c) \/ (Goto(c, <<"drop">>) /\ outcome'[c].result = "Io"))
    BY <1>19 DEF Adopt, HostOnly, TypeOK
  <2> QED
    BY <1>0, <2>1, AdvanceMoves, StopsInUse, Stopping, <1>19
<1>20. CASE s = "password" /\ Password(c)
  <2>1. settled /\ \/ Advance(c) \/ Fail(c, "AuthFailed", <<"wait", "drop">>)
                   \/ Goto(c, <<"drop">>) /\ outcome'[c].result = "AuthFailed"
    BY <1>20 DEF Password, HostOnly, TypeOK
  <2> QED
    BY <1>0, <2>1, AdvanceMoves, FailMoves, StopsInUse, Stopping, <1>20
<1>21. CASE s \in {"wait", "reap"} /\ Wait(c)
  BY <1>21, AdvanceMoves DEF Wait, HostOnly
<1> QED
  BY <1>1, <1>2, <1>3, <1>4, <1>5, <1>6, <1>7, <1>8, <1>9, <1>10, <1>11, <1>12, <1>13, <1>14,
     <1>15, <1>16, <1>17, <1>18, <1>19, <1>20, <1>21 DEF Serves

(* A command rewritten for its elevation starts on its own program.        *)
LEMMA RewriteCourse ==
  ASSUME TypeOK, NEW c \in Calls, host.os \in {"linux", "macos", "windows"}, Course(c), Rewrite(c)
  PROVE  /\ Course(c)' /\ Fits(cmd'[c], todo'[c]) /\ Left(c)' = Range(todo'[c])
         /\ outcome[c].result = "pending" /\ outcome' = outcome
<1> DEFINE derived == IF Windows THEN [cmd[c] EXCEPT !.elevate = FALSE] ELSE Derived(cmd[c], host)
<1>1. /\ At(c, "elevate") /\ cmd' = [cmd EXCEPT ![c] = derived] /\ Goto(c, Program(derived))
      /\ outcome' = outcome /\ setting' = setting
  BY DEF Rewrite
<1>2. cmd'[c] = derived
  BY <1>1 DEF TypeOK
<1> HIDE DEF derived
<1>3. todo'[c] = Program(derived) /\ Left(c)' = Range(Program(derived))
  BY <1>1, Going
<1>4. Fits(cmd'[c], todo'[c])
  BY <1>2, <1>3, ProgramFits
<1>5. outcome[c].result = "pending"
  BY <1>1, HeadOpening
<1>6. host' = host /\ (Windows' <=> Windows) /\ (JobRoot(cmd[c])' <=> JobRoot(cmd'[c]))
  BY <1>1 DEF host, Windows, JobRoot, IsRoot
<1>7. Due(cmd[c])' = Due(cmd'[c])
  BY <1>6 DEF Due
<1>8. /\ todo'[c] \in Seq(StepName) /\ InOrder(host.os, todo'[c])
      /\ Due(cmd'[c]) \subseteq Left(c)' /\ Left(c)' \cap ({"elevate"} \cup Ending) = {}
      /\ Left(c)' \cap {"mark", "close"} # {} => Windows
      /\ Left(c)' \cap {"assign", "resume"} # {} => JobRoot(cmd'[c])
  BY <1>3, <1>4 DEF Fits
<1>9. "drop" \in Left(c)'
  BY <1>8 DEF Due
<1>10. ScheduleOK(c)'
  BY <1>6, <1>8, <1>9 DEF ScheduleOK
<1>11. PendingOK(c)' /\ FailingOK(c)' /\ BackendOK(c)'
  BY <1>1, <1>5, <1>6, <1>7, <1>8 DEF PendingOK, FailingOK, BackendOK
<1> QED
  BY <1>1, <1>3, <1>4, <1>5, <1>10, <1>11 DEF Course

(* The consent dialog of Windows leaves the drop alone, whether it was     *)
(* granted or declined.                                                    *)
LEMMA ConsentMoves ==
  ASSUME TypeOK, NEW c \in Calls, Course(c), LaunchRunas(c)
  PROVE  /\ Moved(c, "elevate") /\ Left(c)' = {"drop"} /\ outcome[c].result = "pending"
         /\ outcome'[c].result \in {"pending"} \cup Error
<1>1. At(c, "elevate") /\ setting' = setting /\ cmd' = cmd
  BY DEF LaunchRunas, HostOnly
<1>2. outcome[c].result = "pending" /\ Left(c) = {"elevate", "drop"}
  BY <1>1, HeadOpening
<1>3. \/ \E e \in {"AuthFailed", "AuthDeclined", "Untracked"} :
           Goto(c, <<"drop">>) /\ outcome'[c].result = e
      \/ Goto(c, Tail(todo[c])) /\ outcome'[c].result = outcome[c].result
  BY DEF LaunchRunas, Fail, Reports, TypeOK
<1>4. ASSUME NEW e \in {"AuthFailed", "AuthDeclined", "Untracked"}, Goto(c, <<"drop">>),
             outcome'[c].result = e
      PROVE  /\ Moved(c, "elevate") /\ Left(c)' = {"drop"}
             /\ outcome'[c].result \in {"pending"} \cup Error
  <2>1. e \in Error
    BY DEF Error
  <2>2. Moved(c, "elevate")
    BY <1>1, <1>4, <2>1, StopsInUse, Stopping
  <2>3. Left(c)' = {"drop"}
    BY <1>4, Going, StoppedRanges
  <2> QED
    BY <1>4, <2>1, <2>2, <2>3
<1>5. ASSUME Goto(c, Tail(todo[c])), outcome'[c].result = outcome[c].result
      PROVE  /\ Moved(c, "elevate") /\ Left(c)' = {"drop"}
             /\ outcome'[c].result \in {"pending"} \cup Error
  <2>1. todo'[c] = Tail(todo[c]) /\ Left(c)' = {"drop"}
    BY <1>1, <1>2, <1>5, Going, AtFirst DEF Course
  <2>2. todo'[c] \in Seq(StepName) /\ InOrder(host.os, todo'[c]) /\ host' = host
    BY <1>1, <2>1, AtFirst DEF Course, host
  <2>3. ScheduleOK(c)'
    BY <2>1, <2>2 DEF ScheduleOK
  <2>4. PendingOK(c)'
    <3>1. \A t \in Due(cmd[c])' : ~ (Latest(host.os, "drop") < Earliest(host.os, t))
      BY DEF Due, Earliest, Latest
    <3> QED
      BY <2>1, <2>2, <3>1 DEF PendingOK, Ending
  <2>5. FailingOK(c)' /\ BackendOK(c)'
    BY <1>2, <1>5, <2>1 DEF FailingOK, BackendOK
  <2>6. Passed(c, "elevate")
    BY <1>2, <1>5, <2>1 DEF Passed
  <2> QED
    BY <1>2, <1>5, <2>1, <2>3, <2>4, <2>5, <2>6 DEF Moved, Course
<1> QED
  BY <1>2, <1>3, <1>4, <1>5

(* The kill, refused or not, leaves the wait and keeps the error.          *)
LEMMA KillMoves ==
  ASSUME TypeOK, NEW c \in Calls, Course(c), Kill(c) \/ KillRefused(c)
  PROVE  /\ Moved(c, "kill") /\ outcome[c].result \notin {"pending", "ok"}
         /\ outcome'[c].result = outcome[c].result
<1>1. /\ At(c, "kill") /\ setting' = setting /\ cmd' = cmd
      /\ Goto(c, Tail(todo[c])) \/ Goto(c, <<"drop">>)
  BY DEF Kill, KillRefused, HostOnly, Advance
<1>2. outcome[c].result \notin {"pending", "ok"}
  <2>1. "kill" \in Left(c) /\ outcome[c].result # "pending"
    BY <1>1, HeadEnding DEF Ending
  <2> QED
    BY <2>1 DEF Course, FailingOK
<1>3. outcome'[c].result = outcome[c].result
  BY DEF Kill, KillRefused, Advance, TypeOK
<1>4. CASE Goto(c, <<"drop">>)
  <2>1. Course(c)' /\ Left(c)' = Range(<<"drop">>)
    BY <1>1, <1>2, <1>3, <1>4, StopsInUse, StoppingCourse
  <2> QED
    BY <1>2, <1>3, <2>1, StoppedRanges DEF Moved, Halted, Cleanup
<1>5. CASE Goto(c, Tail(todo[c]))
  <2>1. Left(c)' = Left(c) \ {"kill"} /\ todo'[c] = Tail(todo[c])
    BY <1>1, <1>5, Passing DEF Goto, Course
  <2>2. Tail(todo[c]) \in Seq(StepName) /\ InOrder(host.os, Tail(todo[c]))
    BY <1>1, AtFirst DEF Course
  <2>3. host' = host /\ (Windows' <=> Windows) /\ (JobRoot(cmd[c])' <=> JobRoot(cmd[c]))
    BY <1>1 DEF host, Windows, JobRoot, IsRoot
  <2>4. Left(c) \subseteq Ending \cup {"drop"} /\ "drop" \in Left(c)
    BY <1>1, HeadEnding DEF Ending
  <2>5. ScheduleOK(c)'
    BY <2>1, <2>2, <2>3, <2>4 DEF ScheduleOK, Ending
  <2>6. PendingOK(c)' /\ FailingOK(c)' /\ BackendOK(c)'
    BY <1>2, <1>3, <2>1, <2>3, <2>4 DEF PendingOK, FailingOK, BackendOK, Course, Ending
  <2> QED
    BY <1>2, <1>3, <2>1, <2>5, <2>6 DEF Moved, Passed, Course
<1> QED
  BY <1>1, <1>2, <1>3, <1>4, <1>5

(* The return ends the call: in success when no error has come, in that    *)
(* error otherwise.                                                        *)
LEMMA ReturnMoves ==
  ASSUME TypeOK, NEW c \in Calls, Course(c), Return(c)
  PROVE  /\ Course(c)' /\ Left(c) = {"drop"} /\ Left(c)' = {} /\ outcome[c].result # "ok"
         /\ outcome[c].result = "pending" => outcome'[c].result = "ok"
         /\ outcome[c].result # "pending" => outcome'[c].result = outcome[c].result
         /\ todo'[c] = <<>>
<1>1. At(c, "drop") /\ setting' = setting /\ Goto(c, <<>>)
  BY DEF Return, HostOnly
<1>2. Left(c) = {"drop"}
  BY <1>1, HeadEnding
<1>3. outcome[c].result # "ok"
  BY <1>2 DEF Course, FailingOK
<1>4. /\ outcome[c].result = "pending" => outcome'[c].result = "ok"
      /\ outcome[c].result # "pending" => outcome'[c].result = outcome[c].result
  BY DEF Return, TypeOK
<1>5. todo'[c] = <<>> /\ Left(c)' = {}
  BY <1>1, Going, ShortSequences
<1>6. <<>> \in Seq(StepName) /\ InOrder(host'.os, <<>>)
  BY ShortSequences
<1>7. Course(c)'
  BY <1>4, <1>5, <1>6 DEF Course, ScheduleOK, PendingOK, FailingOK, BackendOK
<1> QED
  BY <1>2, <1>3, <1>4, <1>5, <1>7

(* The parts of the call's state that a step leaves as they were.          *)
Quiet(c, s) ==
  /\ setting' = setting
  /\ s # "elevate" => cmd'[c] = cmd[c]
  /\ s \notin {"elevate", "create", "attach", "assign", "resume", "adopt", "password", "kill",
               "wait", "reap", "drop"} => child'[c] = child[c]
  /\ s \notin {"resolve", "mark", "close", "release", "drop"} => own'[c].ends = own[c].ends
  /\ s \notin {"prepare", "fence", "release", "drop"} => own'[c].marker = own[c].marker
  /\ s \notin {"prepare", "attach", "drop"} => own'[c].leaf = own[c].leaf
  /\ s # "prepare" => own'[c].cleared = own[c].cleared
  /\ s \notin {"resolve", "create"} => wiring'[c] = wiring[c]
  /\ s \notin {"elevate", "attach"} => outcome'[c].report = outcome[c].report
  /\ s \notin {"elevate", "adopt", "password", "kill"} => outcome'[c].excused = outcome[c].excused

(* Each action leaves alone what is not its own: the ends, the marker, the *)
(* leaf, the report and the child each have their few writers.             *)
LEMMA ActionQuiet ==
  ASSUME TypeOK, NEW c \in Calls, NEW s, Serves(c, s)
  PROVE  Quiet(c, s)
<1>1. CASE s = "runtime" /\ Runtime(c)
  BY <1>1 DEF Runtime, Advance, Fail, Goto, HostOnly, TypeOK, Quiet
<1>2. CASE s = "elevate" /\ RefuseElevation(c)
  BY <1>2 DEF RefuseElevation, Fail, Goto, HostOnly, TypeOK, Quiet
<1>3. CASE s = "elevate" /\ Rewrite(c)
  BY <1>3 DEF Rewrite, Goto, HostOnly, TypeOK, Quiet
<1>4. CASE s = "elevate" /\ LaunchRunas(c)
  BY <1>4 DEF LaunchRunas, Fail, Goto, Reports, Started, HostOnly, TypeOK, Quiet
<1>5. CASE s = "build" /\ Build(c)
  BY <1>5 DEF Build, Advance, Fail, Goto, HostOnly, TypeOK, Quiet
<1>6. CASE s = "resolve" /\ ResolveEnds(c)
  BY <1>6 DEF ResolveEnds, Advance, Fail, Goto, HostOnly, TypeOK, Quiet
<1>7. CASE s = "prepare" /\ PrepareRefused(c)
  BY <1>7 DEF PrepareRefused, Fail, Goto, RefusedOwn, HostOnly, TypeOK, Quiet
<1>8. CASE s = "prepare" /\ Prepare(c)
  BY <1>8 DEF Prepare, Advance, Goto, HostOnly, TypeOK, Quiet
<1>9. CASE s = "fence" /\ Fence(c)
  BY <1>9 DEF Fence, Advance, Goto, HostOnly, TypeOK, Quiet
<1>10. CASE s = "lock" /\ Lock(c)
  BY <1>10 DEF Lock, Advance, Goto, HostOnly, TypeOK, Quiet
<1>11. CASE s = "mark" /\ Mark(c)
  BY <1>11 DEF Mark, Advance, Fail, Goto, HostOnly, TypeOK, Quiet
<1>12. CASE s = "create" /\ CreateFails(c)
  BY <1>12 DEF CreateFails, Fail, Goto, HostOnly, TypeOK, Quiet
<1>13. CASE s = "create" /\ Create(c)
  BY <1>13 DEF Create, Advance, Goto, HostOnly, TypeOK, Quiet
<1>14. CASE s = "close" /\ Close(c)
  BY <1>14 DEF Close, Advance, Goto, HostOnly, TypeOK, Quiet
<1>15. CASE s = "release" /\ Release(c)
  BY <1>15 DEF Release, Advance, Goto, HostOnly, TypeOK, Quiet
<1>16. CASE s = "unlock" /\ Unlock(c)
  BY <1>16 DEF Unlock, Advance, Goto, HostOnly, TypeOK, Quiet
<1>17. CASE s = "attach" /\ Attach(c)
  BY <1>17 DEF Attach, Reports, Fail, Goto, HostOnly, TypeOK, Quiet
<1>18. CASE s = "attach" /\ AttachUnlisted(c)
  BY <1>18 DEF AttachUnlisted, Reports, Goto, DropLeaf, Rmdir, HostOnly, TypeOK, Quiet
<1>19. CASE s = "assign" /\ Assign(c)
  BY <1>19 DEF Assign, Advance, Goto, HostOnly, TypeOK, Quiet
<1>20. CASE s = "resume" /\ Resume(c)
  BY <1>20 DEF Resume, Advance, Fail, Goto, Started, HostOnly, TypeOK, Quiet
<1>21. CASE s = "identify" /\ Identify(c)
  BY <1>21 DEF Identify, Advance, Fail, Goto, HostOnly, TypeOK, Quiet
<1>22. CASE s = "adopt" /\ Adopt(c)
  BY <1>22 DEF Adopt, Advance, Goto, Collect, HostOnly, TypeOK, Quiet
<1>23. CASE s = "password" /\ Password(c)
  BY <1>23 DEF Password, Advance, Fail, Goto, Doom, Collect, HostOnly, TypeOK, Quiet
<1>24. CASE s = "kill" /\ Kill(c)
  BY <1>24 DEF Kill, Advance, Goto, Doom, HostOnly, TypeOK, Quiet
<1>25. CASE s = "kill" /\ KillRefused(c)
  BY <1>25 DEF KillRefused, Goto, HostOnly, TypeOK, Quiet
<1>26. CASE s \in {"wait", "reap"} /\ Wait(c)
  BY <1>26 DEF Wait, Advance, Goto, Collect, HostOnly, TypeOK, Quiet
<1>27. CASE s = "drop" /\ Return(c)
  BY <1>27 DEF Return, Goto, HostOnly, TypeOK, Quiet
<1> QED
  BY <1>1, <1>2, <1>3, <1>4, <1>5, <1>6, <1>7, <1>8, <1>9, <1>10, <1>11, <1>12, <1>13, <1>14,
     <1>15, <1>16, <1>17, <1>18, <1>19, <1>20, <1>21, <1>22, <1>23, <1>24, <1>25, <1>26, <1>27 DEF Serves

Stepped(c, s) == /\ At(c, s) /\ Serves(c, s) /\ Quiet(c, s) /\ Course(c)'
                 /\ s \notin {"elevate", "drop"} => Passed(c, s) \/ Halted(c)

(* The machine of a setting is one of the three systems.                   *)
LEMMA HostOfInv ==
  ASSUME Inv
  PROVE  host \in Machine /\ host.os \in {"linux", "macos", "windows"} /\ "free" \notin Calls
BY SpawnAssumption DEF Inv, host, Calls, Machine

(* Every action of a call is the step at hand, touches only what is its    *)
(* own, and passes or halts.                                               *)
LEMMA StepMoves ==
  ASSUME Inv, NEW c \in Calls, Step(c)
  PROVE  \E s \in StepName : Stepped(c, s)
<1>1. PICK s \in StepName : At(c, s) /\ Serves(c, s)
  BY StepServes
<1>2. TypeOK /\ Course(c)
  BY DEF Inv, CallOK, Course
<1>3. Quiet(c, s)
  BY <1>1, <1>2, ActionQuiet
<1>4. CASE s \notin {"elevate", "kill", "drop"}
  <2>1. Moved(c, s)
    BY <1>1, <1>2, <1>4, ActionMoves
  <2> QED
    BY <1>1, <1>3, <2>1 DEF Stepped, Moved
<1>5. CASE s = "elevate"
  <2>1. RefuseElevation(c) \/ Rewrite(c) \/ LaunchRunas(c)
    BY <1>1, <1>5 DEF Serves
  <2>2. ASSUME RefuseElevation(c) PROVE Course(c)'
    <3>1. /\ setting' = setting /\ Verdict(cmd[c], host) \in Error
          /\ Fail(c, Verdict(cmd[c], host), <<"drop">>)
      BY <2>2 DEF RefuseElevation, HostOnly, Error
    <3> QED
      BY <1>2, <3>1, FailMoves DEF Moved
  <2>3. Course(c)'
    BY <1>2, <2>1, <2>2, HostOfInv, RewriteCourse, ConsentMoves DEF Moved
  <2> QED
    BY <1>1, <1>3, <1>5, <2>3 DEF Stepped
<1>6. CASE s = "kill"
  <2>1. Moved(c, s)
    BY <1>1, <1>2, <1>6, KillMoves DEF Serves
  <2> QED
    BY <1>1, <1>3, <2>1 DEF Stepped, Moved
<1>7. CASE s = "drop"
  <2>1. Course(c)'
    BY <1>1, <1>2, <1>7, ReturnMoves DEF Serves
  <2> QED
    BY <1>1, <1>3, <1>7, <2>1 DEF Stepped
<1> QED
  BY <1>4, <1>5, <1>6, <1>7

(* What is left after a step was left before it, or is cleanup; only the   *)
(* return makes a call succeed.                                            *)
LEMMA Onward ==
  ASSUME Inv, NEW c \in Calls, NEW s, Stepped(c, s), s # "elevate"
  PROVE  /\ \A t \in Left(c)' : t \notin Cleanup =>
              t \in Left(c) \ {s} /\ outcome'[c].result = outcome[c].result
         /\ outcome'[c].result = "pending" =>
              Left(c)' = Left(c) \ {s} /\ outcome[c].result = "pending"
         /\ outcome'[c].result = "ok" =>
              s = "drop" /\ outcome[c].result = "pending" /\ Left(c)' = {} /\ Left(c) = {"drop"}
<1>1. TypeOK /\ Course(c) /\ At(c, s)
  BY DEF Inv, CallOK, Course, Stepped
<1>2. s \in Left(c)
  BY <1>1, AtFirst DEF Course
<1>3. outcome[c].result # "ok"
  BY <1>1, <1>2 DEF Course, FailingOK
<1>4. CASE s = "drop"
  <2>1. Return(c)
    BY <1>4 DEF Stepped, Serves
  <2> QED
    BY <1>1, <1>3, <1>4, <2>1, ReturnMoves
<1>5. CASE s # "drop"
  <2>1. Passed(c, s) \/ Halted(c)
    BY <1>5 DEF Stepped
  <2>2. CASE Passed(c, s)
    BY <1>3, <2>2 DEF Passed
  <2>3. CASE Halted(c)
    BY <2>3 DEF Halted
  <2> QED
    BY <2>1, <2>2, <2>3
<1> QED
  BY <1>4, <1>5

(* A call that asked for elevation goes on to the rewritten program, or    *)
(* ends there.                                                             *)
LEMMA ElevateEnds ==
  ASSUME Inv, NEW c \in Calls, Stepped(c, "elevate")
  PROVE  /\ At(c, "elevate") /\ Left(c) = {"elevate", "drop"} /\ outcome[c].result = "pending"
         /\ own'[c] = own[c] /\ wiring'[c] = wiring[c]
         /\ \/ Rewrite(c) /\ child'[c] = child[c] /\ outcome'[c] = outcome[c]
            \/ /\ RefuseElevation(c) \/ LaunchRunas(c)
               /\ Left(c)' = {"drop"} /\ cmd'[c] = cmd[c]
               /\ outcome'[c].result \in {"pending"} \cup Error
<1>1. TypeOK /\ Course(c) /\ At(c, "elevate")
  BY DEF Inv, CallOK, Course, Stepped
<1>2. Left(c) = {"elevate", "drop"} /\ outcome[c].result = "pending"
  BY <1>1, HeadOpening
<1>3. RefuseElevation(c) \/ Rewrite(c) \/ LaunchRunas(c)
  BY DEF Stepped, Serves
<1>4. own'[c] = own[c] /\ wiring'[c] = wiring[c]
  BY <1>3 DEF RefuseElevation, Rewrite, LaunchRunas, HostOnly
<1>5. CASE Rewrite(c)
  BY <1>1, <1>2, <1>4, <1>5 DEF Rewrite
<1>6. CASE RefuseElevation(c)
  <2>1. cmd' = cmd /\ Fail(c, Verdict(cmd[c], host), <<"drop">>) /\ Verdict(cmd[c], host) \in Error
    BY <1>6 DEF RefuseElevation, HostOnly, Error
  <2>2. Goto(c, <<"drop">>) /\ outcome'[c].result \in Error
    BY <1>1, <2>1 DEF Fail, TypeOK
  <2>3. Left(c)' = {"drop"}
    BY <1>1, <2>2, Going, StoppedRanges
  <2> QED
    BY <1>1, <1>2, <1>4, <1>6, <2>1, <2>2, <2>3
<1>7. CASE LaunchRunas(c)
  <2>1. cmd' = cmd
    BY <1>7 DEF LaunchRunas, HostOnly
  <2> QED
    BY <1>1, <1>2, <1>4, <1>7, <2>1, ConsentMoves
<1> QED
  BY <1>3, <1>5, <1>6, <1>7

(* The helpers of a call whose command stays.                              *)
LEMMA Fixed ==
  ASSUME NEW c, setting' = setting
  PROVE  /\ host' = host /\ (Windows' <=> Windows) /\ Calls' = Calls
         /\ cmd'[c] = cmd[c] =>
              /\ JobRoot(cmd[c])' <=> JobRoot(cmd[c])
              /\ IsRoot(cmd[c])' <=> IsRoot(cmd[c])
              /\ Raw(cmd[c])' <=> Raw(cmd[c])
              /\ FlagsRefused(cmd[c])' <=> FlagsRefused(cmd[c])
              /\ marker_wanted(cmd[c])' <=> marker_wanted(cmd[c])
              /\ ByConsent(c)' <=> ByConsent(c)
BY DEF host, Windows, Calls, JobRoot, IsRoot, Raw, FlagsRefused, marker_wanted, ByConsent

(* What a rewrite keeps of the command, and what the gates have excluded   *)
(* before it.                                                              *)
LEMMA DerivedFacts ==
  ASSUME NEW h \in Machine, NEW k, Configured(k, h.os), h.os # "windows",
         Verdict(k, h) \in {"run_as_is", "wrap", "osascript"}
  PROVE  LET d == Derived(k, h)
         IN /\ DOMAIN d = DOMAIN k /\ d.api = k.api /\ d.mode = k.mode /\ d.flags = {}
            /\ d.fds = DerivedFds(k, d.wrapper)
            /\ ~ d.suppressed => d.wrapper \in {"none", "osascript"}
            /\ d.wrapper \in {"run0", "osascript"} => d.mode = "none"
<1> DEFINE w == Wrapper(k, h)
           d == Derived(k, h)
<1>1. /\ DOMAIN d = DOMAIN k /\ d.api = k.api /\ d.mode = k.mode /\ d.flags = {}
      /\ d.wrapper = w /\ d.fds = DerivedFds(k, w)
      /\ d.suppressed = (w \notin {"none", "osascript"})
  BY DEF Derived, Configured
<1>2. ~ Gate(k, h.os)
  BY DEF Verdict
<1>3. ASSUME w = "run0" PROVE k.mode = "none"
  <2>1. Effective(k.backend, h.avail) = "run0"
    BY <1>3 DEF Wrapper
  <2>2. k.backend = "run0"
    BY <2>1 DEF Effective
  <2>3. ~ is_macos_gui_auto(h.os, k.backend, k.auth)
    BY <2>2 DEF is_macos_gui_auto
  <2> QED
    BY <1>2, <2>2, <2>3 DEF Gate, reject_structural_posix_config
<1>4. ASSUME w = "osascript" PROVE k.mode = "none"
  <2>1. Verdict(k, h) = "osascript"
    <3>1. Effective(k.backend, h.avail) # "osascript"
      BY DEF Effective, Configured, Backend
    <3> QED
      BY <1>4, <3>1 DEF Wrapper
  <2>2. plan(h, k.backend, k.auth) = "osascript"
    BY <2>1 DEF Verdict
  <2>3. Resolve(h, k.backend, k.auth) = "osascript"
    BY <2>2 DEF plan
  <2>4. is_macos_gui_auto(h.os, k.backend, k.auth)
    BY <2>3 DEF Resolve, resolve_posix
  <2> QED
    BY <1>2, <2>4 DEF Gate, reject_structural_gui_config
<1> QED
  BY <1>1, <1>3, <1>4

(* The command a call runs stays the one its request stands for.           *)
LEMMA RequestStays ==
  ASSUME Inv, NEW c \in Calls, NEW s, Stepped(c, s)
  PROVE  RequestOK(c)'
<1>1. setting' = setting /\ host' = host /\ (Windows' <=> Windows) /\ RequestOK(c)
  BY Fixed DEF Stepped, Quiet, Inv, CallOK
<1>2. ASSUME s # "elevate" PROVE RequestOK(c)'
  <2>1. cmd'[c] = cmd[c]
    BY <1>2 DEF Stepped, Quiet
  <2>2. "elevate" \in Left(c)' => "elevate" \in Left(c) /\ outcome'[c].result = outcome[c].result
    BY <1>2, Onward DEF Cleanup
  <2> QED
    BY <1>1, <2>1, <2>2 DEF RequestOK
<1>3. ASSUME s = "elevate", cmd'[c] = cmd[c], Left(c)' = {"drop"} PROVE RequestOK(c)'
  BY <1>1, <1>3 DEF RequestOK
<1>4. ASSUME s = "elevate", Rewrite(c) PROVE RequestOK(c)'
  <2> DEFINE k == cmd[c]
             derived == IF Windows THEN [k EXCEPT !.elevate = FALSE] ELSE Derived(k, host)
  <2>1. TypeOK /\ Course(c) /\ At(c, "elevate") /\ "elevate" \in Left(c)
    BY <1>4, ElevateEnds DEF Inv, CallOK, Course
  <2>2. k = setting.cmd[c] /\ Configured(k, host.os) /\ host \in Machine
    BY <1>1, <2>1, HostOfInv, SpawnAssumption DEF RequestOK, Inv, Calls, host
  <2>3. cmd'[c] = derived /\ Verdict(k, host) \in {"run_as_is", "wrap", "osascript"}
    BY <1>4, <2>1 DEF Rewrite, TypeOK
  <2>4. "elevate" \notin Left(c)'
    BY <1>4, <2>1, HostOfInv, RewriteCourse DEF Fits
  <2>5. CASE Windows
    <3>1. /\ DOMAIN derived = DOMAIN k /\ derived.api = k.api /\ derived.mode = k.mode
          /\ derived.wrapper = "none" /\ derived.fds = k.fds
      BY <2>2, <2>5 DEF Configured
    <3>2. derived.fds = DerivedFds(k, derived.wrapper)
      BY <3>1 DEF DerivedFds
    <3> HIDE DEF derived, k
    <3> QED
      BY <1>1, <2>2, <2>3, <2>4, <2>5, <3>1, <3>2 DEF RequestOK, Configured
  <2>6. CASE ~ Windows
    <3>1. derived = Derived(k, host) /\ host.os # "windows"
      BY <2>6 DEF Windows
    <3> HIDE DEF derived, k
    <3>2. /\ DOMAIN derived = DOMAIN k /\ derived.api = k.api /\ derived.mode = k.mode
          /\ derived.flags = {} /\ derived.fds = DerivedFds(k, derived.wrapper)
          /\ ~ derived.suppressed => derived.wrapper \in {"none", "osascript"}
          /\ derived.wrapper \in {"run0", "osascript"} => derived.mode = "none"
      BY <2>2, <2>3, <3>1, DerivedFacts
    <3> QED
      BY <1>1, <2>2, <2>3, <2>4, <2>6, <3>2 DEF RequestOK, Configured
  <2> QED
    BY <2>5, <2>6
<1> QED
  BY <1>2, <1>3, <1>4, ElevateEnds

(* Behind the runtime check is the whole program, or the elevation.        *)
LEMMA HeadRuntime ==
  ASSUME NEW c, Course(c), At(c, "runtime")
  PROVE  /\ outcome[c].result = "pending"
         /\ \/ Left(c) \subseteq {"runtime", "elevate", "drop"} /\ "elevate" \in Left(c)
            \/ {"lock", "create", "unlock", "drop"} \subseteq Left(c)
<1>1. outcome[c].result = "pending" /\ "runtime" \in Left(c)
  BY HeadOpening
<1>2. CASE "elevate" \in Left(c)
  BY <1>1, <1>2 DEF Course, ScheduleOK
<1>3. CASE "elevate" \notin Left(c)
  BY <1>1, <1>3 DEF Course, PendingOK, Due, Earliest, Latest
<1> QED
  BY <1>1, <1>2, <1>3

(* The steps of a call that has left its program.                          *)
LEMMA StopsAt ==
  ASSUME TypeOK, NEW c \in Calls, NEW e, NEW q, Fail(c, e, q) \/ Goto(c, q)
  PROVE  Left(c)' = Range(q)
BY Going DEF Fail

(* Three of the cleanups neither close nor unlock, for they begin outside  *)
(* the lock; a teardown kills.                                             *)
LEMMA PlainStops ==
  /\ Range(<<"drop">>) \cap {"close", "unlock"} = {}
  /\ Range(<<"wait", "drop">>) \cap {"close", "unlock"} = {}
  /\ \A k : Range(Teardown(k)) \cap {"close", "unlock"} = {} /\ "kill" \in Range(Teardown(k))
BY StoppedRanges DEF Teardown

(* Going on with the program passes the step at hand.                      *)
LEMMA Advances ==
  ASSUME TypeOK, NEW c \in Calls, ScheduleOK(c), NEW s, At(c, s), Goto(c, Tail(todo[c])),
         outcome'[c].result = outcome[c].result
  PROVE  Passed(c, s)
BY Passing DEF Goto, Passed

(* Where a call can end in an error, and which cleanup is then left: the   *)
(* unwinding under the lock, or one of those outside it, with a kill for a *)
(* child that is not yet in its group's hands.                             *)
LEMMA Halts ==
  ASSUME Inv, NEW c \in Calls, NEW s, Stepped(c, s), s \notin {"elevate", "drop"}, ~ Passed(c, s)
  PROVE  /\ Halted(c)
         /\ \/ s \in {"mark", "create"} /\ Left(c)' = Range(Unwound(c))
            \/ /\ s \in {"runtime", "build", "resolve", "attach", "resume", "identify", "adopt",
                         "password", "kill"} \/ (s = "prepare" /\ Windows)
               /\ Left(c)' \cap {"close", "unlock"} = {}
         /\ s \in {"attach", "resume", "identify"} => "kill" \in Left(c)'
<1>1. TypeOK /\ ScheduleOK(c) /\ At(c, s) /\ Serves(c, s) /\ Halted(c)
  BY DEF Inv, CallOK, Stepped
<1>2. ~ Advance(c) /\ ~ (\E r : Reports(c, r))
  BY <1>1, Advances DEF Advance, Reports, TypeOK
<1>3. CASE s \in {"mark", "create"}
  <2>1. \E e : Fail(c, e, Unwound(c))
    BY <1>1, <1>2, <1>3 DEF Serves, Mark, CreateFails, Create
  <2> QED
    BY <1>1, <1>3, <2>1, StopsAt
<1>4. CASE s \in {"runtime", "build", "resolve"}
  <2>1. \E e : Fail(c, e, <<"drop">>)
    BY <1>1, <1>2, <1>4 DEF Serves, Runtime, Build, ResolveEnds
  <2> QED
    BY <1>1, <1>4, <2>1, StopsAt, PlainStops
<1>5. CASE s = "prepare"
  <2>1. (\E e : Fail(c, e, <<"drop">>)) /\ Windows
    BY <1>1, <1>2, <1>5 DEF Serves, PrepareRefused, Prepare, FlagsRefused
  <2> QED
    BY <1>1, <1>5, <2>1, StopsAt, PlainStops
<1>6. CASE s \in {"attach", "resume", "identify"}
  <2>1. \E e : Fail(c, e, Teardown(cmd[c]))
    BY <1>1, <1>2, <1>6 DEF Serves, Attach, AttachUnlisted, Resume, Identify
  <2> QED
    BY <1>1, <1>6, <2>1, StopsAt, PlainStops
<1>7. CASE s \in {"adopt", "password"}
  <2>1. Goto(c, <<"drop">>) \/ Goto(c, <<"wait", "drop">>)
    BY <1>1, <1>2, <1>7 DEF Serves, Adopt, Password, Fail
  <2> QED
    BY <1>1, <1>7, <2>1, Going, PlainStops
<1>8. CASE s = "kill"
  <2>1. Goto(c, <<"drop">>)
    <3>1. Kill(c) \/ KillRefused(c)
      BY <1>1, <1>8 DEF Serves
    <3>2. outcome'[c].result = outcome[c].result
      BY <1>1, <3>1 DEF Kill, KillRefused, Advance, TypeOK
    <3>3. Goto(c, <<"drop">>) \/ Goto(c, Tail(todo[c]))
      BY <3>1 DEF Kill, KillRefused, Advance
    <3> QED
      BY <1>1, <3>2, <3>3, Advances
  <2> QED
    BY <1>1, <1>8, <2>1, Going, PlainStops
<1>9. CASE s \in {"fence", "lock", "close", "release", "unlock", "assign", "wait", "reap"}
  <2>1. Advance(c)
    BY <1>1, <1>9 DEF Serves, Fence, Lock, Close, Release, Unlock, Assign, Wait
  <2> QED
    BY <1>2, <2>1
<1> QED
  BY <1>1, <1>3, <1>4, <1>5, <1>6, <1>7, <1>8, <1>9 DEF Serves

(* Before the elevation a call has opened nothing, and before the creation *)
(* it has no child.                                                        *)
LEMMA UntouchedStays ==
  ASSUME Inv, NEW c \in Calls, NEW s, Stepped(c, s)
  PROVE  UntouchedOK(c)'
<1>1. TypeOK /\ Course(c) /\ UntouchedOK(c) /\ At(c, s) /\ s \in Left(c)
  BY AtFirst DEF Inv, CallOK, Course, Stepped
<1>2. ASSUME s # "elevate", "elevate" \in Left(c)'
      PROVE  own'[c] = own[c] /\ child'[c] = child[c] /\ "elevate" \in Left(c)
  <2>1. "elevate" \in Left(c) \ {s}
    BY <1>2, Onward DEF Cleanup
  <2>2. s = "runtime" \/ s = "drop"
    BY <1>1, <1>2, <2>1 DEF Course, ScheduleOK
  <2>3. s # "drop"
    BY <1>1, <2>1, HeadEnding
  <2>4. Runtime(c)
    BY <2>2, <2>3 DEF Stepped, Serves
  <2> QED
    BY <2>1, <2>4 DEF Runtime
<1>3. ASSUME s # "elevate", "create" \in Left(c)'
      PROVE  child'[c] = child[c] /\ "create" \in Left(c)
  <2>1. "create" \in Left(c) \ {s}
    BY <1>3, Onward DEF Cleanup
  <2>2. s \notin {"attach", "assign", "resume", "adopt", "password", "kill", "wait", "reap", "drop"}
    BY <1>1, <2>1, HeadStarted, HeadEnding DEF Ending
  <2> QED
    BY <1>3, <2>1, <2>2 DEF Stepped, Quiet
<1>4. ASSUME s = "elevate", Rewrite(c), child'[c] = child[c] PROVE UntouchedOK(c)'
  <2>1. "elevate" \notin Left(c)'
    BY <1>1, <1>4, HostOfInv, RewriteCourse DEF Fits
  <2> QED
    BY <1>1, <1>4, <2>1 DEF UntouchedOK
<1>5. ASSUME s = "elevate" PROVE UntouchedOK(c)'
  <2>1. CASE Left(c)' = {"drop"}
    BY <2>1 DEF UntouchedOK
  <2> QED
    BY <1>4, <1>5, <2>1, ElevateEnds
<1> QED
  BY <1>1, <1>2, <1>3, <1>5 DEF UntouchedOK

(* A call that holds an inheritable end is inside the lock: it marks after *)
(* locking and closes before unlocking, on the error path too.             *)
LEMMA EndsStay ==
  ASSUME Inv, NEW c \in Calls, NEW s, Stepped(c, s)
  PROVE  EndsOK(c)'
<1>1. TypeOK /\ Course(c) /\ EndsOK(c) /\ UntouchedOK(c) /\ At(c, s) /\ s \in Left(c)
  BY AtFirst DEF Inv, CallOK, Course, Stepped
<1>2. host' = host /\ (Windows' <=> Windows) /\ Quiet(c, s) /\ Serves(c, s)
  BY Fixed DEF Stepped, Quiet
<1>3. s # "elevate" => ("lock" \in Left(c)' => "lock" \in Left(c))
  BY Onward DEF Cleanup
(* The ends.                                                               *)
<1>4. ASSUME own'[c].ends = "marked", own[c].ends = "marked", s # "elevate"
      PROVE  Windows' /\ "close" \in Left(c)' /\ "lock" \notin Left(c)'
  <2>1. Windows /\ "close" \in Left(c) /\ "lock" \notin Left(c)
    BY <1>1, <1>4 DEF EndsOK
  <2>2. s # "close" /\ s # "drop"
    <3>1. s = "drop" => Left(c) = {"drop"}
      BY <1>1, HeadEnding
    <3>2. s # "close"
      <4> SUFFICES ASSUME s = "close" PROVE FALSE
        OBVIOUS
      <4>1. Close(c)
        BY <1>2 DEF Serves
      <4> QED
        BY <1>1, <1>4, <4>1 DEF Close, TypeOK
    <3> QED
      BY <2>1, <3>1, <3>2
  <2>3. CASE Passed(c, s)
    BY <1>2, <1>3, <1>4, <2>1, <2>2, <2>3 DEF Passed
  <2>4. CASE ~ Passed(c, s)
    <3>1. s \in {"mark", "create"} => Left(c)' = Range(Unwound(c))
      BY <1>4, <2>2, <2>4, Halts
    <3>2. s \in {"mark", "create"}
      <4>1. s \in {"mark", "create", "runtime", "build", "resolve", "prepare", "attach", "resume",
                 "identify", "adopt", "password", "kill"} /\ (s = "prepare" => Windows)
        BY <1>4, <2>2, <2>4, Halts
      <4>2. s # "runtime"
        BY <1>1, <2>1, HeadRuntime
      <4>3. s \notin {"build", "resolve", "prepare"}
        BY <1>1, <2>1, <4>1, HeadPrelude DEF Windows
      <4>4. s \notin {"attach", "resume", "identify", "adopt", "password"}
        BY <1>1, <2>1, HeadStarted
      <4>5. s # "kill"
        BY <1>1, <2>1, HeadEnding DEF Ending
      <4> QED
        BY <4>1, <4>2, <4>3, <4>4, <4>5
    <3> QED
      BY <1>2, <2>1, <3>1, <3>2, StoppedRanges DEF Unwound
  <2> QED
    BY <2>3, <2>4
<1>5. ASSUME own'[c].ends = "marked", own[c].ends # "marked", s # "elevate"
      PROVE  Windows' /\ "close" \in Left(c)' /\ "lock" \notin Left(c)'
  <2>1. s \in {"resolve", "mark", "close", "release", "drop"}
    BY <1>2, <1>5 DEF Quiet
  <2>2. s # "resolve"
    BY <1>1, <1>2, <1>5 DEF Serves, ResolveEnds, TypeOK
  <2>3. s \notin {"close", "release"}
    BY <1>1, <1>2, <1>5 DEF Serves, Close, Release, TypeOK
  <2>4. s # "drop"
    BY <1>1, <1>2, <1>5 DEF Serves, Return, Shut, TypeOK
  <2>5. s = "mark" /\ Mark(c)
    BY <1>2, <2>1, <2>2, <2>3, <2>4 DEF Serves
  <2>6. Windows /\ "close" \in Left(c) /\ "lock" \notin Left(c)
    BY <1>1, <2>5, HeadLocked
  <2>7. CASE Passed(c, s)
    BY <1>2, <2>5, <2>6, <2>7 DEF Passed
  <2>8. CASE ~ Passed(c, s)
    <3>1. Left(c)' = Range(Unwound(c))
      BY <2>5, <2>8, Halts
    <3> QED
      BY <1>2, <2>6, <3>1, StoppedRanges DEF Unwound
  <2> QED
    BY <2>7, <2>8
(* The marker.                                                             *)
<1>6. ASSUME own'[c].marker = "bare", own[c].marker = "bare", s # "elevate"
      PROVE  /\ host'.os = "macos" /\ "fence" \in Left(c)' /\ "unlock" \in Left(c)'
             /\ "lock" \notin Left(c)'
  <2>1. host.os = "macos" /\ "fence" \in Left(c) /\ "unlock" \in Left(c) /\ "lock" \notin Left(c)
    BY <1>1, <1>6 DEF EndsOK
  <2>2. s # "fence" /\ s # "drop" /\ s # "unlock"
    <3>1. s # "drop"
      BY <1>1, <2>1, HeadEnding
    <3>2. s # "unlock"
      BY <1>1, <2>1, HeadReleasing
    <3>3. s # "fence"
      BY <1>1, <1>2, <1>6 DEF Serves, Fence, TypeOK
    <3> QED
      BY <3>1, <3>2, <3>3
  <2>3. CASE Passed(c, s)
    BY <1>2, <1>3, <1>6, <2>1, <2>2, <2>3 DEF Passed
  <2>4. CASE ~ Passed(c, s)
    <3>1. s \in {"mark", "create", "runtime", "build", "resolve", "prepare", "attach", "resume",
               "identify", "adopt", "password", "kill"} /\ (s = "prepare" => Windows)
      BY <1>6, <2>2, <2>4, Halts
    <3>2. s # "runtime"
      BY <1>1, <2>1, HeadRuntime
    <3>3. s \notin {"build", "resolve", "prepare"}
      BY <1>1, <2>1, <3>1, HeadPrelude DEF Windows
    <3>4. s \notin {"attach", "resume", "identify", "adopt", "password"}
      <4>1. s \in {"attach", "resume", "identify", "adopt", "password"} => "fence" \notin Left(c)
        BY <1>1, HeadStarted
      <4> QED
        BY <2>1, <4>1
    <3>5. s # "kill"
      BY <1>1, <2>1, HeadEnding DEF Ending
    <3>6. s # "mark"
      BY <1>1, <2>1, HeadLocked DEF Windows
    <3>7. s # "create"
      BY <1>1, <2>1, HeadCreate
    <3> QED
      BY <3>1, <3>2, <3>3, <3>4, <3>5, <3>6, <3>7
  <2> QED
    BY <2>3, <2>4
<1>7. ASSUME own'[c].marker = "bare", own[c].marker # "bare", s # "elevate"
      PROVE  /\ host'.os = "macos" /\ "fence" \in Left(c)' /\ "unlock" \in Left(c)'
             /\ "lock" \notin Left(c)'
  <2>1. s \in {"prepare", "fence", "release", "drop"}
    BY <1>2, <1>7 DEF Quiet
  <2>2. s \notin {"fence", "release"}
    BY <1>1, <1>2, <1>7 DEF Serves, Fence, Release, Shut, TypeOK
  <2>3. s # "drop"
    BY <1>1, <1>2, <1>7 DEF Serves, Return, Shut, TypeOK
  <2>4. s = "prepare" /\ Prepare(c)
    BY <1>2, <1>7, <2>1, <2>2, <2>3 DEF Serves, PrepareRefused, RefusedOwn
  <2>5. host.os = "macos"
    BY <1>1, <1>7, <2>4 DEF Prepare, Markers, marker_wanted, TypeOK
  <2>6. "fence" \in Left(c) /\ "unlock" \in Left(c) /\ "lock" \notin Left(c)
    BY <1>1, <2>4, <2>5, HeadLocked
  <2>7. Passed(c, s)
    BY <2>4, <2>5, Halts DEF Windows
  <2> QED
    BY <1>2, <2>4, <2>5, <2>6, <2>7 DEF Passed
<1>8. CASE s = "elevate"
  <2>1. own'[c] = own[c] /\ "elevate" \in Left(c)
    BY <1>8, ElevateEnds
  <2> QED
    BY <1>1, <2>1 DEF EndsOK, UntouchedOK
<1> QED
  BY <1>4, <1>5, <1>6, <1>7, <1>8 DEF EndsOK

(* What is prepared is what the mode asks for on this system, and flags    *)
(* that the mode refuses never get past the preparation.                   *)
LEMMA PreparedStays ==
  ASSUME Inv, NEW c \in Calls, NEW s, Stepped(c, s)
  PROVE  PreparedOK(c)'
<1>1. TypeOK /\ Course(c) /\ PreparedOK(c) /\ UntouchedOK(c) /\ At(c, s) /\ s \in Left(c)
  BY AtFirst DEF Inv, CallOK, Course, Stepped
<1>2. host' = host /\ (Windows' <=> Windows) /\ Quiet(c, s) /\ Serves(c, s) /\ setting' = setting
  BY Fixed DEF Stepped, Quiet
<1>3. ASSUME s # "elevate" PROVE PreparedOK(c)'
  <2>1. /\ cmd'[c] = cmd[c]
        /\ IsRoot(cmd[c])' <=> IsRoot(cmd[c])
        /\ FlagsRefused(cmd[c])' <=> FlagsRefused(cmd[c])
        /\ marker_wanted(cmd[c])' <=> marker_wanted(cmd[c])
    BY <1>2, <1>3, Fixed DEF Quiet
  <2>2. CASE s = "prepare" /\ Prepare(c)
    <3>1. /\ own'[c].leaf \in Leaves(cmd[c]) /\ own'[c].marker \in Markers(cmd[c])
          /\ ~ FlagsRefused(cmd[c])
      BY <1>1, <2>2 DEF Prepare, TypeOK
    <3>2. own'[c].leaf = "made" => host.os = "linux" /\ IsRoot(cmd[c]) /\ cmd[c].mode = "strongest"
      BY <3>1 DEF Leaves
    <3>3. own'[c].marker # "none" => marker_wanted(cmd[c])
      BY <3>1 DEF Markers
    <3> QED
      BY <1>2, <2>1, <3>1, <3>2, <3>3 DEF PreparedOK
  <2>3. CASE s = "prepare" /\ PrepareRefused(c)
    <3>1. own' = own /\ outcome'[c].result = "Unsupported"
      BY <1>1, <2>3 DEF PrepareRefused, RefusedOwn, Fail, TypeOK
    <3> QED
      BY <1>1, <1>2, <2>1, <3>1 DEF PreparedOK
  <2>4. CASE s # "prepare"
    <3>1. own'[c].leaf = "made" => own[c].leaf = "made"
      <4>1. CASE s = "attach"
        BY <1>1, <1>2, <4>1 DEF Serves, Attach, AttachUnlisted, DropLeaf, Rmdir, TypeOK
      <4>2. CASE s = "drop"
        BY <1>1, <1>2, <4>2 DEF Serves, Return, Rmdir, TypeOK
      <4> QED
        BY <1>2, <2>4, <4>1, <4>2 DEF Quiet
    <3>2. own'[c].marker # "none" => own[c].marker # "none"
      <4>1. CASE s \in {"fence", "release"}
        BY <1>1, <1>2, <4>1 DEF Serves, Fence, Release, Shut, TypeOK
      <4>2. CASE s = "drop"
        BY <1>1, <1>2, <4>2 DEF Serves, Return, Shut, TypeOK
      <4> QED
        BY <1>2, <2>4, <4>1, <4>2 DEF Quiet
    <3>3. own'[c].cleared = own[c].cleared
      BY <1>2, <2>4 DEF Quiet
    <3>4. outcome'[c].result = "pending" /\ Left(c)' \cap {"elevate", "prepare"} = {}
            => ~ FlagsRefused(cmd[c])
      <4> SUFFICES ASSUME outcome'[c].result = "pending", Left(c)' \cap {"elevate", "prepare"} = {}
                   PROVE  ~ FlagsRefused(cmd[c])
        OBVIOUS
      <4>1. Left(c)' = Left(c) \ {s} /\ outcome[c].result = "pending"
        BY <1>3, Onward
      <4>2. Left(c) \cap {"elevate", "prepare"} = {}
        BY <1>3, <2>4, <4>1
      <4> QED
        BY <1>1, <4>1, <4>2 DEF PreparedOK
    <3> QED
      BY <1>1, <1>2, <2>1, <3>1, <3>2, <3>3, <3>4 DEF PreparedOK
  <2> QED
    BY <1>2, <2>2, <2>3, <2>4 DEF Serves
<1>4. ASSUME s = "elevate" PROVE PreparedOK(c)'
  <2>1. own'[c] = own[c] /\ "elevate" \in Left(c)
    BY <1>4, ElevateEnds
  <2>2. own'[c].leaf = "none" /\ own'[c].marker = "none" /\ ~ own'[c].cleared
    BY <1>1, <2>1 DEF UntouchedOK
  <2>3. ASSUME outcome'[c].result = "pending", Left(c)' \cap {"elevate", "prepare"} = {}
        PROVE  ~ FlagsRefused(cmd[c])'
    <3>1. ~ Rewrite(c)
      BY <1>1, <2>3, HostOfInv, RewriteCourse DEF Fits
    <3>2. (RefuseElevation(c) \/ LaunchRunas(c)) /\ cmd'[c] = cmd[c]
      BY <1>4, <3>1, ElevateEnds
    <3>3. ~ RefuseElevation(c)
      BY <1>1, <2>3 DEF RefuseElevation, Fail, TypeOK, Refusal
    <3>4. Verdict(cmd[c], host) = "uac"
      BY <3>2, <3>3 DEF LaunchRunas
    <3>5. ~ Gate(cmd[c], host.os)
      BY <3>4 DEF Verdict
    <3>6. ~ FlagsRefused(cmd[c])
      <4> SUFFICES ASSUME Windows PROVE cmd[c].flags \cap {"breakaway", "reserved"} = {}
        BY DEF FlagsRefused
      <4>1. host.os = "windows"
        BY DEF Windows
      <4>2. ~ reject_unsupported_config(cmd[c])
        BY <3>5, <4>1 DEF Gate, is_macos_gui_auto, reject_unsupported_config
      <4> HIDE DEF Windows
      <4> QED
        BY <4>2 DEF reject_unsupported_config
    <3> QED
      BY <1>2, <3>2, <3>6, Fixed
  <2> QED
    BY <2>2, <2>3 DEF PreparedOK
<1> QED
  BY <1>3, <1>4

(* The wrapper's password on its stdin leaves redirections that a caller   *)
(* could have configured.                                                  *)
LEMMA DerivedRedirections ==
  ASSUME NEW k, Redirections(k.fds), NEW w
  PROVE  Redirections(DerivedFds(k, w))
<1> DEFINE new == [kind |-> "file", to |-> 0]
           f == [s \in {0} \cup DOMAIN k.fds |-> IF s = 0 THEN new ELSE k.fds[s]]
<1>1. /\ DOMAIN f = {0} \cup DOMAIN k.fds
      /\ \A s \in DOMAIN f : f[s] = IF s = 0 THEN new ELSE k.fds[s]
  OBVIOUS
<1> HIDE DEF f
<1>2. 0 \in Nat /\ 0 <= MaxFd /\ new.kind = "file" /\ new.to = 0 /\ "file" \in Kind
  BY DEF MaxFd, Kind
<1> HIDE DEF new
<1>3. Redirections(f)
  <2>1. DOMAIN f \subseteq Nat
    BY <1>1 DEF Redirections
  <2>2. ASSUME NEW s \in DOMAIN f
        PROVE  /\ s <= MaxFd /\ f[s].kind \in Kind /\ f[s].to \in Nat
               /\ f[s].kind # "merge" => f[s].to = s
    <3>1. CASE s = 0
      BY <1>1, <1>2, <2>2, <3>1
    <3>2. CASE s # 0
      <4>1. s \in DOMAIN k.fds /\ f[s] = k.fds[s]
        BY <1>1, <2>2, <3>2
      <4> QED
        BY <4>1 DEF Redirections
    <3> QED
      BY <3>1, <3>2
  <2> QED
    BY <2>1, <2>2 DEF Redirections
<1> QED
  BY <1>3 DEF DerivedFds, f, new

(* The ends that each backend resolves, by the theorems above.             *)
LEMMA ResolvesFaithfully ==
  ASSUME NEW k, Redirections(k.fds), k.api \in {"sync", "async"}
  PROVE  LET w == IF Raw(k) /\ ~ ensure_fd_table_fits(k.fds) THEN Refused ELSE Wiring(k)
         IN /\ w.ok = (Possible(k.fds) /\ (Raw(k) => Encodable(k.fds)))
            /\ w.ok => Faithful(k.fds, w)
            /\ w.ok \in BOOLEAN
<1> DEFINE w == IF Raw(k) /\ ~ ensure_fd_table_fits(k.fds) THEN Refused ELSE Wiring(k)
<1>0. Possible(k.fds) \in BOOLEAN /\ Encodable(k.fds) \in BOOLEAN
  BY DEF Possible, Encodable
<1>1. Faithful(k.fds, Wiring(k))
  <2>1. Windows /\ ~ Raw(k) => High(k.fds) = {}
    BY DEF Raw, routes_to_raw_backend
  <2>2. CASE k.api = "sync" /\ Windows /\ ~ Raw(k)
    <3>1. Wiring(k) = SyncStdWiring(k.fds)
      BY <2>2 DEF Wiring
    <3> QED
      BY <2>1, <2>2, <3>1, SyncStdIsFaithful
  <2>3. CASE k.api = "sync" /\ ~ (Windows /\ ~ Raw(k))
    <3>1. Wiring(k) = SyncWiring(k.fds)
      BY <2>3 DEF Wiring
    <3> QED
      BY <3>1, SyncIsFaithful
  <2>4. CASE k.api = "async" /\ Raw(k)
    <3>1. Wiring(k) = resolve_raw_ends(k.fds)
      BY <2>4 DEF Wiring
    <3> QED
      BY <3>1, RawIsFaithful
  <2>5. CASE k.api = "async" /\ ~ Raw(k)
    <3>1. Wiring(k) = AsyncWiring(k.fds, High(k.fds))
      BY <2>1, <2>5 DEF Wiring
    <3> QED
      BY <3>1, AsyncIsFaithful
  <2> QED
    BY <2>2, <2>3, <2>4, <2>5
<1>2. CASE Raw(k) /\ ~ ensure_fd_table_fits(k.fds)
  <2>1. w = Refused /\ w.ok = FALSE
    BY <1>2 DEF Refused
  <2>2. ~ Encodable(k.fds)
    BY <1>2, TablesFit
  <2> QED
    BY <1>2, <2>1, <2>2
<1>3. CASE ~ (Raw(k) /\ ~ ensure_fd_table_fits(k.fds))
  <2>1. w = Wiring(k)
    BY <1>3
  <2>2. w.ok = Possible(k.fds)
    BY <1>1, <2>1 DEF Faithful
  <2>3. Raw(k) => Encodable(k.fds)
    BY <1>3, TablesFit
  <2> HIDE DEF w
  <2>4. w.ok = (Possible(k.fds) /\ (Raw(k) => Encodable(k.fds)))
    BY <1>0, <2>2, <2>3
  <2> QED
    BY <1>0, <1>1, <2>1, <2>2, <2>4 DEF w
<1> QED
  BY <1>2, <1>3

(* A call that goes on has resolved its ends, faithfully.                  *)
LEMMA WiringStays ==
  ASSUME Inv, NEW c \in Calls, NEW s, Stepped(c, s)
  PROVE  WiringOK(c)' /\ wiring'[c].ok \in BOOLEAN /\ DOMAIN wiring'[c] = DOMAIN wiring[c]
<1>1. TypeOK /\ Course(c) /\ WiringOK(c) /\ UntouchedOK(c) /\ RequestOK(c) /\ At(c, s) /\ s \in Left(c)
  BY AtFirst DEF Inv, CallOK, Course, Stepped
<1>2. host' = host /\ (Windows' <=> Windows) /\ Quiet(c, s) /\ Serves(c, s) /\ setting' = setting
  BY Fixed DEF Stepped, Quiet
<1>3. ASSUME s # "elevate"
      PROVE  cmd'[c] = cmd[c] /\ (Raw(cmd[c])' <=> Raw(cmd[c])) /\ (ByConsent(c)' <=> ByConsent(c))
  BY <1>2, <1>3, Fixed DEF Quiet
(* Only resolve changes what was resolved.                                 *)
<1>4. ASSUME s # "resolve"
      PROVE  /\ wiring'[c].ok = wiring[c].ok /\ wiring'[c].child = wiring[c].child
             /\ wiring'[c].parent = wiring[c].parent /\ DOMAIN wiring'[c] = DOMAIN wiring[c]
  <2>1. CASE s = "create" /\ Create(c)
    <3>1. ~ Clobbered(c)
      BY DEF Clobbered, Hooks
    <3> QED
      BY <1>1, <2>1, <3>1 DEF Create, TypeOK
  <2>2. CASE s = "create" /\ CreateFails(c)
    BY <2>2 DEF CreateFails, HostOnly
  <2>3. CASE s # "create"
    BY <1>2, <1>4, <2>3 DEF Quiet
  <2> QED
    BY <1>2, <2>1, <2>2, <2>3 DEF Serves
<1>5. CASE s = "resolve"
  <2> DEFINE k == cmd[c]
             w == IF Raw(k) /\ ~ ensure_fd_table_fits(k.fds) THEN Refused ELSE Wiring(k)
  <2>1. Redirections(k.fds) /\ k.api \in {"sync", "async"}
    <3>1. Configured(setting.cmd[c], host.os)
      BY SpawnAssumption DEF Inv, Calls, host
    <3>2. Redirections(setting.cmd[c].fds)
      BY <3>1 DEF Configured
    <3> QED
      BY <1>1, <3>2, DerivedRedirections DEF RequestOK
  <2>2. /\ w.ok = (Possible(k.fds) /\ (Raw(k) => Encodable(k.fds)))
        /\ w.ok => Faithful(k.fds, w)
        /\ w.ok \in BOOLEAN
    BY <2>1, ResolvesFaithfully
  <2>5. /\ wiring' = [wiring EXCEPT ![c] = w] /\ own' = [own EXCEPT ![c].ends = "open"]
        /\ ~ w.ok => Fail(c, "Unsupported", <<"drop">>)
    BY <1>2, <1>5 DEF Serves, ResolveEnds
  <2>6. DOMAIN w = {"ok", "child", "parent"}
    <3>1. \A a, b : DOMAIN Wired(a, b) = {"ok", "child", "parent"}
      BY DEF Wired
    <3>2. DOMAIN Refused = {"ok", "child", "parent"}
      BY DEF Refused
    <3> QED
      BY <3>1, <3>2 DEF Wiring, SyncStdWiring, SyncWiring, resolve_stdio, resolve_raw_ends, AsyncWiring
  <2> HIDE DEF w
  <2>3. /\ wiring'[c] = w /\ own'[c].ends = "open"
        /\ ~ w.ok => outcome'[c].result = "Unsupported" /\ Left(c)' = Range(<<"drop">>)
    <3>2. wiring'[c] = w /\ own'[c].ends = "open"
      <4>1. c \in DOMAIN wiring /\ c \in DOMAIN own
        BY <1>1 DEF TypeOK
      <4>2. own[c] \in [ends : {"none", "open", "marked", "closed"},
                        marker : {"none", "bare", "fenced", "closed"},
                        leaf : {"none", "made", "removed", "forgotten", "busy"}, cleared : BOOLEAN]
        BY <1>1 DEF TypeOK
      <4> QED
        BY <2>5, <4>1, <4>2
    <3>3. ~ w.ok => outcome'[c].result = "Unsupported" /\ Left(c)' = Range(<<"drop">>)
      <4> SUFFICES ASSUME Fail(c, "Unsupported", <<"drop">>)
                   PROVE  outcome'[c].result = "Unsupported" /\ Left(c)' = Range(<<"drop">>)
        BY <2>5
      <4>1. outcome'[c].result = "Unsupported"
        BY <1>1 DEF Fail, TypeOK
      <4>2. Left(c)' = Range(<<"drop">>)
        BY <1>1, StopsAt
      <4> QED
        BY <4>1, <4>2
    <3> QED
      BY <3>2, <3>3
  <2> QED
    BY <1>1, <1>2, <1>3, <1>5, <2>2, <2>3, <2>6, StoppedRanges DEF WiringOK, TypeOK
<1>6. CASE s \notin {"elevate", "resolve"}
  <2>1. own'[c].ends # "none" <=> own[c].ends # "none" \/ s = "mark"
    <3>1. s = "mark" => own'[c].ends = "marked"
      BY <1>1, <1>2 DEF Serves, Mark, TypeOK
    <3>2. s \in {"close", "release"} => own'[c].ends # "none"
      BY <1>1, <1>2 DEF Serves, Close, Release, TypeOK
    <3>3. s \in {"close", "release"} => own[c].ends # "none"
      <4> SUFFICES ASSUME s \in {"close", "release"} PROVE own[c].ends # "none"
        OBVIOUS
      <4>1. Left(c) \cap {"elevate", "resolve"} = {}
        BY <1>1, HeadReleasing
      <4>2. outcome[c].result # "pending" => s = "close"
        BY <1>1 DEF Course, FailingOK, Cleanup
      <4> QED
        BY <1>1, <4>1, <4>2 DEF WiringOK
    <3>4. s = "drop" => own'[c].ends = Shut(own[c].ends)
      BY <1>1, <1>2 DEF Serves, Return, TypeOK
    <3> QED
      BY <1>2, <1>6, <3>1, <3>2, <3>3, <3>4 DEF Quiet, Shut
  <2>2. s = "mark" => own[c].ends # "none" /\ wiring[c].ok
    <3> SUFFICES ASSUME s = "mark" PROVE own[c].ends # "none" /\ wiring[c].ok
      OBVIOUS
    <3>1. outcome[c].result = "pending" /\ Left(c) \cap {"elevate", "resolve"} = {}
      BY <1>1, HeadLocked
    <3> QED
      BY <1>1, <3>1 DEF WiringOK
  <2>3. own'[c].ends # "none" <=> own[c].ends # "none"
    BY <2>1, <2>2
  <2>4. own[c].ends # "none" =>
          /\ wiring'[c].ok = (Possible(cmd[c].fds) /\ (Raw(cmd[c]) => Encodable(cmd[c].fds)))
          /\ wiring'[c].ok => Faithful(cmd[c].fds, wiring'[c])
    BY <1>1, <1>4, <1>6 DEF WiringOK, Faithful
  <2>5. ASSUME outcome'[c].result \in {"pending", "ok"}, Left(c)' \cap {"elevate", "resolve"} = {}
        PROVE  \/ ByConsent(c) /\ Left(c)' \subseteq {"drop"}
               \/ own[c].ends # "none" /\ wiring[c].ok
    <3>1. outcome[c].result = "pending" /\ Left(c)' \subseteq Left(c)
          /\ Left(c) \subseteq Left(c)' \cup {s}
      BY <1>6, <2>5, Onward
    <3>2. Left(c) \cap {"elevate", "resolve"} = {}
      BY <1>6, <2>5, <3>1
    <3> QED
      BY <1>1, <3>1, <3>2 DEF WiringOK
  <2>6. ASSUME outcome'[c].result # "pending", "close" \in Left(c)'
        PROVE  own[c].ends # "none"
    <3>1. CASE Passed(c, s)
      BY <1>1, <2>6, <3>1 DEF WiringOK, Passed
    <3>2. CASE ~ Passed(c, s)
      <4>0. s # "drop"
        BY <2>6, <1>1, <1>2, ReturnMoves DEF Serves
      <4>1. s \in {"mark", "create"}
        BY <1>6, <2>6, <3>2, <4>0, Halts
      <4>2. outcome[c].result = "pending" /\ Left(c) \cap {"elevate", "resolve"} = {}
        BY <1>1, <4>1, HeadLocked, HeadCreate
      <4> QED
        BY <1>1, <4>1, <4>2 DEF WiringOK
    <3> QED
      BY <3>1, <3>2
  <2> QED
    BY <1>1, <1>2, <1>3, <1>4, <1>6, <2>3, <2>4, <2>5, <2>6 DEF WiringOK, TypeOK
<1>7. CASE s = "elevate"
  <2>1. own'[c] = own[c] /\ wiring'[c] = wiring[c] /\ "elevate" \in Left(c)
    BY <1>7, ElevateEnds
  <2>2. own'[c].ends = "none"
    BY <1>1, <2>1 DEF UntouchedOK
  <2>3. CASE Rewrite(c)
    <3>1. {"resolve"} \subseteq Left(c)' /\ outcome' = outcome /\ outcome[c].result = "pending"
      BY <1>1, <2>3, HostOfInv, RewriteCourse DEF Fits
    <3> QED
      BY <1>1, <2>1, <2>2, <3>1 DEF WiringOK, TypeOK
  <2>4. CASE (RefuseElevation(c) \/ LaunchRunas(c)) /\ Left(c)' = {"drop"}
    <3>1. RefuseElevation(c) => outcome'[c].result \notin {"pending", "ok"}
      BY <1>1 DEF RefuseElevation, Fail, TypeOK, Refusal
    <3>2. LaunchRunas(c) => ByConsent(c)'
      BY <1>1, <1>2, <2>1 DEF LaunchRunas, RequestOK, ByConsent
    <3> QED
      BY <1>1, <2>1, <2>2, <2>4, <3>1, <3>2 DEF WiringOK, TypeOK
  <2> QED
    BY <1>7, <2>3, <2>4, ElevateEnds
<1> QED
  BY <1>5, <1>6, <1>7

(* What becomes of the root as a process, and of its descendant.           *)
Alive == {"suspended", "live"}

(* What a step may make of the root as a process, and of its descendant.   *)
LEMMA ChildChanges ==
  ASSUME TypeOK, NEW c \in Calls, NEW s, Serves(c, s), Quiet(c, s), s \notin {"elevate", "create"}
  PROVE  /\ \/ child'[c].root = child[c].root
            \/ child[c].root \in Alive /\ child'[c].root = "doomed"
            \/ child[c].root = "zombie" /\ child'[c].root = "reaped"
            \/ s = "resume" /\ child'[c].root = "live"
         /\ child'[c].kid = child[c].kid \/ (child[c].kid = "live" /\ child'[c].kid = "killed")
         /\ child'[c].kidIn = child[c].kidIn
         /\ \/ child'[c].rootIn = child[c].rootIn
            \/ /\ s = "assign" /\ child[c].root \in Alive
               /\ child'[c].rootIn = child[c].rootIn \cup {"job"}
<1>0. child[c] \in [root : {"none", "suspended", "live", "doomed", "zombie", "reaped"},
                    kid : {"none", "live", "killed"},
                    rootIn : SUBSET Group, kidIn : SUBSET Group, holds : SUBSET Calls]
      /\ c \in DOMAIN child
  BY DEF TypeOK
<1>1. CASE child'[c] = child[c]
  BY <1>1
<1>2. CASE s = "attach"
  <2>1. child'[c] = child[c] \/ child'[c] = KilledIn(child[c], "leaf")
    BY <1>0, <1>2 DEF Serves, Attach, AttachUnlisted, DropLeaf
  <2> QED
    BY <1>0, <1>1, <2>1 DEF KilledIn, Alive
<1>3. CASE s = "assign"
  <2>1. child' = child \/ (Running(c) /\ child' = [child EXCEPT ![c].rootIn = @ \cup {"job"}])
    BY <1>3 DEF Serves, Assign
  <2> QED
    BY <1>0, <1>3, <2>1 DEF Running, Alive
<1>4. CASE s = "resume"
  <2>1. child' = [child EXCEPT ![c].root = "live"] \/ child'[c] = KilledIn(child[c], "job")
    BY <1>0, <1>4 DEF Serves, Resume, Started
  <2> QED
    BY <1>0, <1>4, <2>1 DEF KilledIn, Alive
<1>5. CASE s \in {"adopt", "password", "kill", "wait", "reap"}
  <2>1. child' = child \/ Collect(c) \/ Doom(c)
    BY <1>5 DEF Serves, Adopt, Password, Kill, KillRefused, Wait
  <2> QED
    BY <1>0, <2>1 DEF Collect, Doom, Running, Alive
<1>6. CASE s = "drop"
  <2>1. \/ child'[c] = child[c]
        \/ child'[c] = KilledIn(child[c], "job")
        \/ child'[c] = KilledIn(KilledIn(child[c], "leaf"), "job")
    BY <1>0, <1>6 DEF Serves, Return
  <2> QED
    BY <1>0, <1>1, <2>1 DEF KilledIn, Alive
<1> QED
  BY <1>1, <1>2, <1>3, <1>4, <1>5, <1>6 DEF Quiet

(* A root that was created suspended is resumed before its call succeeds.  *)
LEMMA RootStays ==
  ASSUME Inv, NEW c \in Calls, NEW s, Stepped(c, s)
  PROVE  RootOK(c)'
<1>1. TypeOK /\ Course(c) /\ RootOK(c) /\ UntouchedOK(c) /\ At(c, s) /\ s \in Left(c)
  BY AtFirst DEF Inv, CallOK, Course, Stepped
<1>2. host' = host /\ (Windows' <=> Windows) /\ Quiet(c, s) /\ Serves(c, s) /\ setting' = setting
  BY Fixed DEF Stepped, Quiet
<1>3. CASE s \notin {"elevate", "create"}
  <2>1. ASSUME "resume" \in Left(c)', "create" \notin Left(c)'
        PROVE  child'[c].root = "suspended"
    <3>1. "resume" \in Left(c) \ {s}
      BY <1>3, <2>1, Onward DEF Cleanup
    <3>2. "create" \notin Left(c)
      <4>1. CASE Passed(c, s)
        BY <1>3, <2>1, <4>1 DEF Passed
      <4>2. CASE ~ Passed(c, s)
        <5>1. s # "drop"
          BY <1>1, <3>1, HeadEnding
        <5>2. Halted(c)
          BY <1>3, <4>2, <5>1, Halts
        <5> QED
          BY <2>1, <5>2 DEF Halted, Cleanup
      <4> QED
        BY <4>1, <4>2
    <3>3. child[c].root = "suspended"
      BY <1>1, <3>1, <3>2 DEF RootOK
    <3>4. s \notin {"attach", "adopt", "password", "kill", "wait", "reap", "drop"}
      BY <1>1, <3>1, HeadStarted, HeadEnding DEF Ending
    <3>5. s = "assign" => child'[c].root = child[c].root
      BY <1>1, <1>2 DEF Serves, Assign, TypeOK
    <3> QED
      BY <1>2, <1>3, <3>1, <3>3, <3>4, <3>5 DEF Quiet
  <2>2. ASSUME child'[c].root = "suspended", outcome'[c].result \in {"pending", "ok"}
        PROVE  "resume" \in Left(c)'
    <3>1. child[c].root = "suspended"
      BY <1>1, <1>2, <1>3, <2>2, ChildChanges
    <3>2. outcome[c].result = "pending"
      BY <1>3, <2>2, Onward
    <3>3. "resume" \in Left(c)
      BY <1>1, <3>1, <3>2 DEF RootOK
    <3>4. s # "drop"
      BY <1>1, <3>3, HeadEnding
    <3>5. Left(c)' = Left(c) \ {s}
      BY <1>3, <2>2, <3>4, Onward
    <3>6. s # "resume"
      <4> SUFFICES ASSUME s = "resume" PROVE FALSE
        OBVIOUS
      <4>1. Resume(c)
        BY <1>2 DEF Serves
      <4>2. outcome'[c].result # "Containment"
        BY <2>2
      <4>3. ~ Fail(c, "Containment", Teardown(cmd[c]))
        BY <1>1, <4>2 DEF Fail, TypeOK
      <4>4. Started(c, "live")
        BY <4>1, <4>3 DEF Resume
      <4> QED
        BY <1>1, <2>2, <4>4 DEF Started, TypeOK
    <3> QED
      BY <3>3, <3>5, <3>6
  <2>3. child'[c].root \in {"none", "suspended"} => child'[c].kid = "none"
    BY <1>1, <1>2, <1>3, ChildChanges DEF RootOK, Alive
  <2> QED
    BY <2>1, <2>2, <2>3 DEF RootOK
<1>4. CASE s = "create"
  <2>1. "create" \in Left(c) /\ child[c].root = "none" /\ child[c].kid = "none"
        /\ outcome[c].result = "pending" /\ (JobRoot(cmd[c]) => "resume" \in Left(c))
    BY <1>1, <1>4, HeadCreate DEF UntouchedOK
  <2>2. CASE CreateFails(c)
    <3>1. child'[c] = child[c]
      BY <2>2 DEF CreateFails
    <3>2. "resume" \notin Left(c)'
      <4>1. \E e : Fail(c, e, Unwound(c))
        BY <2>2 DEF CreateFails
      <4>2. Left(c)' = Range(Unwound(c))
        BY <1>1, <4>1, StopsAt
      <4> QED
        BY <4>2, StoppedRanges DEF Unwound
    <3> QED
      BY <2>1, <3>1, <3>2 DEF RootOK
  <2>3. CASE Create(c)
    <3>1. /\ child'[c].root = IF JobRoot(cmd[c]) THEN "suspended" ELSE "live"
          /\ child'[c].kid = child[c].kid
      BY <1>1, <2>3 DEF Create, TypeOK
    <3>2. Left(c)' = Left(c) \ {"create"}
      BY <1>1, <1>4, <2>3, Passing DEF Create, Advance, Goto, Course
    <3>3. "resume" \in Left(c) => JobRoot(cmd[c])
      BY <1>1 DEF Course, BackendOK
    <3> QED
      BY <2>1, <3>1, <3>2, <3>3 DEF RootOK
  <2> QED
    BY <1>2, <1>4, <2>2, <2>3 DEF Serves
<1>5. CASE s = "elevate"
  <2>1. child[c].root = "none" /\ child[c].kid = "none"
    BY <1>1, <1>5 DEF UntouchedOK
  <2>2. CASE Rewrite(c) /\ child'[c] = child[c]
    <3>1. "create" \in Left(c)'
      BY <1>1, <2>2, HostOfInv, RewriteCourse DEF Fits, Due
    <3> QED
      BY <2>1, <2>2, <3>1 DEF RootOK
  <2>3. CASE (RefuseElevation(c) \/ LaunchRunas(c)) /\ Left(c)' = {"drop"}
    <3>1. child'[c].root # "suspended" /\ child'[c].kid = "none"
      BY <1>1, <2>1, <2>3 DEF RefuseElevation, LaunchRunas, Started, TypeOK
    <3> QED
      BY <2>3, <3>1 DEF RootOK
  <2> QED
    BY <1>5, <2>2, <2>3, ElevateEnds
<1> QED
  BY <1>3, <1>4, <1>5

(* A descendant is in the groups of the root that made it, and a leaf that *)
(* was never made holds nobody.                                            *)
LEMMA KidStays ==
  ASSUME Inv, NEW c \in Calls, NEW s, Stepped(c, s)
  PROVE  KidOK(c)'
<1>1. TypeOK /\ Course(c) /\ RootOK(c) /\ UntouchedOK(c) /\ KidOK(c) /\ At(c, s) /\ s \in Left(c)
  BY AtFirst DEF Inv, CallOK, Course, Stepped
<1>2. host' = host /\ (Windows' <=> Windows) /\ Quiet(c, s) /\ Serves(c, s) /\ setting' = setting
  BY Fixed DEF Stepped, Quiet
<1>3. CASE s \notin {"elevate", "create"}
  <2>1. cmd'[c] = cmd[c]
    BY <1>2, <1>3 DEF Quiet
  <2>2. ASSUME child'[c].kid # "none"
        PROVE  child'[c].kidIn = child[c].kidIn /\ child'[c].rootIn = child[c].rootIn
               /\ child[c].kid # "none"
    <3>1. child[c].kid # "none" /\ child'[c].kidIn = child[c].kidIn
      BY <1>1, <1>2, <1>3, <2>2, ChildChanges
    <3>2. s # "assign"
      <4> SUFFICES ASSUME s = "assign" PROVE FALSE
        OBVIOUS
      <4>1. "resume" \in Left(c) /\ "create" \notin Left(c)
        BY <1>1, HeadStarted
      <4> QED
        BY <1>1, <3>1, <4>1 DEF RootOK
    <3> QED
      BY <1>1, <1>2, <1>3, <3>1, <3>2, ChildChanges
  <2>3. ASSUME own'[c].leaf # "made"
        PROVE  /\ child'[c].kid = "live" => "leaf" \notin child'[c].kidIn
               /\ child'[c].root \in Alive => "leaf" \notin child'[c].rootIn
    <3>1. CASE own[c].leaf # "made"
      <4>1. child'[c].kid = "live" => "leaf" \notin child'[c].kidIn
        BY <1>1, <1>2, <1>3, <3>1, ChildChanges DEF KidOK
      <4>2. child[c].root \in Alive => "leaf" \notin child[c].rootIn
        BY <1>1, <3>1 DEF KidOK, Alive
      <4>3. child'[c].root \in Alive => child[c].root \in Alive
        <5>1. s = "resume" => child[c].root \in Alive
          <6> SUFFICES ASSUME s = "resume" PROVE child[c].root \in Alive
            OBVIOUS
          <6>1. "resume" \in Left(c) /\ "create" \notin Left(c)
            BY <1>1, HeadStarted
          <6> QED
            BY <1>1, <6>1 DEF RootOK, Alive
        <5> QED
          BY <1>1, <1>2, <1>3, <5>1, ChildChanges DEF Alive
      <4>4. "leaf" \in child'[c].rootIn => "leaf" \in child[c].rootIn
        BY <1>1, <1>2, <1>3, ChildChanges
      <4> QED
        BY <4>1, <4>2, <4>3, <4>4
    <3>2. CASE own[c].leaf = "made"
      <4>1. s \in {"prepare", "attach", "drop"}
        BY <1>2, <1>3, <2>3, <3>2 DEF Quiet
      <4>2. CASE s = "prepare"
        <5>1. "create" \in Left(c)
          BY <1>1, <4>2, HeadPrelude, HeadLocked
        <5>2. child'[c] = child[c]
          BY <1>2, <4>2 DEF Quiet
        <5> QED
          BY <1>1, <5>1, <5>2 DEF UntouchedOK, Alive
      <4>3. CASE s = "attach"
        <5>1. AttachUnlisted(c)
          BY <1>2, <2>3, <3>2, <4>3 DEF Serves, Attach
        <5>2. child'[c] = KilledIn(child[c], "leaf")
          BY <1>1, <5>1 DEF AttachUnlisted, DropLeaf, TypeOK
        <5> QED
          BY <1>1, <5>2 DEF KilledIn, Alive, TypeOK
      <4>4. CASE s = "drop"
        <5>1. Return(c)
          BY <1>2, <4>4 DEF Serves
        <5>2. outcome[c].result # "pending"
          BY <1>1, <2>3, <3>2, <5>1 DEF Return, TypeOK
        <5>3. child'[c] = KilledIn(KilledIn(child[c], "leaf"), "job")
          BY <1>1, <3>2, <5>1, <5>2 DEF Return, TypeOK
        <5> QED
          BY <1>1, <5>3 DEF KilledIn, Alive, TypeOK
      <4> QED
        BY <4>1, <4>2, <4>3, <4>4
    <3> QED
      BY <3>1, <3>2
  <2> QED
    BY <1>1, <2>1, <2>2, <2>3 DEF KidOK, Alive
<1>4. CASE s = "create"
  <2>1. "create" \in Left(c) /\ child[c].root = "none" /\ child[c].kid = "none"
    BY <1>1, <1>4 DEF UntouchedOK
  <2>2. own'[c].leaf = own[c].leaf
    BY <1>2, <1>4 DEF Quiet
  <2>3. CASE CreateFails(c)
    <3>1. child'[c] = child[c]
      BY <2>3 DEF CreateFails
    <3> QED
      BY <2>1, <3>1 DEF KidOK
  <2>4. CASE Create(c)
    <3>1. PICK placed \in Placements(c) :
            child'[c].rootIn = Joins(c, placed) /\ child'[c].kid = child[c].kid
      BY <1>1, <2>4 DEF Create, TypeOK
    <3>2. own[c].leaf # "made" => ~ placed
      BY <3>1 DEF Placements
    <3>3. own[c].leaf # "made" => "leaf" \notin Joins(c, placed)
      BY <3>2 DEF Joins, Posix
    <3> QED
      BY <2>1, <2>2, <3>1, <3>3 DEF KidOK
  <2> QED
    BY <1>2, <1>4, <2>3, <2>4 DEF Serves
<1>5. CASE s = "elevate"
  <2>1. child[c].root = "none" /\ child[c].kid = "none" /\ child[c].rootIn = {}
    BY <1>1, <1>5 DEF UntouchedOK
  <2>2. child'[c].kid = "none" /\ child'[c].rootIn = {}
    <3>1. CASE child'[c] = child[c]
      BY <2>1, <3>1
    <3>2. CASE LaunchRunas(c)
      <4>1. child' = child \/ \E r \in {"live", "doomed"} : Started(c, r)
        BY <3>2 DEF LaunchRunas
      <4>2. child'[c].kid = child[c].kid /\ child'[c].rootIn = child[c].rootIn
        BY <1>1, <4>1 DEF Started, TypeOK
      <4> QED
        BY <2>1, <4>2
    <3>3. CASE RefuseElevation(c)
      BY <3>1, <3>3 DEF RefuseElevation
    <3> QED
      BY <1>5, <3>1, <3>2, <3>3, ElevateEnds
  <2> QED
    BY <2>2 DEF KidOK
<1> QED
  BY <1>3, <1>4, <1>5

(* A set of numbers that has a member has a least one.                     *)
LEMMA LeastMember ==
  ASSUME NEW S \in SUBSET Nat, S # {}
  PROVE  \E m \in S : \A n \in S : m <= n
<1>1. PICK m \in S : \A n \in S : <<n, m>> \notin OpToRel(<, Nat)
  BY NatLessThanWellFounded, WFMin, Zenon
<1>2. \A n \in S : ~ (n < m)
  BY <1>1, Zenon DEF OpToRel
<1>3. \A n \in S : m <= n
  BY <1>2
<1> QED
  BY <1>3

(* The number safe_marker_fd gives the marker is that of no slot the       *)
(* caller has set above 2: dup2 in the child overwrites none.              *)
LEMMA MarkerIsFree ==
  ASSUME NEW fds, Redirections(fds)
  PROVE  safe_marker_fd(fds) \notin High(fds)
<1> DEFINE S == {64} \cup {s + 1 : s \in High(fds)}
           Above == {n \in Nat : \A y \in S : y <= n}
<1>1. \A s \in High(fds) : s \in Nat /\ s <= MaxFd
  BY DEF High, Redirections
<1>2. S \subseteq Nat /\ 64 \in S /\ \A s \in High(fds) : s + 1 \in S
  BY <1>1
<1>3. MaxFd + 1 \in Above
  BY <1>1 DEF MaxFd
<1>4. PICK m \in Above : \A n \in Above : m <= n
  BY <1>3, LeastMember, Zenon
<1>5. m \in S
  <2> SUFFICES ASSUME m \notin S PROVE FALSE
    OBVIOUS
  <2>1. m \in Nat /\ \A y \in S : y \in Nat /\ y <= m /\ y # m
    BY <1>2, <1>4
  <2> HIDE DEF S
  <2>2. m - 1 \in Nat /\ \A y \in S : y <= m - 1
    BY <1>2, <2>1
  <2> QED
    BY <1>4, <2>1, <2>2
<1>6. safe_marker_fd(fds) \in S /\ \A y \in S : safe_marker_fd(fds) >= y
  <2> HIDE DEF S
  <2>1. \E x \in S : \A y \in S : x >= y
    BY <1>2, <1>4, <1>5
  <2>2. Max(S) \in S /\ \A y \in S : Max(S) >= y
    BY <2>1 DEF Max
  <2> QED
    BY <2>2 DEF safe_marker_fd, S
<1> QED
  BY <1>1, <1>2, <1>6

(* The name a report gives is that of a group the root has joined.         *)
LEMMA MechanismIsReal ==
  ASSUME NEW c, Joined(c), cmd[c].mode \in {"none", "strongest", "session", "walk"}
  PROVE  LET r == Mechanism(c)
         IN /\ (r = "None") <=> (cmd[c].mode = "none")
            /\ (r = "CgroupV2" => "leaf" \in child[c].rootIn) =>
                 (r \in DOMAIN Claimed => Claimed[r] \in child[c].rootIn)
            /\ r = "CgroupV2" => cmd[c].mode # "none" /\ "group" \in child[c].rootIn
<1> DEFINE r == Mechanism(c)
           k == cmd[c]
<1>1. /\ DOMAIN Claimed = {"CgroupV2", "JobObject", "FdMarker", "Delegated", "ProcessGroup", "Session"}
      /\ Claimed["CgroupV2"] = "leaf" /\ Claimed["JobObject"] = "job" /\ Claimed["FdMarker"] = "marker"
      /\ Claimed["Delegated"] = "ancestor" /\ Claimed["ProcessGroup"] = "group"
      /\ Claimed["Session"] = "session"
  BY DEF Claimed
<1>2. CASE k.mode = "none"
  <2>1. r = "None"
    BY <1>2 DEF Mechanism
  <2> QED
    BY <1>1, <1>2, <2>1
<1>3. CASE k.mode # "none" /\ setting.nested
  <2>1. r = "Delegated" /\ "ancestor" \in child[c].rootIn
    BY <1>3 DEF Mechanism, Joined
  <2> QED
    BY <1>1, <1>3, <2>1
<1>4. CASE IsRoot(k) /\ own[c].marker # "none"
  <2>1. r = "FdMarker" /\ "marker" \in child[c].rootIn
    BY <1>4 DEF Mechanism, Joined, IsRoot
  <2> QED
    BY <1>1, <1>4, <2>1 DEF IsRoot
<1>5. CASE IsRoot(k) /\ own[c].marker = "none" /\ JobRoot(k)
  <2>1. r = "TreeWalk" \/ (r = "JobObject" /\ "job" \in child[c].rootIn)
    BY <1>5 DEF Mechanism, IsRoot
  <2> QED
    BY <1>1, <1>5, <2>1 DEF IsRoot
<1>6. CASE IsRoot(k) /\ own[c].marker = "none" /\ ~ JobRoot(k)
  <2>1. k.mode # "walk" => ~ Windows
    BY <1>6 DEF JobRoot
  <2>2. CASE k.mode = "walk"
    <3>1. r = "TreeWalk"
      BY <1>6, <2>2 DEF Mechanism, IsRoot
    <3> QED
      BY <1>1, <1>6, <3>1 DEF IsRoot
  <2>3. CASE k.mode = "session"
    <3>1. r = "Session"
      BY <1>6, <2>3 DEF Mechanism, IsRoot
    <3>2. "session" \in child[c].rootIn
      BY <1>6, <2>1, <2>3 DEF Joined, Posix
    <3> QED
      BY <1>1, <1>6, <3>1, <3>2 DEF IsRoot
  <2>4. CASE k.mode = "strongest"
    <3>1. r = "CgroupV2" \/ r = "ProcessGroup"
      BY <1>6, <2>4 DEF Mechanism, IsRoot
    <3>2. "group" \in child[c].rootIn
      BY <1>6, <2>1, <2>4 DEF Joined, Posix
    <3> QED
      BY <1>1, <1>6, <3>1, <3>2 DEF IsRoot
  <2> QED
    BY <1>6, <2>2, <2>3, <2>4 DEF IsRoot
<1> QED
  BY <1>2, <1>3, <1>4, <1>5, <1>6 DEF IsRoot

(* The root joins in the child what its mode asks for, and the report      *)
(* names nothing else.                                                     *)
LEMMA GroupsStay ==
  ASSUME Inv, NEW c \in Calls, NEW s, Stepped(c, s)
  PROVE  GroupsOK(c)'
<1>1. /\ TypeOK /\ Course(c) /\ RootOK(c) /\ UntouchedOK(c) /\ GroupsOK(c) /\ RequestOK(c)
      /\ PreparedOK(c) /\ At(c, s) /\ s \in Left(c)
  BY AtFirst DEF Inv, CallOK, Course, Stepped
<1>2. host' = host /\ (Windows' <=> Windows) /\ Quiet(c, s) /\ Serves(c, s) /\ setting' = setting
  BY Fixed DEF Stepped, Quiet
<1>3. CASE s \notin {"elevate", "create"}
  <2>1. /\ cmd'[c] = cmd[c] /\ (IsRoot(cmd[c])' <=> IsRoot(cmd[c]))
    BY <1>2, <1>3, Fixed DEF Quiet
  <2>2. child[c].rootIn \subseteq child'[c].rootIn
    BY <1>1, <1>2, <1>3, ChildChanges
  <2>3. ASSUME outcome'[c].result = "pending", Left(c)' \cap {"elevate", "create"} = {}
        PROVE  Joined(c)'
    <3>1. outcome[c].result = "pending" /\ Left(c)' = Left(c) \ {s}
      BY <1>3, <2>3, Onward
    <3>2. Left(c) \cap {"elevate", "create"} = {}
      BY <1>3, <2>3, <3>1
    <3>3. Joined(c)
      BY <1>1, <3>1, <3>2 DEF GroupsOK
    <3>4. s # "prepare"
      BY <1>1, <3>2, HeadPrelude, HeadLocked
    <3>5. own'[c].marker # "none" => own[c].marker # "none"
      <4>1. CASE s \in {"fence", "release"}
        BY <1>1, <1>2, <4>1 DEF Serves, Fence, Release, Shut, TypeOK
      <4>2. CASE s = "drop"
        BY <1>1, <1>2, <4>2 DEF Serves, Return, Shut, TypeOK
      <4> QED
        BY <1>2, <3>4, <4>1, <4>2 DEF Quiet
    <3> QED
      BY <1>2, <2>1, <2>2, <3>3, <3>5 DEF Joined, Posix
  <2>4. ASSUME outcome'[c].result \in {"pending", "ok"}, Left(c)' \cap {"elevate", "attach"} = {}
        PROVE  Reported(c)'
    <3>1. outcome[c].result = "pending" /\ Left(c) \subseteq Left(c)' \cup {s}
      BY <1>3, <2>4, Onward
    <3>2. CASE s # "attach"
      <4>1. Left(c) \cap {"elevate", "attach"} = {}
        BY <1>3, <2>4, <3>1, <3>2
      <4>2. Reported(c) /\ outcome'[c].report = outcome[c].report
        BY <1>1, <1>2, <1>3, <3>1, <3>2, <4>1 DEF GroupsOK, Quiet
      <4> QED
        BY <2>1, <2>2, <4>2 DEF Reported, Claimed
    <3>3. CASE s = "attach"
      <4>1. Left(c) \cap {"elevate", "create"} = {}
        BY <1>1, <3>3, HeadStarted
      <4>2. Joined(c)
        BY <1>1, <3>1, <4>1 DEF GroupsOK
      <4>3. cmd[c].mode \in {"none", "strongest", "session", "walk"}
        BY <1>1 DEF RequestOK
      <4>4. CASE Attach(c)
        <5>1. Reports(c, Mechanism(c))
          <6>1. outcome'[c].result # "Unassessable"
            BY <2>4
          <6>2. ~ Fail(c, "Unassessable", Teardown(cmd[c]))
            BY <1>1, <6>1 DEF Fail, TypeOK
          <6> QED
            BY <4>4, <6>2 DEF Attach
        <5>2. outcome'[c].report = Mechanism(c)
          BY <1>1, <5>1 DEF Reports, TypeOK
        <5>3. Mechanism(c) = "CgroupV2" => "leaf" \in child[c].rootIn
          BY <4>4 DEF Attach, Listed
        <5> QED
          BY <2>1, <2>2, <4>2, <4>3, <5>2, <5>3, MechanismIsReal DEF Reported, Claimed
      <4>5. CASE AttachUnlisted(c)
        <5>1. outcome'[c].report = "ProcessGroup" /\ Mechanism(c) = "CgroupV2"
          BY <1>1, <4>5 DEF AttachUnlisted, Reports, TypeOK
        <5>2. cmd[c].mode # "none" /\ "group" \in child[c].rootIn
          BY <4>2, <4>3, <5>1, MechanismIsReal
        <5>3. "ProcessGroup" \in DOMAIN Claimed /\ Claimed["ProcessGroup"] = "group"
          BY DEF Claimed
        <5> QED
          BY <2>1, <2>2, <5>1, <5>2, <5>3 DEF Reported, Claimed
      <4> QED
        BY <1>2, <3>3, <4>4, <4>5 DEF Serves
    <3> QED
      BY <3>2, <3>3
  <2> QED
    BY <2>3, <2>4 DEF GroupsOK
<1>4. CASE s = "create"
  <2>1. /\ cmd'[c] = cmd[c] /\ (IsRoot(cmd[c])' <=> IsRoot(cmd[c]))
        /\ outcome'[c].report = outcome[c].report /\ own'[c].marker = own[c].marker
    BY <1>2, <1>4, Fixed DEF Quiet
  <2>2. child[c].rootIn = {} /\ outcome[c].result = "pending"
    BY <1>1, <1>4, HeadCreate DEF UntouchedOK
  <2>3. CASE CreateFails(c)
    <3>1. PICK e \in CreateErrors(cmd[c]) : Fail(c, e, Unwound(c))
      BY <2>3 DEF CreateFails
    <3>2. e \notin {"pending", "ok"}
      BY <3>1 DEF CreateErrors
    <3>3. outcome'[c].result \notin {"pending", "ok"}
      BY <1>1, <3>1, <3>2 DEF Fail, TypeOK
    <3> QED
      BY <3>3 DEF GroupsOK
  <2>4. CASE Create(c)
    <3>1. PICK placed \in Placements(c) : child'[c].rootIn = Joins(c, placed)
      BY <1>1, <2>4 DEF Create, TypeOK
    <3>2. Left(c)' = Left(c) \ {"create"}
      BY <1>1, <1>4, <2>4, Passing DEF Create, Advance, Goto, Course
    <3>3. Joined(c)'
      <4>1. setting.nested /\ cmd[c].mode # "none" => "ancestor" \in Joins(c, placed)
        <5> SUFFICES ASSUME setting.nested, cmd[c].mode # "none" PROVE "ancestor" \in Joins(c, placed)
          OBVIOUS
        <5>1. ~ FlagsRefused(cmd[c])
          BY <1>1, <1>4, <2>2, HeadCreate DEF PreparedOK
        <5>2. Windows => "breakaway" \notin cmd[c].flags
          BY <5>1 DEF FlagsRefused
        <5>3. "breakaway" \notin cmd[c].flags
          BY <1>1, <5>2 DEF RequestOK
        <5> QED
          BY <5>3 DEF Joins
      <4>2. /\ Posix(cmd[c], "strongest", "group") \subseteq Joins(c, placed)
            /\ Posix(cmd[c], "session", "session") \subseteq Joins(c, placed)
        BY DEF Joins
      <4>3. own[c].marker # "none" => "marker" \in Joins(c, placed)
        <5> SUFFICES ASSUME own[c].marker # "none" PROVE MarkerSurvives(c)
          BY DEF Joins
        <5>1. ~ cmd[c].suppressed
          BY <1>1 DEF PreparedOK, marker_wanted
        <5>2. cmd[c].wrapper \in {"none", "osascript"}
          BY <1>1, <5>1 DEF RequestOK
        <5>3. Configured(setting.cmd[c], host.os)
          BY SpawnAssumption DEF Inv, Calls, host
        <5>4. Redirections(cmd[c].fds)
          BY <1>1, <5>3, DerivedRedirections DEF RequestOK, Configured
        <5> QED
          BY <5>2, <5>4, MarkerIsFree DEF MarkerSurvives
      <4> QED
        BY <1>2, <2>1, <3>1, <4>1, <4>2, <4>3 DEF Joined, Posix
    <3>4. ASSUME Left(c)' \cap {"elevate", "attach"} = {} PROVE Reported(c)'
      <4>1. Left(c) \cap {"elevate", "attach"} = {}
        BY <3>2, <3>4
      <4>2. Reported(c)
        BY <1>1, <2>2, <4>1 DEF GroupsOK
      <4> QED
        BY <2>1, <2>2, <4>2 DEF Reported, Claimed
    <3> QED
      BY <3>3, <3>4 DEF GroupsOK
  <2> QED
    BY <1>2, <1>4, <2>3, <2>4 DEF Serves
<1>5. CASE s = "elevate"
  <2>1. CASE Rewrite(c)
    <3>1. {"create", "attach"} \subseteq Left(c)'
      BY <1>1, <2>1, HostOfInv, RewriteCourse DEF Fits, Due
    <3> QED
      BY <3>1 DEF GroupsOK
  <2>2. CASE RefuseElevation(c)
    <3>1. outcome'[c].result \notin {"pending", "ok"}
      BY <1>1, <2>2 DEF RefuseElevation, Fail, TypeOK, Refusal
    <3> QED
      BY <3>1 DEF GroupsOK
  <2>3. CASE LaunchRunas(c) /\ cmd'[c] = cmd[c] /\ own'[c] = own[c]
    <3>1. Verdict(cmd[c], host) = "uac"
      BY <2>3 DEF LaunchRunas
    <3>2. plan(host, cmd[c].backend, cmd[c].auth) = "uac" /\ ~ Gate(cmd[c], host.os)
      BY <3>1 DEF Verdict
    <3>3. host.os = "windows"
      BY <3>2 DEF plan, Resolve, resolve_posix
    <3>4. cmd[c].mode = "none"
      BY <3>2, <3>3 DEF Gate, is_macos_gui_auto, reject_unsupported_config
    <3>5. own'[c].marker = "none"
      BY <1>1, <1>5, <2>3 DEF UntouchedOK
    <3>6. Joined(c)'
      BY <1>2, <2>3, <3>4, <3>5 DEF Joined, Posix, IsRoot
    <3>7. ASSUME outcome'[c].result \in {"pending", "ok"} PROVE outcome'[c].report = "None"
      <4>1. Reports(c, "None")
        BY <1>1, <3>7, <2>3 DEF LaunchRunas, Fail, TypeOK
      <4> QED
        BY <1>1, <4>1 DEF Reports, TypeOK
    <3>8. ASSUME outcome'[c].result \in {"pending", "ok"} PROVE Reported(c)'
      BY <2>3, <3>4, <3>7, <3>8 DEF Reported, Claimed
    <3> QED
      BY <3>6, <3>8 DEF GroupsOK
  <2> QED
    BY <1>5, <2>1, <2>2, <2>3, ElevateEnds
<1> QED
  BY <1>3, <1>4, <1>5

(* A call that has failed still has its child to end, or has none.         *)
Settled(c) == \/ child[c].root \in {"none", "reaped"}
              \/ Windows /\ child[c].root \in {"doomed", "zombie"}
              \/ Left(c) \cap Ending # {}

(* A call that fails still has its child to end, or has none.              *)
LEMMA FailingSettles ==
  ASSUME Inv, NEW c \in Calls, NEW s, Stepped(c, s), outcome[c].result = "pending",
         outcome'[c].result \notin {"pending", "ok"}, ~ outcome'[c].excused
  PROVE  Settled(c)'
<1>1. TypeOK /\ Course(c) /\ UntouchedOK(c) /\ At(c, s) /\ s \in Left(c)
  BY AtFirst DEF Inv, CallOK, Course, Stepped
<1>2. host' = host /\ (Windows' <=> Windows) /\ Quiet(c, s) /\ Serves(c, s)
  BY Fixed DEF Stepped, Quiet
<1>3. s # "drop"
  BY <1>1, <1>2, ReturnMoves DEF Serves
<1>4. CASE s = "elevate"
  <2>1. child[c].root = "none"
    BY <1>1, <1>4 DEF UntouchedOK
  <2>2. CASE Rewrite(c)
    BY <2>2 DEF Rewrite
  <2>3. CASE RefuseElevation(c)
    BY <2>1, <2>3 DEF RefuseElevation, Settled
  <2>4. CASE LaunchRunas(c)
    <3>1. /\ Verdict(cmd[c], host) = "uac"
          /\ child' = child \/ Reports(c, "None") \/ Started(c, "doomed") \/ outcome'[c].excused
      BY <1>1, <2>4 DEF LaunchRunas, TypeOK
    <3>2. ~ Reports(c, "None")
      BY <1>1 DEF Reports, TypeOK
    <3>3. Windows
      BY <3>1 DEF Windows, Verdict, plan, Resolve, resolve_posix
    <3>4. child'[c].root \in {"none", "doomed"}
      BY <1>1, <2>1, <3>1, <3>2 DEF Started, TypeOK
    <3> QED
      BY <1>2, <3>3, <3>4 DEF Settled
  <2> QED
    BY <1>4, <2>2, <2>3, <2>4, ElevateEnds
<1>5. CASE s # "elevate"
  <2>1. ~ Passed(c, s) /\ s # "kill"
    BY <1>1, HeadEnding DEF Passed, Ending
  <2>2. CASE s \in {"runtime", "build", "resolve", "prepare", "mark"}
    <3>1. s = "prepare" => Windows
      BY <1>3, <1>5, <2>1, Halts
    <3>2. Left(c) \cap {"create", "elevate"} # {}
      BY <1>1, <2>2, <3>1, HeadRuntime, HeadPrelude, HeadLocked DEF Windows
    <3>3. child[c].root = "none" /\ child'[c] = child[c]
      BY <1>1, <1>2, <2>2, <3>2 DEF UntouchedOK, Quiet
    <3> QED
      BY <3>3 DEF Settled
  <2>3. CASE s = "create"
    <3>1. child[c].root = "none"
      BY <1>1, <2>3 DEF UntouchedOK
    <3>2. ~ Create(c)
      BY DEF Create, Advance
    <3>3. child' = child
      BY <1>2, <2>3, <3>2 DEF Serves, CreateFails
    <3> QED
      BY <3>1, <3>3 DEF Settled
  <2>4. CASE s \in {"attach", "resume", "identify"}
    BY <1>3, <1>5, <2>1, <2>4, Halts DEF Settled, Ending
  <2>5. CASE s \in {"adopt", "password"}
    <3>1. ~ Advance(c)
      BY DEF Advance
    <3>2. Fail(c, "AuthFailed", <<"wait", "drop">>)
      BY <1>1, <1>2, <2>5, <3>1 DEF Serves, Adopt, Password, TypeOK
    <3> QED
      BY <1>1, <3>2, StopsAt, StoppedRanges DEF Settled, Ending
  <2> QED
    BY <1>3, <1>5, <2>1, <2>2, <2>3, <2>4, <2>5, Halts
<1> QED
  BY <1>4, <1>5

(* A call that is ending its child goes on until it is reaped, or the job  *)
(* has doomed it.                                                          *)
LEMMA FailedSettles ==
  ASSUME Inv, NEW c \in Calls, NEW s, Stepped(c, s), outcome[c].result # "pending",
         ~ outcome'[c].excused
  PROVE  Settled(c)'
<1>1. TypeOK /\ Course(c) /\ EndedOK(c) /\ At(c, s) /\ s \in Left(c)
  BY AtFirst DEF Inv, CallOK, Course, Stepped
<1>2. host' = host /\ (Windows' <=> Windows) /\ Quiet(c, s) /\ Serves(c, s)
  BY Fixed DEF Stepped, Quiet
<1>3. outcome[c].result # "ok" /\ s \in Cleanup
  BY <1>1 DEF Course, FailingOK
<1>4. CASE s \in {"close", "unlock"}
  <2>1. child'[c] = child[c] /\ ~ outcome[c].excused
    BY <1>2, <1>4 DEF Quiet
  <2>2. Left(c)' = Left(c) \ {s}
    BY <1>4, Halts DEF Passed
  <2>3. Settled(c)
    BY <1>1, <1>3, <2>1 DEF EndedOK, Settled
  <2> QED
    BY <1>2, <1>4, <2>1, <2>2, <2>3 DEF Settled, Ending
<1>5. CASE s = "kill"
  <2>1. Goto(c, Tail(todo[c]))
    <3>1. CASE Kill(c)
      BY <3>1 DEF Kill, Advance
    <3>2. CASE KillRefused(c)
      <4>1. outcome'[c].excused = ~ SyncStd(cmd[c])
        BY <1>1, <3>2 DEF KillRefused, TypeOK
      <4>2. SyncStd(cmd[c])
        BY <4>1, Zenon
      <4> QED
        BY <3>2, <4>2 DEF KillRefused
    <3> QED
      BY <1>2, <1>5, <3>1, <3>2 DEF Serves
  <2>2. Left(c)' = Left(c) \ {"kill"}
    BY <1>1, <1>5, <2>1, Passing DEF Goto, Course
  <2>3. Left(c) \cap {"wait", "reap"} # {}
    BY <1>1, <1>5, HeadEnding DEF Ending
  <2> QED
    BY <2>2, <2>3 DEF Settled, Ending
<1>6. CASE s \in {"wait", "reap"}
  <2>1. child[c].root \in {"zombie", "reaped"} /\ Collect(c)
    BY <1>2, <1>6 DEF Serves, Wait
  <2>2. child'[c].root = "reaped"
    BY <1>1, <2>1 DEF Collect, TypeOK
  <2> QED
    BY <2>2 DEF Settled
<1>7. CASE s = "drop"
  <2>1. Left(c) = {"drop"} /\ ~ outcome[c].excused
    BY <1>1, <1>2, <1>7, HeadEnding DEF Quiet
  <2>2. \/ child[c].root \in {"none", "reaped"}
        \/ Windows /\ child[c].root \in {"doomed", "zombie"}
    BY <1>1, <1>3, <2>1 DEF EndedOK, Ending
  <2>3. \/ child'[c].root = child[c].root
        \/ child[c].root = "zombie" /\ child'[c].root = "reaped"
    BY <1>1, <1>2, <1>7, <2>2, ChildChanges DEF Alive
  <2> QED
    BY <1>2, <2>2, <2>3 DEF Settled
<1> QED
  BY <1>3, <1>4, <1>5, <1>6, <1>7 DEF Cleanup

(* So a call that ended in an error leaves no child, end, marker or leaf   *)
(* behind.                                                                 *)
LEMMA EndedStays ==
  ASSUME Inv, NEW c \in Calls, NEW s, Stepped(c, s)
  PROVE  EndedOK(c)'
<1>1. TypeOK /\ Course(c) /\ At(c, s) /\ s \in Left(c) /\ Serves(c, s) /\ "drop" \in Left(c)
  BY AtFirst DEF Inv, CallOK, Course, Stepped, ScheduleOK
<1>2. outcome'[c].result \notin {"pending", "ok"} /\ ~ outcome'[c].excused => Settled(c)'
  BY FailingSettles, FailedSettles
<1>3. Left(c)' = {} => s = "drop"
  <2>1. CASE s = "elevate"
    <3>1. Rewrite(c) => "drop" \in Left(c)'
      BY <1>1, HostOfInv, RewriteCourse DEF Fits, Due
    <3> QED
      BY <2>1, <3>1, ElevateEnds
  <2>2. CASE s \notin {"elevate", "drop"}
    BY <1>1, <2>2 DEF Stepped, Passed, Halted
  <2> QED
    BY <2>1, <2>2
<1>4. ASSUME outcome'[c].result \notin {"pending", "ok"}, Left(c)' = {}
      PROVE  /\ child'[c].kid = "live" => "job" \notin child'[c].kidIn
             /\ own'[c].ends \in {"none", "closed"} /\ own'[c].marker \in {"none", "closed"}
             /\ own'[c].leaf # "made"
  <2>1. s = "drop"
    BY <1>3, <1>4
  <2>2. Return(c) /\ outcome[c].result # "pending"
    BY <1>1, <1>4, <2>1, ReturnMoves DEF Serves
  <2>3. /\ own'[c].ends = Shut(own[c].ends) /\ own'[c].marker = Shut(own[c].marker)
        /\ own'[c].leaf # "made"
    BY <1>1, <2>2 DEF Return, Rmdir, TypeOK
  <2>4. \E k \in {child[c], KilledIn(child[c], "leaf")} : child'[c] = KilledIn(k, "job")
    BY <1>1, <2>2 DEF Return, TypeOK
  <2>5. child'[c].kid = "live" => "job" \notin child'[c].kidIn
    BY <1>1, <2>4 DEF KilledIn, TypeOK
  <2> QED
    BY <2>3, <2>5 DEF Shut
<1>5. outcome'[c].result = "pending" => Left(c)' # {}
  BY <1>1, <1>3, ReturnMoves DEF Serves
<1> QED
  BY <1>2, <1>4, <1>5 DEF EndedOK, Settled

(* A leaf that is left where it was dropped had somebody killed in it: the *)
(* drop that ends a failed call finds no root running, so it was a         *)
(* descendant, and the attachment falls back on the group.                 *)
LEMMA LeafStays ==
  ASSUME Inv, NEW c \in Calls, NEW s, Stepped(c, s)
  PROVE  LeafOK(c)'
<1>1. /\ TypeOK /\ Course(c) /\ UntouchedOK(c) /\ PreparedOK(c) /\ EndedOK(c) /\ LeafOK(c)
      /\ At(c, s) /\ s \in Left(c) /\ Serves(c, s)
  BY AtFirst DEF Inv, CallOK, Course, Stepped
<1>2. setting' = setting /\ Quiet(c, s) /\ (Can("leaf")' <=> Can("leaf"))
  BY DEF Stepped, Quiet, Can
<1>3. own[c].leaf = "busy" => KilledInLeaf(c) /\ Left(c) \cap Leafless = {} /\ s \notin Leafless
  BY <1>1 DEF LeafOK
<1>9. s # "elevate" => Left(c)' \cap Leafless \subseteq (Left(c) \cap Leafless) \ {s}
  BY Onward DEF Leafless, Cleanup
<1>4. CASE s \notin {"elevate", "create", "prepare", "attach", "drop"}
  <2>1. own'[c].leaf = own[c].leaf /\ outcome'[c].report = outcome[c].report
    BY <1>2, <1>4 DEF Quiet
  <2>2. /\ child[c].kid = "killed" => child'[c].kid = "killed"
        /\ child'[c].kidIn = child[c].kidIn
        /\ "leaf" \in child[c].rootIn => "leaf" \in child'[c].rootIn
    BY <1>1, <1>2, <1>4, ChildChanges
  <2> QED
    BY <1>1, <1>2, <1>3, <1>4, <1>9, <2>1, <2>2 DEF LeafOK, KilledInLeaf
<1>5. CASE s \in {"elevate", "create"}
  <2>1. own[c].leaf # "busy"
    BY <1>3, <1>5 DEF Leafless
  <2>2. own'[c].leaf = own[c].leaf
    BY <1>2, <1>5 DEF Quiet
  <2> QED
    BY <1>1, <1>2, <2>1, <2>2 DEF LeafOK
<1>6. CASE s = "prepare"
  <2>2. own[c].leaf # "busy"
    BY <1>3, <1>6 DEF Leafless
  <2>3. CASE PrepareRefused(c)
    <3>1. own' = own
      BY <2>3 DEF PrepareRefused, RefusedOwn
    <3> QED
      BY <1>1, <1>2, <2>2, <3>1 DEF LeafOK
  <2>4. CASE Prepare(c)
    <3>1. own'[c].leaf \in Leaves(cmd[c])
      BY <1>1, <2>4 DEF Prepare, TypeOK
    <3> QED
      BY <1>2, <3>1 DEF Leaves, LeafOK
  <2> QED
    BY <1>1, <1>6, <2>3, <2>4 DEF Serves
<1>7. CASE s = "attach"
  <2>1. CASE Attach(c)
    <3>1. own' = own /\ own[c].leaf # "busy"
      BY <1>3, <1>7, <2>1 DEF Attach, Leafless
    <3> QED
      BY <1>1, <1>2, <3>1 DEF LeafOK
  <2>2. CASE AttachUnlisted(c)
    <3>1. /\ own'[c].leaf \in Rmdir(c) /\ child'[c] = KilledIn(child[c], "leaf")
          /\ outcome'[c].report = "ProcessGroup"
      BY <1>1, <2>2 DEF AttachUnlisted, DropLeaf, Reports, Goto, TypeOK
    <3>2. own'[c].leaf = "busy" => ~ Vacant(c)
      BY <3>1 DEF Rmdir
    <3>3. ~ Vacant(c) => \/ child'[c].kid = "killed" /\ "leaf" \in child'[c].kidIn
                         \/ "leaf" \in child'[c].rootIn
      BY <1>1, <3>1 DEF Vacant, KilledIn, TypeOK
    <3>4. Left(c)' \cap Leafless = {}
      <4>1. Left(c) \cap {"elevate", "prepare", "create"} = {}
        BY <1>1, <1>7, HeadStarted
      <4> QED
        BY <1>7, <1>9, <4>1 DEF Leafless
    <3> QED
      BY <1>2, <3>1, <3>2, <3>3, <3>4 DEF LeafOK, KilledInLeaf, Rmdir
  <2> QED
    BY <1>1, <1>7, <2>1, <2>2 DEF Serves
<1>8. CASE s = "drop"
  <2>1. Return(c) /\ Left(c) = {"drop"} /\ Left(c)' = {} /\ outcome[c].result # "ok"
    BY <1>1, <1>8, ReturnMoves DEF Serves
  <2>2. /\ outcome'[c].excused = outcome[c].excused /\ outcome'[c].report = outcome[c].report
    BY <1>2, <1>8 DEF Quiet
  <2>3. CASE own'[c].leaf = own[c].leaf
    <3>1. /\ child[c].kid = "killed" => child'[c].kid = "killed"
          /\ child'[c].kidIn = child[c].kidIn /\ child'[c].rootIn = child[c].rootIn
      BY <1>1, <1>2, <1>8, ChildChanges
    <3> QED
      BY <1>1, <1>2, <1>3, <2>1, <2>2, <2>3, <3>1 DEF LeafOK, KilledInLeaf
  <2>4. CASE own'[c].leaf # own[c].leaf
    <3>1. /\ outcome[c].result # "pending" /\ own[c].leaf = "made" /\ own'[c].leaf \in Rmdir(c)
          /\ child'[c] = KilledIn(KilledIn(child[c], "leaf"), "job")
      BY <1>1, <2>1, <2>4 DEF Return, TypeOK
    <3>2. ASSUME own'[c].leaf = "busy", ~ outcome[c].excused
          PROVE  child'[c].kid = "killed" /\ "leaf" \in child'[c].kidIn
      <4>1. ~ Vacant(c) /\ ~ Windows
        BY <1>1, <3>1, <3>2 DEF Rmdir, PreparedOK, Windows
      <4>2. child[c].root \in {"none", "reaped"}
        BY <1>1, <2>1, <3>1, <3>2, <4>1 DEF EndedOK, Ending
      <4>3. child[c].kid = "live" /\ "leaf" \in child[c].kidIn
        BY <4>1, <4>2 DEF Vacant
      <4> QED
        BY <1>1, <3>1, <4>3 DEF KilledIn, TypeOK
    <3>3. own'[c].leaf \in {"removed", "busy"}
      BY <3>1 DEF Rmdir
    <3> QED
      BY <2>1, <2>2, <3>2, <3>3 DEF LeafOK, KilledInLeaf
  <2> QED
    BY <2>3, <2>4
<1> QED
  BY <1>4, <1>5, <1>6, <1>7, <1>8

-----------------------------------------------------------------------------
(* The types of what a step writes.                                        *)
OwnType == [ends : {"none", "open", "marked", "closed"},
            marker : {"none", "bare", "fenced", "closed"},
            leaf : {"none", "made", "removed", "forgotten", "busy"},
            cleared : BOOLEAN]
ChildType == [root : {"none", "suspended", "live", "doomed", "zombie", "reaped"},
              kid : {"none", "live", "killed"},
              rootIn : SUBSET Group, kidIn : SUBSET Group, holds : SUBSET Calls]
OutcomeType == [result : Result, report : Report \cup {"none"}, excused : BOOLEAN]

Written == /\ DOMAIN todo' = Calls
           /\ outcome' \in [Calls -> OutcomeType]

(* The types of what the three ways to go on write.                        *)
LEMMA WritesOutcome ==
  ASSUME TypeOK, NEW c \in Calls
  PROVE  /\ Advance(c) => Written
         /\ \A e \in Error : \A q : Fail(c, e, q) => Written
         /\ \A r \in Report : Reports(c, r) => Written
<1>1. DOMAIN todo = Calls /\ outcome \in [Calls -> OutcomeType] /\ outcome[c] \in OutcomeType
  BY DEF TypeOK, OutcomeType
<1>2. \A q : Goto(c, q) => DOMAIN todo' = Calls
  BY <1>1 DEF Goto
<1>3. Advance(c) => Written
  BY <1>1, <1>2 DEF Advance, Written
<1>4. ASSUME NEW e \in Error, NEW q, Fail(c, e, q) PROVE Written
  <2>1. e \in Result
    BY DEF Error, Result
  <2>2. outcome' = [outcome EXCEPT ![c] = [outcome[c] EXCEPT !.result = e]]
    BY <1>4 DEF Fail
  <2>3. [outcome[c] EXCEPT !.result = e] \in OutcomeType
    BY <1>1, <2>1 DEF OutcomeType
  <2> QED
    BY <1>1, <1>2, <1>4, <2>2, <2>3 DEF Fail, Written
<1>5. ASSUME NEW r \in Report, Reports(c, r) PROVE Written
  <2>1. outcome' = [outcome EXCEPT ![c] = [outcome[c] EXCEPT !.report = r]]
    BY <1>5 DEF Reports
  <2>2. [outcome[c] EXCEPT !.report = r] \in OutcomeType
    BY <1>1 DEF OutcomeType
  <2> QED
    BY <1>1, <1>2, <1>5, <2>1, <2>2 DEF Reports, Written
<1> QED
  BY <1>3, <1>4, <1>5

(* The report is one of the names the public enum has.                     *)
LEMMA MechanismIsReport ==
  ASSUME NEW c, cmd[c].mode \in {"none", "strongest", "session", "walk"}
  PROVE  Mechanism(c) \in Report
<1>1. CASE cmd[c].mode = "none"
  BY <1>1 DEF Mechanism, Report
<1>2. CASE cmd[c].mode = "walk"
  BY <1>2 DEF Mechanism, Report
<1>3. CASE cmd[c].mode = "session"
  BY <1>3 DEF Mechanism, Report
<1>4. CASE cmd[c].mode = "strongest"
  BY <1>4 DEF Mechanism, Report
<1> QED
  BY <1>1, <1>2, <1>3, <1>4

(* The type of the outcomes after a step.                                  *)
LEMMA OutcomeStays ==
  ASSUME Inv, NEW c \in Calls, NEW s, Stepped(c, s)
  PROVE  Written
<1>1. /\ TypeOK /\ Course(c) /\ At(c, s) /\ Serves(c, s)
      /\ cmd[c].mode \in {"none", "strongest", "session", "walk"}
  BY DEF Inv, CallOK, Course, Stepped, RequestOK
<1>2. /\ DOMAIN todo = Calls /\ outcome \in [Calls -> OutcomeType] /\ outcome[c] \in OutcomeType
      /\ \A q : Goto(c, q) => DOMAIN todo' = Calls
  BY <1>1 DEF TypeOK, OutcomeType, Goto
<1>3. {"Io", "Containment", "Unassessable", "AuthFailed", "AuthDeclined", "Untracked",
       "Unsupported"} \subseteq Error /\ "None" \in Report /\ "ProcessGroup" \in Report
  BY DEF Error, Refusal, Report
<1>4. Advance(c) => Written
  BY <1>1, WritesOutcome
<1>5. CASE s \in {"fence", "lock", "close", "release", "unlock", "assign", "wait", "reap"}
  BY <1>1, <1>4, <1>5 DEF Serves, Fence, Lock, Close, Release, Unlock, Assign, Wait
<1>6. CASE s \in {"runtime", "build", "resolve", "prepare", "mark", "resume", "identify"}
  <2>1. \/ Advance(c)
        \/ \E e \in {"Io", "Containment", "Unassessable", "Unsupported"} : \E q : Fail(c, e, q)
    BY <1>1, <1>6 DEF Serves, Runtime, Build, ResolveEnds, PrepareRefused, Prepare, Mark, Resume,
                      Identify
  <2> QED
    BY <1>1, <1>3, <1>4, <2>1, WritesOutcome
<1>7. CASE s = "create"
  <2>1. Advance(c) \/ \E e \in CreateErrors(cmd[c]) : Fail(c, e, Unwound(c))
    BY <1>1, <1>7 DEF Serves, Create, CreateFails
  <2>2. CreateErrors(cmd[c]) \subseteq Error
    BY DEF CreateErrors, Error, Refusal
  <2> QED
    BY <1>1, <1>4, <2>1, <2>2, WritesOutcome
<1>8. CASE s = "attach"
  <2>1. \/ Reports(c, Mechanism(c)) \/ Reports(c, "ProcessGroup")
        \/ Fail(c, "Unassessable", Teardown(cmd[c]))
    BY <1>1, <1>8 DEF Serves, Attach, AttachUnlisted
  <2> QED
    BY <1>1, <1>3, <2>1, MechanismIsReport, WritesOutcome
<1>9. ASSUME NEW e \in {"Io", "AuthFailed", "Untracked"},
             outcome' = [outcome EXCEPT ![c].result = e, ![c].excused = TRUE]
      PROVE  outcome' \in [Calls -> OutcomeType]
  <2>1. e \in Result
    BY DEF Result
  <2>2. outcome' = [outcome EXCEPT ![c] = [outcome[c] EXCEPT !.result = e, !.excused = TRUE]]
    BY <1>2, <1>9 DEF OutcomeType
  <2>3. [outcome[c] EXCEPT !.result = e, !.excused = TRUE] \in OutcomeType
    BY <1>2, <2>1 DEF OutcomeType
  <2> QED
    BY <1>2, <2>2, <2>3
<1>10. CASE s \in {"adopt", "password"}
  <2>1. \/ Advance(c) \/ Fail(c, "AuthFailed", <<"wait", "drop">>)
        \/ /\ Goto(c, <<"drop">>)
           /\ \E e \in {"Io", "AuthFailed"} :
                outcome' = [outcome EXCEPT ![c].result = e, ![c].excused = TRUE]
    BY <1>1, <1>10 DEF Serves, Adopt, Password
  <2> QED
    BY <1>1, <1>2, <1>3, <1>4, <1>9, <2>1, WritesOutcome DEF Written
<1>11. CASE s = "kill"
  <2>1. Advance(c) \/ KillRefused(c)
    BY <1>1, <1>11 DEF Serves, Kill
  <2>2. ASSUME KillRefused(c) PROVE Written
    <3> DEFINE x == ~ SyncStd(cmd[c])
    <3>1. outcome' = [outcome EXCEPT ![c].excused = x] /\ DOMAIN todo' = Calls
      BY <1>2, <2>2 DEF KillRefused
    <3>2. x \in BOOLEAN
      BY Zenon
    <3> HIDE DEF x
    <3>3. [outcome[c] EXCEPT !.excused = x] \in OutcomeType
      BY <1>2, <3>2 DEF OutcomeType
    <3> QED
      BY <1>2, <3>1, <3>3 DEF Written
  <2> QED
    BY <1>4, <2>1, <2>2
<1>12. CASE s = "drop"
  <2>1. /\ DOMAIN todo' = Calls
        /\ outcome' = outcome \/ outcome' = [outcome EXCEPT ![c].result = "ok"]
    BY <1>1, <1>2, <1>12 DEF Serves, Return
  <2>2. [outcome[c] EXCEPT !.result = "ok"] \in OutcomeType
    BY <1>2 DEF OutcomeType, Result
  <2> QED
    BY <1>2, <2>1, <2>2 DEF Written
<1>13. CASE s = "elevate"
  <2>1. CASE Rewrite(c)
    BY <1>2, <2>1 DEF Rewrite, Written
  <2>2. CASE RefuseElevation(c)
    <3>1. Verdict(cmd[c], host) \in Error
      BY <2>2 DEF RefuseElevation, Error
    <3> QED
      BY <1>1, <2>2, <3>1, WritesOutcome DEF RefuseElevation
  <2>3. CASE LaunchRunas(c)
    <3>1. \/ \E e \in {"AuthFailed", "AuthDeclined", "Untracked"} : Fail(c, e, <<"drop">>)
          \/ Reports(c, "None")
          \/ /\ Goto(c, <<"drop">>)
             /\ outcome' = [outcome EXCEPT ![c].result = "Untracked", ![c].excused = TRUE]
      BY <2>3 DEF LaunchRunas
    <3> QED
      BY <1>1, <1>2, <1>3, <1>9, <3>1, WritesOutcome DEF Written
  <2> QED
    BY <1>1, <1>13, <2>1, <2>2, <2>3 DEF Serves
<1> QED
  BY <1>1, <1>5, <1>6, <1>7, <1>8, <1>10, <1>11, <1>12, <1>13 DEF Serves

(* The type of what the calls own after a step.                            *)
LEMMA OwnStays ==
  ASSUME Inv, NEW c \in Calls, NEW s, Stepped(c, s)
  PROVE  DOMAIN cmd' = Calls /\ DOMAIN wiring' = Calls /\ own' \in [Calls -> OwnType]
<1>1. TypeOK /\ At(c, s) /\ Serves(c, s)
  BY DEF Inv, Stepped
<1>2. /\ DOMAIN cmd = Calls /\ DOMAIN wiring = Calls /\ own \in [Calls -> OwnType]
      /\ own[c] \in OwnType
  BY <1>1 DEF TypeOK, OwnType
<1>3. s # "elevate" => cmd' = cmd
  BY <1>1 DEF Serves, Runtime, Build, ResolveEnds, PrepareRefused, Prepare, Fence, Lock, Mark,
       CreateFails, Create, Close, Release, Unlock, Attach, AttachUnlisted, Assign, Resume,
       Identify, Adopt, Password, Kill, KillRefused, Wait, Return, HostOnly
<1>4. s \notin {"resolve", "create"} => wiring' = wiring
  BY <1>1 DEF Serves, Runtime, RefuseElevation, Rewrite, LaunchRunas, Build, PrepareRefused,
       Prepare, Fence, Lock, Mark, Close, Release, Unlock, Attach, AttachUnlisted, Assign, Resume,
       Identify, Adopt, Password, Kill, KillRefused, Wait, Return, HostOnly
<1>5. DOMAIN cmd' = Calls
  <2>1. s = "elevate" => cmd' = cmd \/ \E d : cmd' = [cmd EXCEPT ![c] = d]
    BY <1>1 DEF Serves, RefuseElevation, Rewrite, LaunchRunas, HostOnly
  <2> QED
    BY <1>2, <1>3, <2>1
<1>6. DOMAIN wiring' = Calls
  <2>1. s \in {"resolve", "create"} =>
          wiring' = wiring \/ \E w : wiring' = [wiring EXCEPT ![c] = w]
    BY <1>1 DEF Serves, ResolveEnds, Create, CreateFails, HostOnly
  <2> QED
    BY <1>2, <1>4, <2>1
<1>7. own' \in [Calls -> OwnType]
  <2>1. s \notin {"resolve", "prepare", "fence", "mark", "close", "release", "attach", "drop"} =>
          own' = own
    BY <1>1 DEF Serves, Runtime, RefuseElevation, Rewrite, LaunchRunas, Build, Lock, CreateFails,
         Create, Unlock, Assign, Resume, Identify, Adopt, Password, Kill, KillRefused, Wait
  <2>2. CASE s \in {"resolve", "mark", "close"}
    <3>1. \E e \in {"open", "marked", "closed"} : own' = [own EXCEPT ![c].ends = e]
      BY <1>1, <2>2 DEF Serves, ResolveEnds, Mark, Close
    <3> QED
      BY <1>2, <3>1 DEF OwnType
  <2>3. CASE s = "prepare"
    <3>1. CASE PrepareRefused(c)
      BY <1>2, <3>1 DEF PrepareRefused, RefusedOwn
    <3>2. CASE Prepare(c)
      <4> DEFINE x == Windows /\ cmd[c].mode # "none"
      <4>1. x \in BOOLEAN
        OBVIOUS
      <4>2. \E l \in Leaves(cmd[c]), m \in Markers(cmd[c]) :
               own' = [own EXCEPT ![c].leaf = l, ![c].marker = m, ![c].cleared = x]
        BY <3>2 DEF Prepare
      <4>3. Leaves(cmd[c]) \subseteq {"none", "made", "forgotten"} /\ Markers(cmd[c]) \subseteq {"none", "bare"}
        BY DEF Leaves, Markers
      <4> HIDE DEF x
      <4>4. PICK l \in Leaves(cmd[c]), m \in Markers(cmd[c]) :
              own' = [own EXCEPT ![c].leaf = l, ![c].marker = m, ![c].cleared = x]
        BY <4>2
      <4> DEFINE o1 == [own EXCEPT ![c].leaf = l]
                 o2 == [o1 EXCEPT ![c].marker = m]
                 o3 == [o2 EXCEPT ![c].cleared = x]
      <4>5. own' = o3
        BY <4>4, Zenon
      <4>6. o1 \in [Calls -> OwnType]
        BY <1>2, <4>3 DEF OwnType
      <4> HIDE DEF o1
      <4>7. o2 \in [Calls -> OwnType]
        BY <4>3, <4>6 DEF OwnType
      <4> HIDE DEF o2
      <4>8. o3 \in [Calls -> OwnType]
        BY <4>1, <4>7 DEF OwnType
      <4> QED
        BY <4>5, <4>8
    <3> QED
      BY <1>1, <2>3, <3>1, <3>2 DEF Serves
  <2>4. CASE s = "fence"
    BY <1>1, <1>2, <2>4 DEF Serves, Fence, OwnType
  <2>5. CASE s = "release"
    BY <1>1, <1>2, <2>5 DEF Serves, Release, Shut, OwnType
  <2>6. CASE s = "attach"
    <3>1. own' = own \/ \E l \in {"removed", "busy"} : own' = [own EXCEPT ![c].leaf = l]
      BY <1>1, <2>6 DEF Serves, Attach, AttachUnlisted, DropLeaf, Rmdir
    <3> QED
      BY <1>2, <3>1 DEF OwnType
  <2>7. CASE s = "drop"
    <3>1. \/ own' = [own EXCEPT ![c].ends = Shut(@), ![c].marker = Shut(@)]
          \/ \E l \in {own[c].leaf, "removed", "busy"} :
               own' = [own EXCEPT ![c].ends = Shut(@), ![c].marker = Shut(@), ![c].leaf = l]
      BY <1>1, <2>7 DEF Serves, Return, Rmdir
    <3> QED
      BY <1>2, <3>1 DEF Shut, OwnType
  <2> QED
    BY <1>2, <2>1, <2>2, <2>3, <2>4, <2>5, <2>6, <2>7
<1> QED
  BY <1>5, <1>6, <1>7

(* A call that holds an inheritable end holds the lock.                    *)
Inside(c) == "unlock" \in Left(c) /\ "lock" \notin Left(c)

(* The lock is held by the call that is between locking and unlocking.     *)
LEMMA LockIsHeld ==
  ASSUME TypeOK
  PROVE  \A d \in Calls : lock = d <=> Inside(d)
BY DEF TypeOK, Inside, Left

(* A child is created while no other call has an inheritable end: such a   *)
(* call would hold the lock.                                               *)
LEMMA Isolation ==
  ASSUME Inv, NEW c \in Calls, At(c, "create")
  PROVE  Inherits(c) = {}
<1>1. TypeOK /\ Course(c)
  BY DEF Inv, CallOK, Course
<1>2. lock = c
  BY <1>1, HeadCreate, LockIsHeld DEF Inside
<1>3. ASSUME NEW d \in Calls, own[d].ends = "marked" \/ own[d].marker = "bare"
      PROVE  d = c
  <2>1. Course(d) /\ EndsOK(d)
    BY DEF Inv, CallOK, Course
  <2>2. CASE own[d].marker = "bare"
    BY <1>1, <1>2, <2>1, <2>2, LockIsHeld DEF EndsOK, Inside
  <2>3. CASE own[d].ends = "marked"
    <3>1. "close" \in Left(d) /\ "lock" \notin Left(d)
      BY <2>1, <2>3 DEF EndsOK
    <3>2. "elevate" \notin Left(d)
      BY <2>1, <3>1 DEF Course, ScheduleOK
    <3>3. "unlock" \in Left(d)
      <4>1. CASE outcome[d].result = "pending"
        BY <2>1, <3>1, <3>2, <4>1 DEF Course, PendingOK, Due, Earliest, Latest
      <4>2. CASE outcome[d].result # "pending"
        BY <2>1, <3>1, <4>2 DEF Course, FailingOK
      <4> QED
        BY <4>1, <4>2
    <3> QED
      BY <1>1, <1>2, <3>1, <3>3, LockIsHeld DEF Inside
  <2> QED
    BY <1>3, <2>2, <2>3
<1>4. CASE Windows
  <2>1. host.os # "macos"
    BY <1>4 DEF Windows
  <2>2. Inherits(c) = IF Raw(cmd[c]) THEN {} ELSE {d \in Calls \ {c} : own[d].ends = "marked"}
    BY <1>4, <2>1 DEF Inherits
  <2> QED
    BY <1>3, <2>2
<1>5. CASE ~ Windows /\ host.os = "macos"
  <2>1. Inherits(c) = {d \in Calls \ {c} : own[d].marker = "bare"}
    BY <1>5 DEF Inherits
  <2> QED
    BY <1>3, <2>1
<1>6. CASE ~ Windows /\ host.os # "macos"
  BY <1>6 DEF Inherits
<1> QED
  BY <1>4, <1>5, <1>6

(* A kill keeps the type of a child.                                       *)
LEMMA KilledKeeps ==
  ASSUME NEW k \in ChildType, k.holds = {}, NEW g
  PROVE  KilledIn(k, g) \in ChildType /\ KilledIn(k, g).holds = {}
BY DEF KilledIn, ChildType

(* The type of the children after a step; by isolation none of them holds  *)
(* another's end.                                                          *)
LEMMA ChildStays ==
  ASSUME Inv, NEW c \in Calls, NEW s, Stepped(c, s)
  PROVE  child' \in [Calls -> ChildType] /\ \A d \in Calls : child'[d].holds = {}
<1> DEFINE Intact == child' \in [Calls -> ChildType] /\ \A d \in Calls : child'[d].holds = {}
<1>1. TypeOK /\ At(c, s) /\ Serves(c, s) /\ \A d \in Calls : child[d].holds = {}
  BY DEF Inv, Stepped
<1>2. child \in [Calls -> ChildType] /\ child[c] \in ChildType
  BY <1>1 DEF TypeOK, ChildType
<1>3. ASSUME NEW k \in ChildType, k.holds = {}, child' = [child EXCEPT ![c] = k]
      PROVE  Intact
  BY <1>1, <1>2, <1>3
<1>4. ASSUME NEW r \in {"none", "suspended", "live", "doomed", "zombie", "reaped"},
             child' = [child EXCEPT ![c].root = r]
      PROVE  Intact
  BY <1>1, <1>2, <1>4 DEF ChildType
<1>5. \A g : KilledIn(child[c], g) \in ChildType /\ KilledIn(child[c], g).holds = {}
  BY <1>1, <1>2, KilledKeeps
<1>6. ASSUME child' = child
      PROVE  Intact
  BY <1>1, <1>2, <1>6
<1>7. child' = [child EXCEPT ![c] = KilledIn(child[c], "job")] => Intact
  BY <1>3, <1>5
<1>8. child' = [child EXCEPT ![c] = KilledIn(child[c], "leaf")] => Intact
  BY <1>3, <1>5
<1>9. child' = [child EXCEPT ![c] = KilledIn(KilledIn(child[c], "leaf"), "job")] => Intact
  <2>1. /\ KilledIn(KilledIn(child[c], "leaf"), "job") \in ChildType
        /\ KilledIn(KilledIn(child[c], "leaf"), "job").holds = {}
    BY <1>5, KilledKeeps
  <2> QED
    BY <1>3, <2>1
<1>10. CASE s \in {"runtime", "build", "resolve", "prepare", "fence", "lock", "mark", "close",
                  "release", "unlock", "identify"}
  <2>1. child' = child
    BY <1>1, <1>10 DEF Serves, Runtime, Build, ResolveEnds, PrepareRefused, Prepare, Fence, Lock,
         Mark, Close, Release, Unlock, Identify, HostOnly
  <2> QED
    BY <1>6, <2>1
<1>11. CASE s = "elevate"
  <2>1. child' = child \/ \E r \in {"live", "doomed"} : Started(c, r)
    BY <1>1, <1>11 DEF Serves, RefuseElevation, Rewrite, LaunchRunas
  <2> QED
    BY <1>4, <1>6, <2>1 DEF Started
<1>12. CASE s \in {"adopt", "password", "kill", "wait", "reap"}
  <2>1. child' = child \/ Collect(c) \/ Doom(c)
    BY <1>1, <1>12 DEF Serves, Adopt, Password, Kill, KillRefused, Wait
  <2>2. CASE Collect(c)
    <3>1. child' = [child EXCEPT ![c].root = IF child[c].root = "zombie" THEN "reaped" ELSE child[c].root]
      BY <1>2, <2>2 DEF Collect
    <3>2. (IF child[c].root = "zombie" THEN "reaped" ELSE child[c].root)
             \in {"none", "suspended", "live", "doomed", "zombie", "reaped"}
      BY <1>2 DEF ChildType
    <3> QED
      BY <1>4, <3>1, <3>2
  <2>3. CASE Doom(c)
    <3>1. child' = [child EXCEPT ![c].root = IF Running(c) THEN "doomed" ELSE child[c].root]
      BY <1>2, <2>3 DEF Doom
    <3>2. (IF Running(c) THEN "doomed" ELSE child[c].root)
             \in {"none", "suspended", "live", "doomed", "zombie", "reaped"}
      BY <1>2 DEF ChildType
    <3> QED
      BY <1>4, <3>1, <3>2
  <2> QED
    BY <1>6, <2>1, <2>2, <2>3
<1>13. CASE s = "assign"
  <2>1. child' = child \/ child' = [child EXCEPT ![c].rootIn = @ \cup {"job"}]
    BY <1>1, <1>13 DEF Serves, Assign
  <2>2. ASSUME child' = [child EXCEPT ![c].rootIn = @ \cup {"job"}]
        PROVE  Intact
    BY <1>1, <1>2, <2>2 DEF ChildType, Group
  <2> QED
    BY <1>6, <2>1, <2>2
<1>14. CASE s = "resume"
  <2>1. Started(c, "live") \/ child' = [child EXCEPT ![c] = KilledIn(child[c], "job")]
    BY <1>1, <1>14 DEF Serves, Resume
  <2> QED
    BY <1>4, <1>7, <2>1 DEF Started
<1>15. CASE s = "attach"
  <2>1. child' = child \/ child' = [child EXCEPT ![c] = KilledIn(child[c], "leaf")]
    BY <1>1, <1>15 DEF Serves, Attach, AttachUnlisted, DropLeaf
  <2> QED
    BY <1>6, <1>8, <2>1
<1>16. CASE s = "drop"
  <2>1. \/ child' = child
        \/ \E k \in {child[c], KilledIn(child[c], "leaf")} :
             child' = [child EXCEPT ![c] = KilledIn(k, "job")]
    BY <1>1, <1>16 DEF Serves, Return
  <2> QED
    BY <1>6, <1>7, <1>9, <2>1
<1>17. CASE s = "create"
  <2>1. CASE CreateFails(c)
    BY <1>6, <2>1 DEF CreateFails
  <2>2. CASE Create(c)
    <3>1. PICK placed \in Placements(c) :
            child' = [child EXCEPT ![c].root = IF JobRoot(cmd[c]) THEN "suspended" ELSE "live",
                                   ![c].rootIn = Joins(c, placed), ![c].holds = Inherits(c)]
      BY <2>2 DEF Create
    <3>2. Inherits(c) = {}
      BY <1>1, <1>17, Isolation
    <3>3. Joins(c, placed) \subseteq Group
      BY DEF Joins, Posix, Group
    <3> DEFINE o1 == [child EXCEPT ![c].root = IF JobRoot(cmd[c]) THEN "suspended" ELSE "live"]
               o2 == [o1 EXCEPT ![c].rootIn = Joins(c, placed)]
               o3 == [o2 EXCEPT ![c].holds = Inherits(c)]
    <3>4. child' = o3
      BY <3>1, Zenon
    <3>5. o1 \in [Calls -> ChildType] /\ \A d \in Calls : o1[d].holds = {}
      BY <1>1, <1>2 DEF ChildType
    <3> HIDE DEF o1
    <3>6. o2 \in [Calls -> ChildType] /\ \A d \in Calls : o2[d].holds = {}
      BY <3>3, <3>5 DEF ChildType
    <3> HIDE DEF o2
    <3>7. o3 \in [Calls -> ChildType] /\ \A d \in Calls : o3[d].holds = {}
      BY <3>2, <3>6 DEF ChildType
    <3> QED
      BY <3>4, <3>7
  <2> QED
    BY <1>1, <1>17, <2>1, <2>2 DEF Serves
<1> QED
  BY <1>1, <1>10, <1>11, <1>12, <1>13, <1>14, <1>15, <1>16, <1>17 DEF Serves

(* Only the lock and unlock steps move a call into the locked part and out *)
(* of it.                                                                  *)
LEMMA InsideMoves ==
  ASSUME Inv, NEW c \in Calls, NEW s, Stepped(c, s)
  PROVE  /\ s = "lock" => ~ Inside(c) /\ Inside(c)'
         /\ s = "unlock" => Inside(c) /\ ~ Inside(c)'
         /\ s \notin {"lock", "unlock"} => (Inside(c)' <=> Inside(c))
<1>1. TypeOK /\ Course(c) /\ At(c, s) /\ s \in Left(c) /\ Serves(c, s)
  BY AtFirst DEF Inv, CallOK, Course, Stepped
<1>2. CASE s = "lock"
  <2>1. "unlock" \in Left(c)
    BY <1>1, <1>2, HeadLocked
  <2>2. Left(c)' = Left(c) \ {"lock"}
    BY <1>2, Halts DEF Passed
  <2> QED
    BY <1>1, <1>2, <2>1, <2>2 DEF Inside
<1>3. CASE s = "unlock"
  <2>1. "lock" \notin Left(c)
    BY <1>1, <1>3, HeadReleasing
  <2>2. Left(c)' = Left(c) \ {"unlock"}
    BY <1>3, Halts DEF Passed
  <2> QED
    BY <1>1, <1>3, <2>1, <2>2 DEF Inside
<1>4. CASE s = "elevate"
  <2>1. ~ Inside(c)
    BY <1>4, ElevateEnds DEF Inside
  <2>2. Rewrite(c) => "lock" \in Left(c)'
    BY <1>1, HostOfInv, RewriteCourse DEF Fits, Due
  <2>3. ~ Inside(c)'
    BY <1>4, <2>2, ElevateEnds DEF Inside
  <2> QED
    BY <1>4, <2>1, <2>3
<1>5. CASE s = "drop"
  <2>1. Left(c) = {"drop"} /\ Left(c)' = {}
    BY <1>1, <1>5, ReturnMoves DEF Serves
  <2> QED
    BY <1>5, <2>1 DEF Inside
<1>6. CASE s \notin {"lock", "unlock", "elevate", "drop"} /\ Passed(c, s)
  BY <1>6 DEF Passed, Inside
<1>7. CASE s \notin {"lock", "unlock", "elevate", "drop"} /\ ~ Passed(c, s)
  <2>1. CASE s \in {"mark", "create"} /\ Left(c)' = Range(Unwound(c))
    <3>1. "unlock" \in Left(c) /\ "lock" \notin Left(c)
      BY <1>1, <2>1, HeadLocked, HeadCreate
    <3>2. "unlock" \in Left(c)' /\ "lock" \notin Left(c)'
      BY <2>1, StoppedRanges DEF Unwound
    <3> QED
      BY <1>7, <3>1, <3>2 DEF Inside
  <2>2. CASE /\ \/ s \in {"runtime", "build", "resolve", "attach", "resume", "identify", "adopt",
                          "password", "kill"}
                \/ s = "prepare" /\ Windows
             /\ Left(c)' \cap {"close", "unlock"} = {}
    <3>1. CASE s = "runtime"
      BY <1>1, <1>7, <2>2, <3>1, HeadRuntime DEF Inside
    <3>2. CASE s \in {"build", "resolve"} \/ (s = "prepare" /\ Windows)
      <4>1. "lock" \in Left(c)
        BY <1>1, <3>2, HeadPrelude DEF Windows
      <4> QED
        BY <1>7, <2>2, <4>1 DEF Inside
    <3>3. CASE s \in {"attach", "resume", "identify", "adopt", "password"}
      <4>1. "unlock" \notin Left(c)
        BY <1>1, <3>3, HeadStarted
      <4> QED
        BY <1>7, <2>2, <4>1 DEF Inside
    <3>4. CASE s = "kill"
      <4>1. "unlock" \notin Left(c)
        BY <1>1, <3>4, HeadEnding DEF Ending
      <4> QED
        BY <1>7, <2>2, <4>1 DEF Inside
    <3> QED
      BY <2>2, <3>1, <3>2, <3>3, <3>4
  <2> QED
    BY <1>7, <2>1, <2>2, Halts
<1> QED
  BY <1>2, <1>3, <1>4, <1>5, <1>6, <1>7

(* The lock stays with the call that is in the locked part.                *)
LEMMA LockStays ==
  ASSUME Inv, NEW c \in Calls, NEW s, Stepped(c, s), Apart(c)
  PROVE  \A d \in Calls : lock' = d <=> Inside(d)'
<1>1. TypeOK /\ Serves(c, s) /\ "free" \notin Calls
  BY HostOfInv DEF Inv, Stepped
<1>2. \A d \in Calls : lock = d <=> Inside(d)
  BY <1>1, LockIsHeld
<1>3. \A d \in Calls \ {c} : Inside(d)' <=> Inside(d)
  BY SameLeft DEF Apart, Inside
<1>4. CASE s = "lock"
  <2>1. lock = "free" /\ lock' = c
    BY <1>1, <1>4 DEF Serves, Lock
  <2> QED
    BY <1>1, <1>2, <1>3, <1>4, <2>1, InsideMoves
<1>5. CASE s = "unlock"
  <2>1. lock' = "free"
    BY <1>1, <1>5 DEF Serves, Unlock
  <2>2. lock = c
    BY <1>2, <1>5, InsideMoves
  <2> QED
    BY <1>1, <1>2, <1>3, <1>5, <2>1, <2>2, InsideMoves
<1>6. CASE s \notin {"lock", "unlock"}
  <2>1. lock' = lock
    BY <1>1, <1>6 DEF Serves, Runtime, RefuseElevation, Rewrite, LaunchRunas, Build, ResolveEnds,
       PrepareRefused, Prepare, Fence, Mark, CreateFails, Create, Close, Release, Attach,
       AttachUnlisted, Assign, Resume, Identify, Adopt, Password, Kill, KillRefused, Wait, Return,
       HostOnly
  <2> QED
    BY <1>2, <1>3, <1>6, <2>1, InsideMoves
<1> QED
  BY <1>4, <1>5, <1>6

(* A step of a call keeps the invariant.                                   *)
LEMMA StepKeepsInv ==
  ASSUME Inv, NEW c \in Calls, Step(c)
  PROVE  Inv'
<1>1. PICK s \in StepName : Stepped(c, s)
  BY StepMoves
<1>2. TypeOK /\ Apart(c) /\ setting' = setting /\ Calls' = Calls
  BY StepApart DEF Inv, Apart, Calls
<1>3. CallOK(c)'
  <2>1. ScheduleOK(c)' /\ PendingOK(c)' /\ FailingOK(c)' /\ BackendOK(c)'
    BY <1>1 DEF Stepped, Course
  <2>2. RequestOK(c)' /\ UntouchedOK(c)' /\ EndsOK(c)' /\ PreparedOK(c)' /\ WiringOK(c)'
    BY <1>1, RequestStays, UntouchedStays, EndsStay, PreparedStays, WiringStays
  <2>3. RootOK(c)' /\ KidOK(c)' /\ GroupsOK(c)' /\ EndedOK(c)' /\ LeafOK(c)'
    BY <1>1, RootStays, KidStays, GroupsStay, EndedStays, LeafStays
  <2> QED
    BY <2>1, <2>2, <2>3 DEF CallOK
<1>4. \A d \in Calls \ {c} : CallOK(d)'
  BY <1>2, SameKeeps DEF Inv, Apart
<1>5. child' \in [Calls -> ChildType] /\ \A d \in Calls : child'[d].holds = {}
  BY <1>1, ChildStays
<1>6. TypeOK'
  <2>1. \A d \in Calls : lock' = d <=> "unlock" \in Range(todo'[d]) /\ "lock" \notin Range(todo'[d])
    <3>1. \A d \in Calls : lock' = d <=> Inside(d)'
      BY <1>1, <1>2, LockStays
    <3>2. \A d : Left(d)' = Range(todo'[d])
      BY DEF Left, Range
    <3> QED
      BY <3>1, <3>2 DEF Inside
  <2>2. \A d \in Calls : DOMAIN wiring'[d] = {"ok", "child", "parent"} /\ wiring'[d].ok \in BOOLEAN
    <3>1. \A d \in Calls : DOMAIN wiring[d] = {"ok", "child", "parent"} /\ wiring[d].ok \in BOOLEAN
      BY <1>2 DEF TypeOK
    <3>2. \A d \in Calls \ {c} : wiring'[d] = wiring[d]
      BY <1>2 DEF Apart, Same
    <3>3. wiring'[c].ok \in BOOLEAN /\ DOMAIN wiring'[c] = DOMAIN wiring[c]
      BY <1>1, WiringStays
    <3> QED
      BY <3>1, <3>2, <3>3
  <2>3. Written /\ DOMAIN cmd' = Calls /\ DOMAIN wiring' = Calls /\ own' \in [Calls -> OwnType]
    BY <1>1, OutcomeStays, OwnStays
  <2>4. setting'.faults \subseteq Fault
    BY <1>2 DEF TypeOK
  <2> QED
    BY <1>2, <1>5, <2>1, <2>2, <2>3, <2>4
       DEF TypeOK, Written, OwnType, OutcomeType, ChildType
<1> QED
  BY <1>2, <1>3, <1>4, <1>5, <1>6 DEF Inv

(* So does what the child does meanwhile.                                  *)
Lives(c) == /\ UNCHANGED <<setting, cmd, todo, lock, own, wiring, outcome>>
            /\ child' \in [Calls -> ChildType]
            /\ \A d \in Calls \ {c} : child'[d] = child[d]

(* What the child does by itself leaves the call's steps and ends alone.   *)
LEMMA LifeLeaves ==
  ASSUME NEW c, Lives(c)
  PROVE  /\ Left(c)' = Left(c) /\ host' = host /\ (Windows' <=> Windows) /\ Calls' = Calls
         /\ (Course(c) => Course(c)') /\ (RequestOK(c) => RequestOK(c)')
         /\ (EndsOK(c) => EndsOK(c)') /\ (PreparedOK(c) => PreparedOK(c)')
         /\ (WiringOK(c) => WiringOK(c)')
<1>1. /\ Left(c)' = Left(c) /\ host' = host /\ (Windows' <=> Windows) /\ Calls' = Calls
      /\ (JobRoot(cmd[c])' <=> JobRoot(cmd[c])) /\ (IsRoot(cmd[c])' <=> IsRoot(cmd[c]))
  BY DEF Lives, Left, Range, host, Windows, Calls, JobRoot, IsRoot
<1>2. ScheduleOK(c) => ScheduleOK(c)'
  BY <1>1 DEF Lives, ScheduleOK
<1>3. PendingOK(c) => PendingOK(c)'
  BY <1>1 DEF Lives, PendingOK, Due
<1>4. FailingOK(c) => FailingOK(c)'
  BY <1>1 DEF Lives, FailingOK
<1>5. BackendOK(c) => BackendOK(c)'
  BY <1>1 DEF Lives, BackendOK
<1>6. RequestOK(c) => RequestOK(c)'
  BY <1>1 DEF Lives, RequestOK
<1>7. EndsOK(c) => EndsOK(c)'
  BY <1>1 DEF Lives, EndsOK
<1>8. PreparedOK(c) => PreparedOK(c)'
  BY <1>1 DEF Lives, PreparedOK, FlagsRefused, marker_wanted
<1>9. WiringOK(c) => WiringOK(c)'
  BY <1>1 DEF Lives, WiringOK, Raw, ByConsent
<1> QED
  BY <1>1, <1>2, <1>3, <1>4, <1>5, <1>6, <1>7, <1>8, <1>9 DEF Course

(* It leaves every other call alone.                                       *)
LEMMA LifeSame ==
  ASSUME NEW c, Lives(c), NEW d \in Calls \ {c}
  PROVE  Same(d)
BY DEF Lives, Same

(* The parts of the invariant about the child are all it can disturb.      *)
LEMMA LifeKeeps ==
  ASSUME Inv, NEW c \in Calls, Lives(c), child'[c] \in ChildType, child'[c].holds = {},
         UntouchedOK(c)', RootOK(c)', KidOK(c)', GroupsOK(c)', EndedOK(c)', LeafOK(c)'
  PROVE  Inv'
<1>1. TypeOK /\ CallOK(c) /\ setting \in Settings /\ (\A d \in Calls : child[d].holds = {})
  BY DEF Inv
<1>2. CallOK(c)'
  BY <1>1, LifeLeaves DEF CallOK, Course
<1>3. \A d \in Calls \ {c} : CallOK(d)'
  BY LifeSame, SameKeeps DEF Inv
<1>4. child' \in [Calls -> ChildType]
  BY DEF Lives
<1>5. TypeOK'
  <2>1. Calls' = Calls
    BY DEF Lives, Calls
  <2>2. \A d : Range(todo[d])' = Range(todo[d])
    BY DEF Lives, Range
  <2> QED
    BY <1>1, <1>4, <2>1, <2>2 DEF Lives, TypeOK, ChildType
<1>6. Calls' = Calls /\ setting' = setting /\ \A d \in Calls : child'[d].holds = {}
  BY <1>1 DEF Lives, Calls
<1> QED
  BY <1>1, <1>2, <1>3, <1>5, <1>6 DEF Inv

(* A program that has not ended has a step left.                           *)
LEMMA SomethingLeft ==
  ASSUME NEW c, ScheduleOK(c), todo[c] # <<>>
  PROVE  Left(c) # {}
BY TailInOrder DEF ScheduleOK, Left

(* A fork of the root keeps the invariant: the descendant is born into the *)
(* root's groups.                                                          *)
LEMMA ForksKeepsInv ==
  ASSUME Inv, NEW c \in Calls, Forks(c)
  PROVE  Inv'
<1> DEFINE in == IF cmd[c].wrapper \in {"run0", "osascript"} THEN {} ELSE child[c].rootIn
<1>1. /\ TypeOK /\ ScheduleOK(c) /\ UntouchedOK(c) /\ RootOK(c) /\ KidOK(c) /\ GroupsOK(c)
      /\ EndedOK(c) /\ LeafOK(c) /\ child[c].holds = {}
  BY DEF Inv, CallOK
<1>2. child \in [Calls -> ChildType] /\ child[c] \in ChildType
  BY <1>1 DEF TypeOK, ChildType
<1>4. in \subseteq child[c].rootIn
  OBVIOUS
<1>3. /\ Lives(c) /\ child[c].root = "live" /\ child[c].kid = "none" /\ Left(c) # {}
      /\ child' = [child EXCEPT ![c].kid = "live", ![c].kidIn = in]
  <2>1. child' = [child EXCEPT ![c].kid = "live", ![c].kidIn = in]
    BY DEF Forks
  <2> HIDE DEF in
  <2>2. child' \in [Calls -> ChildType]
    BY <1>2, <1>4, <2>1 DEF ChildType
  <2> QED
    BY <1>1, <1>2, <2>1, <2>2, SomethingLeft DEF Forks, Lives, HostOnly
<1>5. cmd[c].wrapper \notin {"run0", "osascript"} => in = child[c].rootIn
  OBVIOUS
<1> HIDE DEF in
<1>6. /\ child'[c] \in ChildType /\ child'[c].holds = {} /\ child'[c].root = "live"
      /\ child'[c].kid = "live" /\ child'[c].kidIn = in /\ child'[c].rootIn = child[c].rootIn
  BY <1>1, <1>2, <1>3, <1>4 DEF ChildType
<1>7. Left(c)' = Left(c) /\ (Windows' <=> Windows)
  BY <1>3, LifeLeaves
<1>8. UntouchedOK(c)'
  <2>1. Left(c) \cap {"create", "elevate"} = {}
    BY <1>1, <1>3 DEF UntouchedOK
  <2> QED
    BY <1>7, <2>1 DEF UntouchedOK
<1>9. RootOK(c)'
  <2>1. ~ ("resume" \in Left(c) /\ "create" \notin Left(c))
    BY <1>1, <1>3 DEF RootOK
  <2> QED
    BY <1>6, <1>7, <2>1 DEF RootOK
<1>10. KidOK(c)'
  <2>1. own[c].leaf # "made" => "leaf" \notin child[c].rootIn
    BY <1>1, <1>3 DEF KidOK
  <2> QED
    BY <1>3, <1>4, <1>5, <1>6, <2>1 DEF KidOK, Lives
<1>11. GroupsOK(c)'
  <2>1. /\ IsRoot(cmd[c])' <=> IsRoot(cmd[c])
        /\ outcome' = outcome /\ cmd' = cmd /\ setting' = setting /\ own' = own
    BY <1>3 DEF Lives, IsRoot
  <2>2. Joined(c) => Joined(c)'
    BY <1>6, <1>7, <2>1 DEF Joined, Posix
  <2>3. Reported(c) => Reported(c)'
    BY <1>6, <2>1 DEF Reported, Claimed
  <2> QED
    BY <1>1, <1>7, <2>1, <2>2, <2>3 DEF GroupsOK
<1>12. EndedOK(c)'
  BY <1>1, <1>3, <1>6, <1>7 DEF EndedOK, Lives
<1>13. LeafOK(c)'
  BY <1>1, <1>3, <1>6, <1>7 DEF LeafOK, KilledInLeaf, Can, Lives
<1> QED
  BY <1>3, <1>6, <1>8, <1>9, <1>10, <1>11, <1>12, <1>13, LifeKeeps

(* So does the root's exit, on its own.                                    *)
LEMMA ExitsKeepsInv ==
  ASSUME Inv, NEW c \in Calls, Exits(c)
  PROVE  Inv'
<1>1. /\ TypeOK /\ ScheduleOK(c) /\ UntouchedOK(c) /\ RootOK(c) /\ KidOK(c) /\ GroupsOK(c)
      /\ EndedOK(c) /\ LeafOK(c) /\ child[c].holds = {}
  BY DEF Inv, CallOK
<1>2. child \in [Calls -> ChildType] /\ child[c] \in ChildType
  BY <1>1 DEF TypeOK, ChildType
<1>3. /\ Lives(c) /\ child[c].root \in {"live", "doomed"}
      /\ child' = [child EXCEPT ![c].root = "zombie"]
  <2>1. child' = [child EXCEPT ![c].root = "zombie"]
    BY DEF Exits, Started
  <2>2. child' \in [Calls -> ChildType]
    BY <1>2, <2>1 DEF ChildType
  <2> QED
    BY <1>1, <1>2, <2>1, <2>2 DEF Exits, Lives, HostOnly
<1>6. /\ child'[c] \in ChildType /\ child'[c].holds = {} /\ child'[c].root = "zombie"
      /\ child'[c].kid = child[c].kid /\ child'[c].kidIn = child[c].kidIn
      /\ child'[c].rootIn = child[c].rootIn
  BY <1>1, <1>2, <1>3 DEF ChildType
<1>7. Left(c)' = Left(c) /\ (Windows' <=> Windows)
  BY <1>3, LifeLeaves
<1>8. UntouchedOK(c)'
  <2>1. Left(c) \cap {"create", "elevate"} = {}
    BY <1>1, <1>3 DEF UntouchedOK
  <2> QED
    BY <1>7, <2>1 DEF UntouchedOK
<1>9. RootOK(c)'
  <2>1. ~ ("resume" \in Left(c) /\ "create" \notin Left(c))
    BY <1>1, <1>3 DEF RootOK
  <2> QED
    BY <1>6, <1>7, <2>1 DEF RootOK
<1>10. KidOK(c)'
  BY <1>1, <1>3, <1>6 DEF KidOK, Lives
<1>11. GroupsOK(c)'
  <2>1. /\ IsRoot(cmd[c])' <=> IsRoot(cmd[c])
        /\ outcome' = outcome /\ cmd' = cmd /\ setting' = setting /\ own' = own
    BY <1>3 DEF Lives, IsRoot
  <2>2. Joined(c) => Joined(c)'
    BY <1>6, <1>7, <2>1 DEF Joined, Posix
  <2>3. Reported(c) => Reported(c)'
    BY <1>6, <2>1 DEF Reported, Claimed
  <2> QED
    BY <1>1, <1>7, <2>1, <2>2, <2>3 DEF GroupsOK
<1>12. EndedOK(c)'
  BY <1>1, <1>3, <1>6, <1>7 DEF EndedOK, Lives
<1>13. LeafOK(c)'
  BY <1>1, <1>3, <1>6, <1>7 DEF LeafOK, KilledInLeaf, Can, Lives
<1> QED
  BY <1>3, <1>6, <1>8, <1>9, <1>10, <1>11, <1>12, <1>13, LifeKeeps

(* The invariant holds of a call as it is made.                            *)
LEMMA InitCall ==
  ASSUME Init, NEW c \in Calls
  PROVE  CallOK(c) /\ ~ Inside(c)
<1> DEFINE k == cmd[c]
<1>1. /\ setting \in Settings /\ cmd = setting.cmd /\ Configured(k, host.os)
      /\ host.os \in {"linux", "macos", "windows"}
  BY SpawnAssumption DEF Init, Calls, host, Machine
<1>2. /\ own[c] = [ends |-> "none", marker |-> "none", leaf |-> "none", cleared |-> FALSE]
      /\ child[c] = [root |-> "none", kid |-> "none", rootIn |-> {}, kidIn |-> {}, holds |-> {}]
      /\ outcome[c] = [result |-> "pending", report |-> "none", excused |-> FALSE]
      /\ todo[c] = Start(k)
  BY DEF Init
<1>3. /\ own[c].ends = "none" /\ own[c].marker = "none" /\ own[c].leaf = "none" /\ ~ own[c].cleared
      /\ child[c].root = "none" /\ child[c].kid = "none" /\ child[c].rootIn = {}
      /\ child[c].kidIn = {} /\ outcome[c].result = "pending"
  BY <1>2
<1>4. /\ DOMAIN k = DOMAIN setting.cmd[c] /\ k = setting.cmd[c] /\ k.elevate \in BOOLEAN
      /\ k.api \in {"sync", "async"} /\ k.mode \in {"none", "strongest", "session", "walk"}
      /\ (~ Windows => k.flags \subseteq {"no_window"}) /\ k.wrapper = "none"
      /\ k.fds = DerivedFds(setting.cmd[c], k.wrapper)
  BY <1>1 DEF Configured, Windows, DerivedFds
<1>5. /\ todo[c] \in Seq(StepName) /\ InOrder(host.os, todo[c])
      /\ ~ k.elevate => Fits(k, todo[c])
      /\ k.elevate => /\ Left(c) \subseteq {"runtime", "elevate", "drop"}
                      /\ {"elevate", "drop"} \subseteq Left(c)
  BY <1>1, <1>2, StartInOrder DEF Left
<1> HIDE DEF k
<1>6. /\ k = cmd[c]
      /\ ~ k.elevate => /\ {"build", "resolve", "prepare", "attach"} \cup Due(k) \subseteq Left(c)
                        /\ Left(c) \cap ({"elevate"} \cup Ending) = {}
                        /\ Left(c) \cap {"mark", "close"} # {} => Windows
                        /\ Left(c) \cap {"assign", "resume"} # {} => JobRoot(k)
  BY <1>5 DEF Fits, Left, k
<1>7. {"lock", "create", "unlock", "drop"} \subseteq Due(k)
  BY DEF Due
<1>8. CASE k.elevate
  <2>1. ScheduleOK(c) /\ PendingOK(c) /\ FailingOK(c) /\ BackendOK(c)
    BY <1>3, <1>5, <1>8 DEF ScheduleOK, PendingOK, FailingOK, BackendOK, Ending
  <2>2. RequestOK(c)
    BY <1>3, <1>4, <1>6, <1>8 DEF RequestOK
  <2>3. UntouchedOK(c) /\ EndsOK(c) /\ PreparedOK(c) /\ WiringOK(c)
    BY <1>2, <1>3, <1>5, <1>8 DEF UntouchedOK, EndsOK, PreparedOK, WiringOK
  <2>4. RootOK(c) /\ KidOK(c) /\ GroupsOK(c) /\ EndedOK(c) /\ LeafOK(c)
    BY <1>3, <1>5, <1>8 DEF RootOK, KidOK, GroupsOK, EndedOK, LeafOK
  <2>5. ~ Inside(c)
    BY <1>5, <1>8 DEF Inside
  <2> QED
    BY <2>1, <2>2, <2>3, <2>4, <2>5 DEF CallOK
<1>9. CASE ~ k.elevate
  <2>1. ScheduleOK(c) /\ PendingOK(c) /\ FailingOK(c) /\ BackendOK(c)
    BY <1>3, <1>5, <1>6, <1>7, <1>9 DEF ScheduleOK, PendingOK, FailingOK, BackendOK, Ending
  <2>2. RequestOK(c)
    BY <1>3, <1>4, <1>6, <1>9 DEF RequestOK
  <2>3. UntouchedOK(c) /\ EndsOK(c) /\ PreparedOK(c) /\ WiringOK(c)
    BY <1>2, <1>3, <1>6, <1>9 DEF UntouchedOK, EndsOK, PreparedOK, WiringOK
  <2>4. RootOK(c) /\ KidOK(c) /\ GroupsOK(c) /\ EndedOK(c) /\ LeafOK(c)
    BY <1>3, <1>6, <1>7, <1>9 DEF RootOK, KidOK, GroupsOK, EndedOK, LeafOK
  <2>5. ~ Inside(c)
    BY <1>6, <1>7, <1>9 DEF Inside
  <2> QED
    BY <2>1, <2>2, <2>3, <2>4, <2>5 DEF CallOK
<1> QED
  BY <1>4, <1>8, <1>9

(* The invariant holds at first.                                           *)
LEMMA InitInv == Init => Inv
<1> SUFFICES ASSUME Init PROVE Inv
  OBVIOUS
<1>1. setting \in Settings /\ setting.faults \subseteq Fault /\ "free" \notin Calls
  BY SpawnAssumption DEF Init, Calls
<1>2. \A c \in Calls : CallOK(c) /\ ~ Inside(c)
  BY InitCall
<1>3. DOMAIN cmd = Calls /\ DOMAIN todo = Calls /\ DOMAIN wiring = Calls
  BY DEF Init, Calls
<1>4. \A c \in Calls : lock = c <=> "unlock" \in Range(todo[c]) /\ "lock" \notin Range(todo[c])
  <2>1. lock = "free"
    BY DEF Init
  <2> QED
    BY <1>1, <1>2, <2>1 DEF Inside, Left
<1>5. own \in [Calls -> OwnType]
  <2>1. [ends |-> "none", marker |-> "none", leaf |-> "none", cleared |-> FALSE] \in OwnType
    BY DEF OwnType
  <2> QED
    BY <2>1 DEF Init
<1>6. child \in [Calls -> ChildType] /\ \A c \in Calls : child[c].holds = {}
  <2>1. [root |-> "none", kid |-> "none", rootIn |-> {}, kidIn |-> {}, holds |-> {}] \in ChildType
    BY DEF ChildType
  <2>2. child = [c \in Calls |-> [root |-> "none", kid |-> "none", rootIn |-> {}, kidIn |-> {},
                                  holds |-> {}]]
    BY DEF Init
  <2> QED
    BY <2>1, <2>2
<1>7. outcome \in [Calls -> OutcomeType]
  <2>1. [result |-> "pending", report |-> "none", excused |-> FALSE] \in OutcomeType
    BY DEF OutcomeType, Result
  <2> QED
    BY <2>1 DEF Init
<1>8. \A c \in Calls : DOMAIN wiring[c] = {"ok", "child", "parent"} /\ wiring[c].ok \in BOOLEAN
  <2>1. DOMAIN Refused = {"ok", "child", "parent"} /\ Refused.ok \in BOOLEAN
    BY DEF Refused
  <2> QED
    BY <2>1 DEF Init
<1>9. TypeOK
  BY <1>1, <1>3, <1>4, <1>5, <1>6, <1>7, <1>8 DEF TypeOK, OwnType, ChildType, OutcomeType
<1> QED
  BY <1>1, <1>2, <1>6, <1>9 DEF Inv

(* A step of something else keeps the invariant.                           *)
LEMMA StutterKeepsInv ==
  ASSUME Inv, UNCHANGED vars
  PROVE  Inv'
<1>1. Calls' = Calls /\ setting' = setting /\ \A d \in Calls : Same(d)
  BY DEF vars, Calls, Same
<1>2. \A d \in Calls : CallOK(d)'
  BY <1>1, SameKeeps DEF Inv
<1>3. TypeOK'
  <2>1. \A d : Range(todo[d])' = Range(todo[d])
    BY DEF vars, Range
  <2> QED
    BY <1>1, <2>1 DEF vars, Inv, TypeOK
<1>4. \A d \in Calls : child'[d].holds = {}
  BY DEF vars, Inv
<1> QED
  BY <1>1, <1>2, <1>3, <1>4 DEF Inv

(* Every step keeps the invariant.                                         *)
LEMMA NextInv == Inv /\ [Next]_vars => Inv'
<1> SUFFICES ASSUME Inv, [Next]_vars PROVE Inv'
  OBVIOUS
<1>1. CASE UNCHANGED vars
  BY <1>1, StutterKeepsInv
<1>2. CASE \E c \in Calls : Step(c) \/ Forks(c) \/ Exits(c)
  BY <1>2, StepKeepsInv, ForksKeepsInv, ExitsKeepsInv
<1> QED
  BY <1>1, <1>2 DEF Next

(* AlwaysInv: the inductive invariant holds of any calls that spawn side   *)
(* by side, with any commands, on any machine.                             *)
THEOREM AlwaysInv == Spec => []Inv
<1>1. Init => Inv
  BY InitInv
<1>2. Inv /\ [Next]_vars => Inv'
  BY NextInv
<1> QED
  BY <1>1, <1>2, PTL DEF Spec

-----------------------------------------------------------------------------
(* A call that is over has nothing left to do.                             *)
LEMMA WhenOver ==
  ASSUME Inv, NEW c \in Calls, Over(c)
  PROVE  CallOK(c) /\ Left(c) = {} /\ outcome[c].result # "pending"
BY ShortSequences DEF Inv, Over, Left, CallOK, EndedOK

(* SpawnTypes: the variables of the spawning calls keep their types.       *)
THEOREM SpawnTypes == Spec => []TypeOK
<1>1. Inv => TypeOK
  BY DEF Inv
<1> QED
  BY <1>1, AlwaysInv, PTL

(* EndsStayPrivateAlways: no child holds an end or a marker that another   *)
(* call made inheritable, whatever spawns run beside it (spawn_lock).      *)
THEOREM EndsStayPrivateAlways == Spec => []EndsStayPrivate
<1>1. Inv => EndsStayPrivate
  BY DEF Inv, EndsStayPrivate
<1> QED
  BY <1>1, AlwaysInv, PTL

(* FailureLeavesNothingAlways: a spawn that returns an error has left no   *)
(* process, no end and no marker, and is out of the lock, at whichever     *)
(* step it failed and whatever it had done by then. It has left no leaf    *)
(* either, unless its maker forgot it or its drop killed somebody in it.   *)
THEOREM FailureLeavesNothingAlways == Spec => []FailureLeavesNothing
<1>1. Inv => FailureLeavesNothing
  <2> SUFFICES ASSUME Inv, NEW c \in Calls, Failed(c), ~ outcome[c].excused
               PROVE  /\ child[c].root \in {"none", "reaped"}
                                           \cup IF Windows THEN {"doomed", "zombie"} ELSE {}
                      /\ child[c].kid = "live" => child[c].kidIn \cap {"leaf", "job"} = {}
                      /\ own[c].ends \in {"none", "closed"} /\ own[c].marker \in {"none", "closed"}
                      /\ NoLeaf(c) /\ lock # c
                      /\ FlagsRefused(cmd[c]) => ~ own[c].cleared
    BY DEF FailureLeavesNothing
  <2>1. CallOK(c) /\ Left(c) = {} /\ outcome[c].result \notin {"pending", "ok"} /\ TypeOK
    BY WhenOver DEF Failed, Inv
  <2>2. \/ child[c].root \in {"none", "reaped"}
        \/ Windows /\ child[c].root \in {"doomed", "zombie"}
    BY <2>1 DEF CallOK, EndedOK
  <2>3. /\ child[c].kid = "live" => "job" \notin child[c].kidIn
        /\ own[c].ends \in {"none", "closed"} /\ own[c].marker \in {"none", "closed"}
        /\ own[c].leaf # "made"
    BY <2>1 DEF CallOK, EndedOK
  <2>4. child[c].kid = "live" => "leaf" \notin child[c].kidIn
    BY <2>1, <2>3 DEF CallOK, KidOK
  <2>7. NoLeaf(c)
    <3>1. own[c].leaf \in {"none", "removed", "forgotten", "busy"}
      BY <2>1, <2>3 DEF TypeOK
    <3> QED
      BY <2>1, <3>1 DEF CallOK, LeafOK, NoLeaf
  <2>5. lock # c
    BY <2>1, LockIsHeld DEF Inside
  <2>6. FlagsRefused(cmd[c]) => ~ own[c].cleared
    BY <2>1 DEF CallOK, PreparedOK
  <2> QED
    BY <2>2, <2>3, <2>4, <2>5, <2>6, <2>7
<1> QED
  BY <1>1, AlwaysInv, PTL

(* ContainmentIsRealAlways: the mechanism that a successful spawn reports  *)
(* is a group its root is in, and where the mechanism binds, so is         *)
(* whatever the root forked while it was attached; no root is left         *)
(* suspended.                                                              *)
THEOREM ContainmentIsRealAlways == Spec => []ContainmentIsReal
<1>1. Inv => ContainmentIsReal
  <2> DEFINE r(c) == outcome[c].report
  <2> SUFFICES ASSUME Inv, NEW c \in Calls, Succeeded(c)
               PROVE  /\ (r(c) = "None") = (cmd[c].mode = "none")
                      /\ child[c].root # "suspended"
                      /\ r(c) \in DOMAIN Claimed => Claimed[r(c)] \in child[c].rootIn
                      /\ r(c) \in Binding /\ child[c].kid # "none" => Claimed[r(c)] \in child[c].kidIn
    BY DEF ContainmentIsReal
  <2>1. CallOK(c) /\ Left(c) = {} /\ outcome[c].result = "ok"
    BY WhenOver DEF Succeeded
  <2>2. /\ (r(c) = "None") <=> (cmd[c].mode = "none")
        /\ r(c) \in DOMAIN Claimed => Claimed[r(c)] \in child[c].rootIn
    BY <2>1 DEF CallOK, GroupsOK, Reported
  <2>3. child[c].root # "suspended"
    BY <2>1 DEF CallOK, RootOK
  <2>4. r(c) \in Binding => r(c) \in DOMAIN Claimed /\ r(c) # "None"
    BY DEF Binding, Claimed
  <2>5. r(c) # "None" => cmd[c].wrapper \notin {"run0", "osascript"}
    BY <2>1, <2>2 DEF CallOK, RequestOK
  <2>6. r(c) # "None" /\ child[c].kid # "none" => child[c].kidIn = child[c].rootIn
    BY <2>1, <2>5 DEF CallOK, KidOK
  <2> QED
    BY <2>2, <2>3, <2>4, <2>6
<1> QED
  BY <1>1, AlwaysInv, PTL

(* StdioIsFaithfulAlways: a successful spawn has wired every slot as it    *)
(* was asked to, the password's slot of a wrapper included, and what a     *)
(* backend refuses could not have been had.                                *)
THEOREM StdioIsFaithfulAlways == Spec => []StdioIsFaithful
<1>1. Inv => StdioIsFaithful
  <2> SUFFICES ASSUME Inv, NEW c \in Calls
               PROVE  LET fds == DerivedFds(setting.cmd[c], cmd[c].wrapper)
                      IN /\ Succeeded(c) /\ ~ ByConsent(c) => Faithful(fds, wiring[c])
                         /\ own[c].ends # "none" =>
                              wiring[c].ok = (Possible(fds) /\ (Raw(cmd[c]) => Encodable(fds)))
    BY DEF StdioIsFaithful
  <2>1. WiringOK(c) /\ cmd[c].fds = DerivedFds(setting.cmd[c], cmd[c].wrapper)
    BY DEF Inv, CallOK, RequestOK
  <2>2. Succeeded(c) /\ ~ ByConsent(c) => Faithful(cmd[c].fds, wiring[c])
    <3>1. Succeeded(c) => Left(c) = {} /\ outcome[c].result = "ok"
      BY WhenOver DEF Succeeded
    <3> QED
      BY <2>1, <3>1 DEF WiringOK
  <2>3. own[c].ends # "none" =>
          wiring[c].ok = (Possible(cmd[c].fds) /\ (Raw(cmd[c]) => Encodable(cmd[c].fds)))
    BY <2>1 DEF WiringOK
  <2> QED
    BY <2>1, <2>2, <2>3
<1> QED
  BY <1>1, AlwaysInv, PTL

(* Whether a plan is refused as unsupported is read off the request, the   *)
(* system and the path alone, whoever calls and from wherever.             *)
LEMMA UnsupportedIsStructural ==
  ASSUME NEW k, NEW h, ~ WrapperLimit(k, h)
  PROVE  Verdict(k, h) = "Unsupported" <=> Gate(k, h.os) \/ Structural(h, k.backend, k.auth)
<1>1. Resolve(h, k.backend, k.auth) # "Unsupported"
  BY DEF Resolve, resolve_posix
<1>2. plan(h, k.backend, k.auth) = "Unsupported" <=> Structural(h, k.backend, k.auth)
  BY <1>1 DEF plan
<1>3. plan(h, k.backend, k.auth) = "Unsupported" => plan(h, k.backend, k.auth) # "osascript"
  OBVIOUS
<1> QED
  BY <1>2, <1>3 DEF Verdict, WrapperLimit

(* VerdictIsStable: a request that is refused as unsupported on a machine  *)
(* is refused there for every caller, elevated or not, with a terminal or  *)
(* without, but for the limits of the wrapper, which no elevated caller    *)
(* meets.                                                                  *)
THEOREM VerdictIsStable ==
  ASSUME NEW k, NEW h \in Machine
  PROVE  Stable(k, h)
<1> SUFFICES ASSUME ~ WrapperLimit(k, h), NEW g \in Elsewhere(h)
             PROVE  (Verdict(k, g) = "Unsupported") = (Verdict(k, h) = "Unsupported")
  BY DEF Stable
<1>0. PICK by \in BOOLEAN \X BOOLEAN : g = [h EXCEPT !.elevated = by[1], !.tty = by[2]]
  BY DEF Elsewhere
<1>1. g.os = h.os /\ g.avail = h.avail
  BY <1>0 DEF Machine
<1>2. ~ WrapperLimit(k, g)
  BY <1>1 DEF WrapperLimit
<1>3. Structural(g, k.backend, k.auth) <=> Structural(h, k.backend, k.auth)
  BY <1>1 DEF Structural
<1>4. Verdict(k, g) = "Unsupported" <=> Verdict(k, h) = "Unsupported"
  BY <1>1, <1>2, <1>3, UnsupportedIsStructural
<1> QED
  BY <1>4

(* PlanIsStableAlways: so it is for every command of every setting.        *)
THEOREM PlanIsStableAlways == Spec => []PlanIsStable
<1>1. Inv => PlanIsStable
  BY HostOfInv, VerdictIsStable DEF PlanIsStable
<1> QED
  BY <1>1, AlwaysInv, PTL
=============================================================================
