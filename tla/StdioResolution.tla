-------------------------- MODULE StdioResolution --------------------------
(***************************************************************************)
(* From the redirections a caller configured to the descriptors the child  *)
(* gets and the ends the parent keeps, on each of the spawn backends.      *)
(*                                                                         *)
(*   src/src/child/spawn.rs, src/src/tokio/spawn.rs                        *)
(*   src/src/child/spawn/windows_raw.rs, src/src/stdio.rs                  *)
(*   src/src/tokio/spawn/windows_raw.rs                                    *)
(*                                                                         *)
(* fds is a function from the configured slots to redirections, a          *)
(* redirection is a kind with the slot it merges into (its own slot when   *)
(* it is no merge), and an end is the object it refers to with the slot    *)
(* that created the object.                                                *)
(***************************************************************************)
EXTENDS Naturals, Functions

Std == 0..2
Kind == {"inherit", "null", "file", "pipe_in", "pipe_out", "merge"}

(* Fd is an i32 that is not negative.                                      *)
MaxFd == 2147483647

(* What a caller can configure: only a merge names another slot.           *)
Redirections(fds) ==
  /\ DOMAIN fds \subseteq Nat
  /\ \A s \in DOMAIN fds : s <= MaxFd /\ fds[s].kind \in Kind /\ fds[s].to \in Nat
  /\ \A s \in DOMAIN fds : fds[s].kind # "merge" => fds[s].to = s

Stream(s) == [kind |-> "inherit", to |-> s]
High(fds) == {s \in DOMAIN fds : s >= 3}
Of(fds, s) == IF s \in DOMAIN fds THEN fds[s] ELSE Stream(s)
IsMerge(fds, s) == Of(fds, s).kind = "merge"
IsPipe(fds, s) == Of(fds, s).kind \in {"pipe_in", "pipe_out"}
Merges(fds, S) == {s \in S : IsMerge(fds, s)}

End(o, s) == [object |-> o, from |-> s]

(* resolve_non_merge and make_pipe: the child's side, and the parent's.    *)
ChildEnd(fds, s) == CASE Of(fds, s).kind = "pipe_in" -> End("reader", s)
                      [] Of(fds, s).kind = "pipe_out" -> End("writer", s)
                      [] OTHER -> End(Of(fds, s).kind, s)
ParentEnd(fds, s) == End(IF Of(fds, s).kind = "pipe_in" THEN "writer" ELSE "reader", s)

(* There is no parent's stream behind a descriptor above 2.                *)
NoStream(fds, s) == s >= 3 /\ Of(fds, s).kind = "inherit"

(* Only one level of indirection is resolved.                              *)
Chained(fds) == \E s \in Merges(fds, DOMAIN fds) : IsMerge(fds, fds[s].to)

Wired(child, parent) == [ok |-> TRUE, child |-> child, parent |-> parent]
Refused == [ok |-> FALSE, child |-> <<>>, parent |-> <<>>]

(* resolve_stdio. The first pass makes the ends of all that is no merge,   *)
(* piped standard slots excepted where tokio owns them; the second one     *)
(* duplicates the end of each merge's target.                              *)
resolve_stdio(fds, slots, deferred) ==
  LET merges == Merges(fds, slots)
      made == {s \in slots \ merges : ~ (deferred /\ s < 3 /\ IsPipe(fds, s))}
  IN IF \/ Chained(fds)
        \/ \E s \in made : NoStream(fds, s)
        \/ \E s \in merges : fds[s].to \notin made
     THEN Refused
     ELSE Wired([s \in made \cup merges |-> ChildEnd(fds, IF s \in merges THEN fds[s].to ELSE s)],
                [s \in {m \in made : IsPipe(fds, m)} |-> ParentEnd(fds, s)])

(* The synchronous spawn: 0 to 2 through std, the others by command-fds.   *)
SyncWiring(fds) == resolve_stdio(fds, Std \cup High(fds), FALSE)

(* std on Windows takes no descriptor above 2: routing sends those on.     *)
SyncStdWiring(fds) == resolve_stdio(fds, Std, FALSE)

(* Mutant: the merging slots stay with their target's pipe in the map, so  *)
(* the resolver meets a merge into a pipe that tokio owns.                 *)
NoPrePass(fds) == {}

(* tokio's own pipe cannot be duplicated: a piped standard slot that is    *)
(* merged into gets a pipe of ours, assigned with its duplicates first.    *)
PrePassed(fds) ==
  LET targets == {t \in Std : /\ IsPipe(fds, t)
                              /\ \E s \in Merges(fds, DOMAIN fds) : fds[s].to = t}
  IN IF Chained(fds) THEN {}
     ELSE targets \cup {s \in Merges(fds, DOMAIN fds) : fds[s].to \in targets}

AsyncWiring(fds, high) ==
  LET pre == PrePassed(fds)
      rest == Restrict(fds, DOMAIN fds \ pre)
      core == resolve_stdio(rest, (Std \ pre) \cup (high \ pre), TRUE)
      piped == {s \in Std \ pre : IsPipe(rest, s)}
      ours == {s \in pre : IsPipe(fds, s)}
  IN IF ~ core.ok THEN Refused
     ELSE Wired([s \in pre \cup piped \cup DOMAIN core.child |->
                   CASE s \in pre -> ChildEnd(fds, Of(fds, s).to)
                     [] s \in piped -> ChildEnd(rest, s)
                     [] OTHER -> core.child[s]],
                [s \in ours \cup piped \cup DOMAIN core.parent |->
                   CASE s \in ours -> ParentEnd(fds, s)
                     [] s \in piped -> ParentEnd(rest, s)
                     [] OTHER -> core.parent[s]])

(* The asynchronous raw backend owns every pipe, overlapped at our end.    *)
resolve_raw_ends(fds) ==
  LET slots == Std \cup High(fds)
      first == slots \ Merges(fds, slots)
  IN IF \/ Chained(fds)
        \/ \E s \in first : NoStream(fds, s)
        \/ \E s \in Merges(fds, slots) : fds[s].to \notin first
     THEN Refused
     ELSE Wired([s \in slots |-> ChildEnd(fds, Of(fds, s).to)],
                [s \in {p \in first : IsPipe(fds, p)} |-> ParentEnd(fds, s)])

(* crt_fds: the child's table is dense up to the largest descriptor, a     *)
(* count, a flag byte for each and a handle for each. Its length goes to   *)
(* CreateProcessW in the WORD cbReserved2.                                 *)
encoded_len(maxfd) == 4 + (maxfd + 1) * (1 + 8)
cbReserved2(maxfd) == encoded_len(maxfd) % 2^16

(* Mutant: the handles alone are counted.                                  *)
HandlesFit(fds) == \A s \in DOMAIN fds : (s + 1) * 8 <= 65535

ensure_fd_table_fits(fds) == \A s \in DOMAIN fds : encoded_len(s) <= 65535

-----------------------------------------------------------------------------
(* What was asked, without passes, orders or owners of pipes.              *)

Asked(fds, s) == ChildEnd(fds, Of(fds, s).to)

Possible(fds) ==
  /\ \A s \in DOMAIN fds : IsMerge(fds, s) => ~ IsMerge(fds, fds[s].to)
  /\ \A s \in DOMAIN fds : ~ NoStream(fds, s)
  /\ \A s \in Merges(fds, DOMAIN fds) : fds[s].to \in Std \cup DOMAIN fds

(* The child's CRT is told of the whole table.                             *)
Encodable(fds) == \A s \in DOMAIN fds : cbReserved2(s) = encoded_len(s)

Faithful(fds, wiring) ==
  /\ wiring.ok = Possible(fds)
  /\ wiring.ok =>
       /\ wiring.child = [s \in Std \cup DOMAIN fds |-> Asked(fds, s)]
       /\ wiring.parent = [s \in {p \in DOMAIN fds : IsPipe(fds, p)} |-> ParentEnd(fds, s)]
=============================================================================
