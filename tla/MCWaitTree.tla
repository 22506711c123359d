----------------------------- MODULE MCWaitTree -----------------------------
(* Small instances of WaitTree.                                            *)
EXTENDS WaitTree

ThreePids == 1 .. 3
TwoPids == 1 .. 2
OneThread == {"t1"}

Calm == [mechanism |-> "cgroup", async |-> FALSE, bounded |-> FALSE, faults |-> FALSE,
         forks |-> TRUE, strangers |-> FALSE, adopts |-> FALSE, manager |-> FALSE,
         writes |-> FALSE, ownCopy |-> FALSE, denied |-> {}, budget |-> 1,
         killers |-> {}, killOnDrop |-> TRUE, drops |-> FALSE]

Calls(m) == {[Calm EXCEPT !.mechanism = m, !.async = a, !.bounded = b] : a, b \in BOOLEAN}

(* A leaf others adopt into and a manager removes, killed and dropped.     *)
CgroupCalls ==
  UNION {{[s EXCEPT !.manager = TRUE, !.killers = OneThread, !.drops = TRUE],
          [s EXCEPT !.manager = TRUE, !.strangers = TRUE, !.adopts = TRUE],
          [s EXCEPT !.faults = TRUE, !.killers = OneThread, !.drops = TRUE]} : s \in Calls("cgroup")}

(* A job whose pids are recycled, with a member that cannot be opened, and *)
(* with calls that fail.                                                   *)
JobCalls ==
  UNION {{[s EXCEPT !.strangers = TRUE, !.killers = OneThread, !.drops = TRUE],
          [s EXCEPT !.denied = {1}, !.forks = FALSE, !.budget = 2],
          [s EXCEPT !.faults = TRUE, !.forks = FALSE, !.killers = OneThread, !.drops = TRUE],
          [s EXCEPT !.forks = FALSE, !.drops = TRUE]} : s \in Calls("job")}

(* A marker that is written full, one this process kept a copy of.         *)
MarkerCalls ==
  UNION {{[s EXCEPT !.writes = TRUE],
          [s EXCEPT !.ownCopy = TRUE, !.faults = TRUE],
          [s EXCEPT !.faults = TRUE]} : s \in Calls("marker")}

EveryCall == CgroupCalls \cup JobCalls \cup MarkerCalls

DetachedLeaf == {[Calm EXCEPT !.drops = TRUE]}
=============================================================================
