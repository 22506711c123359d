----------------------------- MODULE TreeDrain -----------------------------
(***************************************************************************)
(* What wait_tree promises, whatever the mechanism: it says the tree has   *)
(* drained only when nobody is left in it, and that members remain only    *)
(* when the caller's time is up and somebody was left when it looked; it   *)
(* fails only when the tree can no longer be observed.  A caller may also  *)
(* give the call up.                                                       *)
(*                                                                         *)
(* WaitTree implements it (src/src/containment.rs TreeDrain).              *)
(***************************************************************************)
CONSTANT Pid

VARIABLES live,      \* the processes in the tree
          call,      \* "none", "waiting", "answered" or "abandoned"
          gone,      \* the tree has been empty ever since the call began
          late,      \* the caller's deadline has passed
          impaired,  \* the tree, or part of it, cannot be observed
          mayMiss,   \* this wait may run out of time without having seen a drain
          verdict    \* what the call returned

vars == <<live, call, gone, late, impaired, mayMiss, verdict>>

Init == /\ live \in SUBSET Pid
        /\ call = "none"
        /\ gone = FALSE
        /\ late = FALSE
        /\ impaired \in BOOLEAN
        /\ mayMiss \in BOOLEAN
        /\ verdict = "none"

(* The tree and the clock move on their own.                               *)
Host == /\ live' \in SUBSET Pid
        /\ gone' = (gone /\ live' = {})
        /\ late' \in {late, TRUE}
        /\ impaired' \in BOOLEAN
        /\ UNCHANGED <<call, mayMiss, verdict>>

(* A zero timeout is late from the start.                                  *)
Begin == /\ call = "none"
         /\ call' = "waiting"
         /\ gone' = (live = {})
         /\ late' \in BOOLEAN
         /\ UNCHANGED <<live, impaired, mayMiss, verdict>>

Answer(v) == /\ call = "waiting"
             /\ call' = "answered"
             /\ verdict' = v
             /\ impaired' \in BOOLEAN
             /\ UNCHANGED <<live, gone, late, mayMiss>>

SeesDrain == live = {} /\ Answer("Drained")
GivesUp == late /\ (gone => mayMiss) /\ Answer("MembersRemain")
Fails == impaired /\ Answer("Err")

Abandon == /\ call = "waiting"
           /\ call' = "abandoned"
           /\ UNCHANGED <<live, gone, late, impaired, mayMiss, verdict>>

Next == Host \/ Begin \/ SeesDrain \/ GivesUp \/ Fails \/ Abandon

Spec == Init /\ [][Next]_vars
=============================================================================
