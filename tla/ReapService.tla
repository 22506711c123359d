---------------------------- MODULE ReapService ----------------------------
(***************************************************************************)
(* What the asynchronous Child's drop promises about the handle it tears   *)
(* down: the OS resources are either settled on the dropping thread or     *)
(* handed to ONE first-in first-out service, that serves at most Bound     *)
(* handles at a time, never closes once it is open, and never drops,       *)
(* duplicates or reorders what it was handed.                              *)
(*                                                                         *)
(* ReaperPool implements it (src/src/tokio/child/reaper.rs).               *)
(***************************************************************************)
EXTENDS Naturals, Sequences, FiniteSets

CONSTANTS Child,   (* the child handles of the process                     *)
          Bound    (* how many handles the service works on at a time      *)

VARIABLES open,      \* TRUE once the service accepts handles
          waiting,   \* the handles handed over, oldest first
          serving,   \* the handles being worked on
          settled    \* the handles whose resources are released

vars == <<open, waiting, serving, settled>>

InService == {waiting[i] : i \in DOMAIN waiting} \cup serving

Init == /\ open = FALSE
        /\ waiting = <<>>
        /\ serving = {}
        /\ settled = {}

(* The service opens, once.                                                *)
Open == /\ ~ open
        /\ open' = TRUE
        /\ UNCHANGED <<waiting, serving, settled>>

(* A handle is settled by its own thread: never handed over.               *)
SettleLocally(c) == /\ c \notin settled \cup InService
                    /\ settled' = settled \cup {c}
                    /\ UNCHANGED <<open, waiting, serving>>

HandOver(c) == /\ open
               /\ c \notin settled \cup InService
               /\ waiting' = Append(waiting, c)
               /\ UNCHANGED <<open, serving, settled>>

Serve == /\ waiting # <<>>
         /\ Cardinality(serving) < Bound
         /\ serving' = serving \cup {Head(waiting)}
         /\ waiting' = Tail(waiting)
         /\ UNCHANGED <<open, settled>>

Settle(c) == /\ c \in serving
             /\ serving' = serving \ {c}
             /\ settled' = settled \cup {c}
             /\ UNCHANGED <<open, waiting>>

Next == \/ Open \/ Serve
        \/ \E c \in Child : SettleLocally(c) \/ HandOver(c) \/ Settle(c)

Spec == Init /\ [][Next]_vars
=============================================================================
