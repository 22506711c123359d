---------------------------- MODULE MarkerDrain ----------------------------
(***************************************************************************)
(* The macOS marker: waiting for the last copy of the pipe's write end to  *)
(* close, on a kqueue of the call's own whose knote is edge-triggered and  *)
(* fires on EOF, or when a member has written the pipe full.               *)
(*                                                                         *)
(*   src/src/containment/marker_eof.rs   arm, interpret_read_event, probe, *)
(*                                       block_until_drained               *)
(*   src/src/wait/macos.rs               block_on_kqueue                   *)
(*   src/src/tokio/wait.rs               wait_tree_deadline, watch_readable*)
(*                                                                         *)
(* `changed` is the knote's pending event.  The members of the tree are    *)
(* here the holders of the marker.                                         *)
(***************************************************************************)
EXTENDS DrainCall

VARIABLE full   \* the pipe is at capacity: its writer is blocked

OnMarker == Mechanism = "marker"
Eof == Live = {} /\ ~ setting.ownCopy
Armed == pc \in {"clock", "kevent", "last", "block", "drain", "clear"}

MarkerNotice == IF Armed /\ Emptied /\ ~ setting.ownCopy
                THEN changed' = TRUE /\ queued' = (queued \/ Async)
                ELSE UNCHANGED <<changed, queued>>

(* A member misuses the marker and writes until its write blocks.          *)
FillPipe == /\ OnMarker /\ setting.writes
            /\ Unharmed # {} /\ ~ full
            /\ full' = TRUE
            /\ changed' = (changed \/ Armed)
            /\ queued' = (queued \/ (Armed /\ Async))
            /\ UNCHANGED <<treeVars, ready, newer, callVars, handleVars>>

-----------------------------------------------------------------------------
MarkerBegin == OnMarker /\ Begin("check_read_end") /\ UNCHANGED full

(* check_read_end_still_valid; a late tokio call takes the one-shot probe. *)
CheckReadEnd == /\ pc = "check_read_end"
                /\ \/ Goto(IF Async /\ late THEN "arm_probe" ELSE "arm")
                   \/ Faults /\ Answer("Err")
                /\ UNCHANGED <<treeVars, reactorVars, handleVars, full>>

(* write_end_check: does this process hold a copy of the write end itself? *)
Scan == {IF setting.ownCopy THEN "HeldByUs" ELSE "Clear"}
          \cup (IF Faults THEN {"Unassessable"} ELSE {})

Refused(scan) == scan = "HeldByUs" \/ (scan = "Unassessable" /\ ~ Bounded)

AfterArm == IF pc = "arm_probe" THEN "last" ELSE IF Async THEN "block" ELSE "clock"

(* arm: refuse an edge that cannot fire, or add the knote, which is        *)
(* pending at once if there is something to report already.                *)
Arm == /\ pc \in {"arm", "arm_probe"}
       /\ \E scan \in Scan :
             \/ /\ Refused(scan) \/ Faults
                /\ Answer("Err")
                /\ UNCHANGED <<changed, queued>>
             \/ /\ ~ Refused(scan)
                /\ changed' = (Eof \/ full)
                /\ queued' = (Async /\ changed')
                /\ Goto(AfterArm)
       /\ UNCHANGED <<treeVars, ready, newer, handleVars, full>>

(* As a mutant: the clock is not looked at between two events.             *)
StartRoundBlind == /\ pc = "clock"
                   /\ Goto("kevent")
                   /\ UNCHANGED <<treeVars, reactorVars, handleVars, full>>

(* block_on_kqueue looks at the clock before every kevent.                 *)
StartRound == /\ pc = "clock"
              /\ Goto(IF late THEN "last" ELSE "kevent")
              /\ UNCHANGED <<treeVars, reactorVars, handleVars, full>>

(* interpret_read_event: EOF is final.  Otherwise the pipe was full: only  *)
(* a bounded wait drains it.                                               *)
Swallow == /\ ~ Eof
           /\ changed' = FALSE
           /\ full' = (full /\ ~ Bounded)

Kevent == /\ pc \in {"kevent", "last"}
          /\ \/ /\ changed /\ Eof
                /\ Answer("AllMarkersClosed")
                /\ UNCHANGED <<changed, full>>
             \/ /\ changed /\ Swallow
                /\ IF pc = "last" THEN Answer("MembersRemain") ELSE Goto("clock")
             \/ /\ ~ changed /\ late
                /\ Answer("MembersRemain")
                /\ UNCHANGED <<changed, full>>
             \/ /\ Faults
                /\ Answer("Err")
                /\ UNCHANGED <<changed, full>>
          /\ UNCHANGED <<treeVars, queued, ready, newer, handleVars>>

(* drain_kqueue inside watch_readable.                                     *)
DrainKqueue == /\ pc = "drain"
               /\ \/ /\ changed /\ Eof
                     /\ Answer("AllMarkersClosed")
                     /\ UNCHANGED <<changed, full>>
                  \/ /\ changed /\ Swallow
                     /\ Goto("clear")
                  \/ /\ ~ changed
                     /\ Goto("clear")
                     /\ UNCHANGED <<changed, full>>
                  \/ /\ Faults
                     /\ Answer("Err")
                     /\ UNCHANGED <<changed, full>>
               /\ UNCHANGED <<treeVars, queued, ready, newer, handleVars>>

MarkerDeliver == OnMarker /\ Deliver(changed) /\ UNCHANGED full
MarkerWakes == OnMarker /\ TakeReady("drain") /\ UNCHANGED full
MarkerClears == OnMarker /\ ClearReady("block") /\ UNCHANGED full
MarkerTimerWins == OnMarker /\ TimerWins /\ UNCHANGED full

MarkerWait == CheckReadEnd \/ Arm \/ StartRound \/ Kevent \/ DrainKqueue
                \/ MarkerWakes \/ MarkerClears \/ MarkerTimerWins
MarkerNext == MarkerBegin \/ MarkerWait \/ MarkerDeliver \/ FillPipe
=============================================================================
