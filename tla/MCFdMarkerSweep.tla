-------------------------- MODULE MCFdMarkerSweep --------------------------
(* A root, pids its tree may fork into, and an unrelated process.          *)
EXTENDS FdMarkerSweep

ThreePids == 1 .. 3
RootPid == 1

Quiet == [others |-> {}, maxToken |-> 4, sameTick |-> FALSE, reparents |-> TRUE,
          signal |-> "SIGKILL", hasGroup |-> FALSE, faults |-> {}, leaves |-> {}]

Exiting == [Quiet EXCEPT !.leaves = {"exit"}]
SometimesBlind == [Quiet EXCEPT !.faults = {"blind"}]
Recycling == [Exiting EXCEPT !.others = {2}]

EveryMoveAndFault == [Quiet EXCEPT !.hasGroup = TRUE, !.faults = {"blind", "unknown"},
                                   !.leaves = {"exit", "exec", "close"}, !.maxToken = 3]
Terminating == [Quiet EXCEPT !.signal = "SIGTERM", !.hasGroup = TRUE, !.maxToken = 3]

EverySweep == {SometimesBlind, Recycling, EveryMoveAndFault, Terminating}
KillsOfExiting == {Exiting}
=============================================================================
