-------------------------- MODULE MCGroupTeardown --------------------------
(* A leader and one or two pids that it, or an unrelated process, may fork *)
(* into.                                                                   *)
EXTENDS GroupTeardown

ThreePids == 1 .. 3
RootPid == 1

LinuxKill == [others |-> {}, maxToken |-> 4, sameTick |-> FALSE, reparents |-> TRUE,
              signal |-> "SIGKILL", kinds |-> Kind \ {"system"}, listsOpaque |-> FALSE,
              atomicList |-> FALSE, pidfd |-> TRUE, setuid |-> FALSE, rootReaped |-> FALSE]

LinuxStranger == [LinuxKill EXCEPT !.others = {2}, !.kinds = {"plain", "foreign"}]

MacosKill == [LinuxKill EXCEPT !.maxToken = 3, !.kinds = Kind, !.listsOpaque = TRUE,
                               !.atomicList = TRUE, !.pidfd = FALSE, !.setuid = TRUE]

MacosStranger == [MacosKill EXCEPT !.others = {2}, !.kinds = {"plain", "foreign"}]

LinuxTerm == [LinuxKill EXCEPT !.signal = "SIGTERM", !.kinds = {"plain", "foreign"}]

EveryCall == {LinuxKill, LinuxStranger, MacosKill, MacosStranger, LinuxTerm}
=============================================================================
