---------------------------- MODULE MCTreeWalk ----------------------------
(* A root, an unrelated process, and pids that either of them may fork     *)
(* into, with tokens enough for every pid to change hands.                 *)
EXTENDS TreeWalk

FourPids == 1 .. 4
RootPid == 1

Unix == [others |-> {2}, maxToken |-> 3, sameTick |-> TRUE, reparents |-> TRUE,
         allowEqual |-> TRUE, denied |-> {4}, refusing |-> {4}, rootReaped |-> FALSE,
         midWalkReuse |-> FALSE, handleKill |-> FALSE]

Windows == [others |-> {2}, maxToken |-> 5, sameTick |-> FALSE, reparents |-> FALSE,
            allowEqual |-> FALSE, denied |-> {}, refusing |-> {}, rootReaped |-> FALSE,
            midWalkReuse |-> FALSE, handleKill |-> TRUE]

WindowsMidWalk == [Windows EXCEPT !.midWalkReuse = TRUE, !.refusing = {3}, !.maxToken = 4]

EveryHost == {Unix, Windows, WindowsMidWalk}
StalePpids == {Windows}
=============================================================================
