------------------------ MODULE MCGracefulShutdown ------------------------
(* Instances of GracefulShutdown: one deployment per mechanism and owner.  *)
EXTENDS GracefulShutdown

Deploy(m, o, w, f) == [mech |-> m, owner |-> o, windows |-> w, faults |-> f, bare |-> FALSE]
Bare(d) == [d EXCEPT !.bare = TRUE]

EveryDeployment ==
  UNION {{Deploy("cgroup", o, FALSE, {"term", "watch"}),
          Deploy("cgroup", o, FALSE, {"lost", "wait"}),
          Deploy("job", o, TRUE, {"term", "watch", "sweep"}),
          Bare(Deploy("marker", o, FALSE, {"deaf", "watch", "listing"})),
          Deploy("group", o, FALSE, {"deaf", "watch", "listing", "term"}),
          Deploy("walk", o, FALSE, {"deaf", "watch"}),
          Deploy("walk", o, TRUE, {"deaf", "term"}),
          Deploy("none", o, FALSE, {"deaf"}),
          Deploy("none", o, TRUE, {})} : o \in {"sync", "async"}}
  \cup {Deploy("walk", "foreign", FALSE, {"deaf", "watch", "term"}),
        Bare(Deploy("walk", "foreign", FALSE, {"deaf", "watch", "term"})),
        Deploy("walk", "foreign", TRUE, {})}
=============================================================================
