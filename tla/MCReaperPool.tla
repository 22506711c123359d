--------------------------- MODULE MCReaperPool ---------------------------
(* Three overlapping drops on a pool of two: c1 is never ended by its      *)
(* kill, c2 may panic in the wait region, c3 may be refused its kill.      *)
EXTENDS ReaperPool
CONSTANTS c1, c2, c3
ThreeChildren == {c1, c2, c3}
OneWedged == {c1}
OnePanicky == {c2}
OneRefusing == {c3}
=============================================================================
