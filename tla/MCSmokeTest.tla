---------------------------- MODULE MCSmokeTest ----------------------------
(* Two harnesses given the same two checkouts in opposite order, an operator's  *)
(* file and one signal.                                                         *)
EXTENDS SmokeTest
CONSTANTS h1, h2, c1, c2
MCPlan == LET Opposite(h) == IF h = h1 THEN [s \in Sides |-> IF s = "a" THEN c1 ELSE c2]
                                       ELSE [s \in Sides |-> IF s = "a" THEN c2 ELSE c1]
          IN  [h \in Harnesses |-> Opposite(h)]
MCStages == LET Picked(h) == IF h = h1 THEN {"readiness", "cache"} ELSE {"execution"}
            IN  [h \in Harnesses |-> Picked(h)]
MCInodes == LET used == 1..5 IN used
=============================================================================
