------------------------------ MODULE MCRelock ------------------------------
EXTENDS Relock

CONSTANTS a, b, c   \* a below b below c

\* What a spec can ask for: nothing, an %ifarch requirement, two rounds of
\* a generator, and a generator behind an %ifarch requirement.
MCAsks == {<<{}>>, <<{"x"}>>, <<{"y"}, {"x"}>>, <<{}, {"x"}, {"y"}>>}

MCUses == {[p \in Pkgs |-> {}],
           [p \in Pkgs |-> IF p = c THEN {b} ELSE IF p = b THEN {a} ELSE {}]}
MCMakers == {[k \in {"x", "y"} |-> Seed],
             [k \in {"x", "y"} |-> IF k = "x" THEN a ELSE b]}

MCWorlds ==
  LET all == [asks : [Pkgs -> MCAsks], maker : MCMakers, uses : MCUses,
              suspect : {{}, {c}}, known : {{"x", "y"}, {"y"}},
              rotten : BOOLEAN]
  IN {v \in all : /\ v.rotten => v.known = {"x", "y"} /\ v.suspect = {}
                  /\ \A S \in (SUBSET Pkgs) \ {{}} :
                       \E p \in S : (v.uses[p] \cup Makers(v, Asked(v, p))) \cap S = {}}
=============================================================================
