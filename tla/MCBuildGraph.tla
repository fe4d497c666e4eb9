---------------------------- MODULE MCBuildGraph ----------------------------
(* Packages 1 to 4 with one binary each, a, b, c and d; or package 4 is a   *)
(* second build of package 1 at another version, with no binary of its own. *)
EXTENDS SourcePlan

CONSTANTS a, b, c, d

Four  == 1..4
Bins  == {a, b, c, d}
Three == {a, b, c}
AllGraphs == LET n == Sources IN [n -> SUBSET n]

own == [x \in Bins |-> CASE x = a -> 1 [] x = b -> 2 [] x = c -> 3 [] x = d -> 4]
normal == [own EXCEPT ![d] = None]
unrouted == [s \in Sources |-> [x \in Bins |-> None]]

\* Every graph on four packages.
GraphInputs ==
  LET all == [built : {Sources}, variants : {{}},
              deps : {f \in [Sources -> SUBSET Bins] : \A s \in Sources : \A x \in f[s] : own[x] # s},
              source_of : {own}, routes : {unrouted}, base : {{}}, prebuilt : {{}}]
  IN all

\* Any requirements among three packages, some of them in the shared
\* buildroot, outside the build set or taken from upstream by this host.
PlainInputs ==
  LET all == [built : {{1, 2, 3}, {1, 2}}, variants : {{}},
              deps : {f \in [Sources -> SUBSET Three] : f[4] = {}},
              source_of : {normal}, routes : {unrouted}, base : {{}, {a}, {b, c}},
              prebuilt : {{}, {2}}]
  IN all

\* Packages that name the variant, for the one binary that changed.
routed(S) == [s \in Sources |-> [x \in Bins |-> IF s \in S /\ x = a THEN 4 ELSE None]]

VariantInputs ==
  LET all == [built : {Sources}, variants : {{4}},
              deps : {f \in [Sources -> SUBSET Three] : f[3] \subseteq {a, b} /\ f[2] \subseteq {a, c}},
              source_of : {normal}, routes : {routed({2}), routed({2, 3}), routed({3, 4})},
              base : {{}, {a}}, prebuilt : {{}, {1}}]
  IN all

AllInputs == LET all == GraphInputs \cup PlainInputs \cup VariantInputs IN all
=============================================================================
