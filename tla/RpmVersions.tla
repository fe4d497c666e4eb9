----------------------------- MODULE RpmVersions -----------------------------
(***************************************************************************)
(* tools/rpmvercmp.py: which of two builds of a package is the newer.      *)
(*                                                                         *)
(* A version is the sequence of segments the loop of rpmvercmp sees:       *)
(* "tilde" and "caret" marks, runs of digits with the number they denote   *)
(* (leading zeros stripped, a longer run is a bigger number) and runs of   *)
(* letters with their place in string order.  Separators carry no weight   *)
(* and are not part of it.                                                 *)
(***************************************************************************)
EXTENDS Integers, Sequences

Tilde     == [kind |-> "tilde", val |-> 0]
Caret     == [kind |-> "caret", val |-> 0]
Digits(n) == [kind |-> "digits", val |-> n]
Letters(n) == [kind |-> "letters", val |-> n]
End       == [kind |-> "end", val |-> 0]

\* The segments a version has, and the versions of builds.
Segments == {Tilde, Caret} \cup [kind : {"digits", "letters"}, val : Nat]
Triples  == [epoch : Nat, version : Seq(Segments), release : Seq(Segments)]

Segment(v, k) == IF k \in DOMAIN v THEN v[k] ELSE End

-----------------------------------------------------------------------------
\* What one turn of the loop decides of the segments a and b: 1, -1, or 0
\* to go on.  Both sides consume exactly one segment a turn.
caret_first(a, b) ==        \* Mutation: a caret sorts before the end
  IF a.kind # "caret" THEN 1 ELSE IF b.kind # "caret" THEN -1 ELSE 0

caret_segment(a, b) ==
  IF a = End THEN -1
  ELSE IF b = End THEN 1
  ELSE IF a.kind # "caret" THEN 1
  ELSE IF b.kind # "caret" THEN -1
  ELSE 0

tilde_segment(a, b) ==
  IF a.kind # "tilde" THEN 1 ELSE IF b.kind # "tilde" THEN -1 ELSE 0

\* The kind of run is the left side's; a right side with none of it loses
\* to digits and beats letters.
run_segment(a, b) ==
  IF a.kind # b.kind THEN IF a.kind = "digits" THEN 1 ELSE -1
  ELSE IF a.val = b.val THEN 0
  ELSE IF a.val > b.val THEN 1 ELSE -1

turn(a, b) ==
  IF "tilde" \in {a.kind, b.kind} THEN tilde_segment(a, b)
  ELSE IF "caret" \in {a.kind, b.kind} THEN caret_segment(a, b)
  ELSE IF a = End THEN -1
  ELSE IF b = End THEN 1
  ELSE run_segment(a, b)

\* The first turn that decides, or 0 when both sides run out together.
rpmvercmp(one, two) ==
  LET deciding == {k \in DOMAIN one \cup DOMAIN two :
                     turn(Segment(one, k), Segment(two, k)) # 0}
      first == CHOOSE k \in deciding : \A l \in deciding : k <= l
  IN  IF deciding = {} THEN 0 ELSE turn(Segment(one, first), Segment(two, first))

-----------------------------------------------------------------------------
(* A build's [epoch, version, release]; an absent epoch is 0.              *)

compare_evr(one, two) ==
  IF one.epoch # two.epoch THEN IF one.epoch > two.epoch THEN 1 ELSE -1
  ELSE LET v == rpmvercmp(one.version, two.version)
       IN  IF v # 0 THEN v ELSE rpmvercmp(one.release, two.release)

package_is_newer(candidate, incumbent) ==
  compare_evr(candidate.evr, incumbent.evr) > 0

-----------------------------------------------------------------------------
(* The order rpm documents, independent of the loop: position by position, *)
(* a tilde before the end of a version, a caret after it but before any    *)
(* segment, letters before digits.  Used by the properties only.           *)

Class(s) == CASE s.kind = "tilde"   -> 0
              [] s.kind = "end"     -> 1
              [] s.kind = "caret"   -> 2
              [] s.kind = "letters" -> 3
              [] s.kind = "digits"  -> 4

Before(a, b) == \/ Class(a) < Class(b)
                \/ Class(a) = Class(b) /\ a.val < b.val

Older(v, x) ==
  \E k \in 1..(Len(v) + Len(x)) :
     /\ Before(Segment(v, k), Segment(x, k))
     /\ \A l \in 1..(k - 1) : Segment(v, l) = Segment(x, l)

OlderEvr(a, b) ==
  \/ a.epoch < b.epoch
  \/ a.epoch = b.epoch /\ Older(a.version, b.version)
  \/ /\ a.epoch = b.epoch /\ a.version = b.version
     /\ Older(a.release, b.release)
=============================================================================
