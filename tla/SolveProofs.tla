------------------------ MODULE SolveProofs ------------------------
(***************************************************************************)
(* Theorems about the solve: first about the closure over one universe     *)
(* (RuntimeClosure), for every repository and every ask; then about how    *)
(* the repositories become the universes and the universes the lockfile    *)
(* (Repodata), for every world.  The two modules share no variable.        *)
(***************************************************************************)
EXTENDS RuntimeClosure, Repodata, FiniteSetTheorems, WellFoundedInduction, TLAPS

(***************************************************************************)
(* Reading one plain capability has one of three outcomes: a package that  *)
(* matches or that an override names, an "unresolved" problem, or a choice *)
(* among the matching packages.                                            *)
(***************************************************************************)
Outcome(x, e, r) ==
  \/ \E p \in Pkg : /\ r.pkgs = {p}
                    /\ \/ p \in Matching(x, e)
                       \/ \E k \in {e, Bare(e)} :
                             Overridden(x, k) /\ x.overrides[k] = p
  \/ r.problems = {[kind |-> "unresolved", expr |-> e]}
  \/ r.choices = {[expr |-> e, alts |-> Matching(x, e)]}

\* The empty effect, and the three that resolve returns, are effects.
LEMMA EffectTypes ==
  /\ Nothing \in Effect
  /\ \A p \in Pkg : Pull(p) \in Effect /\ Pull(p).pkgs = {p}
  /\ \A e \in OverrideKey : \A A \in SUBSET Name :
       /\ Choose(e, A) \in Effect
       /\ Choose(e, A).choices = {[expr |-> e, alts |-> A]}
  /\ \A e \in Expr : /\ Complain("unresolved", e) \in Effect
                     /\ Complain("unresolved", e).problems
                          = {[kind |-> "unresolved", expr |-> e]}
  /\ \A e \in Expr : [Nothing EXCEPT !.pend = {e}] \in Effect
<1>1. Nothing \in Effect  BY DEF Nothing, Effect
<1>2. ASSUME NEW p \in Pkg PROVE Pull(p) \in Effect /\ Pull(p).pkgs = {p}
  BY DEF Nothing, Pull, Effect
<1>3. ASSUME NEW e \in OverrideKey, NEW A \in SUBSET Name
      PROVE  /\ Choose(e, A) \in Effect
             /\ Choose(e, A).choices = {[expr |-> e, alts |-> A]}
  <2>1. [expr |-> e, alts |-> A] \in Choice  BY DEF Choice
  <2>. QED  BY <2>1 DEF Nothing, Choose, Effect
<1>4. ASSUME NEW e \in Expr
      PROVE  /\ Complain("unresolved", e) \in Effect
             /\ Complain("unresolved", e).problems
                  = {[kind |-> "unresolved", expr |-> e]}
  <2>1. [kind |-> "unresolved", expr |-> e] \in Problem  BY DEF Problem
  <2>. QED  BY <2>1 DEF Nothing, Complain, Effect
<1>5. ASSUME NEW e \in Expr PROVE [Nothing EXCEPT !.pend = {e}] \in Effect
  BY DEF Nothing, Effect
<1>. QED  BY <1>1, <1>2, <1>3, <1>4, <1>5

\* The providers left standing by a constraint are packages.
LEMMA MatchingType ==
  ASSUME NEW x \in Repositories, NEW e \in Expr, ~Rich(e)
  PROVE  Matching(x, e) \in SUBSET Pkg
<1>1. Bare(e) \in Name  BY ExprAssumption
<1>2. x.provides \in [Name -> SUBSET Pkg]  BY InputAssumption
<1>. QED  BY <1>1, <1>2 DEF Matching

\* The newest provider is one of the providers it was chosen among.
LEMMA NewestAmong ==
  ASSUME NEW x, NEW n, NEW P, NEW B
  PROVE  NewestOf(x, n, P, B) \subseteq P
<1>. DEFINE stated == {pv \in UNION {{p} \X Versions(x, n, p) : p \in P} :
              \A b \in B : satisfies_constraint(pv[2], node[b].op, node[b].ver)}
            highest == {y \in stated : \A z \in stated : y[2] >= z[2]}
<1>1. \A pv \in stated : pv[1] \in P  OBVIOUS
<1>2. highest \subseteq stated  OBVIOUS
<1>3. {pv[1] : pv \in highest} \subseteq P  BY <1>1, <1>2
<1>. QED  BY <1>3 DEF NewestOf

\* resolve has one of the three outcomes.
LEMMA ResolveOutcome ==
  ASSUME NEW x \in Repositories, NEW e \in Expr, ~Rich(e)
  PROVE  resolve(x, e) \in Effect /\ Outcome(x, e, resolve(x, e))
<1>. DEFINE m == Matching(x, e)
            newest == IF node[e].op = "any" THEN {} ELSE NewestOf(x, Bare(e), m, {e})
<1>m. m \in SUBSET Pkg /\ m \in SUBSET Name  BY MatchingType, InputAssumption
<1>n. newest \subseteq m  BY NewestAmong
<1>o. \A k \in DOMAIN x.overrides : x.overrides[k] \in Pkg  BY InputAssumption
<1>p. \A p \in m : Pull(p) \in Effect /\ Outcome(x, e, Pull(p))
  BY <1>m, EffectTypes DEF Outcome
<1>k. \A k \in {e, Bare(e)} : Overridden(x, k) =>
        Pull(x.overrides[k]) \in Effect /\ Outcome(x, e, Pull(x.overrides[k]))
  BY <1>o, EffectTypes DEF Outcome, Overridden
<1>c. /\ Complain("unresolved", e) \in Effect
      /\ Outcome(x, e, Complain("unresolved", e))
  BY EffectTypes DEF Outcome
<1>h. Choose(e, m) \in Effect /\ Outcome(x, e, Choose(e, m))
  BY <1>m, EffectTypes, ExprAssumption DEF Outcome
<1>0. pick(x, e, m) \in Effect /\ Outcome(x, e, pick(x, e, m))
  <2>1. CASE m = {}  BY <2>1, <1>c DEF pick
  <2>2. CASE m # {}
    <3>1. (CHOOSE p \in m : TRUE) \in m  BY <2>2
    <3>2. AnyOf(m) \in Effect /\ Outcome(x, e, AnyOf(m))
      BY <3>1, <1>p DEF AnyOf
    <3>3. newest # {} => (CHOOSE p \in newest : TRUE) \in m  BY <1>n
    <3>4. /\ prefer(e, m, newest) \in Effect
          /\ Outcome(x, e, prefer(e, m, newest))
      BY <3>3, <1>p, <1>h DEF prefer, AnyOf
    <3>. QED  BY <2>2, <3>2, <3>4, <1>p DEF pick
  <2>. QED  BY <2>1, <2>2
<1>1. CASE Overridden(x, e) \/ Overridden(x, Bare(e))
  BY <1>1, <1>k DEF resolve
<1>2. CASE ~Overridden(x, e) /\ ~Overridden(x, Bare(e))
  BY <1>2, <1>0 DEF resolve
<1>. QED  BY <1>1, <1>2

-----------------------------------------------------------------------------
\* A nonempty set of numbers has a least one, and CHOOSE finds it.
LEMMA LeastOf ==
  ASSUME NEW S \in SUBSET Nat, S # {}
  PROVE  LET first == CHOOSE k \in S : \A l \in S : k <= l
         IN  first \in S /\ \A l \in S : first <= l
<1>1. PICK k \in S : \A l \in S : <<l, k>> \notin OpToRel(<, Nat)
  BY WFMin, NatLessThanWellFounded, Zenon
<1>2. \A l \in S : ~(l < k)  BY <1>1, Zenon DEF OpToRel
<1>3. \A l \in S : k <= l  BY <1>2
<1>. QED  BY <1>3

(***************************************************************************)
(* Recursion over the tree of a text.  What a recursive function is at a   *)
(* text follows from what it is at the operands, by a step: a function of  *)
(* the text and of the values there.                                       *)
(***************************************************************************)
Steps(V) == {s \in [Expr -> UNION {[[Operands(e) -> V] -> V] : e \in Expr}] :
               \A e \in Expr : s[e] \in [[Operands(e) -> V] -> V]}

\* The texts shorter than n, and a function that follows the step on them.
Shorter(n) == {e \in Expr : length[e] < n}
Solves(f, s, V, n) ==
  /\ f \in [Shorter(n) -> V]
  /\ \A e \in Shorter(n) : f[e] = s[e][[x \in Operands(e) |-> f[x]]]

\* What a set has of a text when it has it of the operands, it has of every text.
LEMMA TreeInduction ==
  ASSUME NEW G, \A e \in Expr : Operands(e) \subseteq G => e \in G
  PROVE  Expr \subseteq G
<1>. DEFINE bad == {n \in Nat : \E e \in Expr : e \notin G /\ length[e] = n}
            first == CHOOSE k \in bad : \A l \in bad : k <= l
<1>1. SUFFICES ASSUME NEW e \in Expr, e \notin G PROVE FALSE  OBVIOUS
<1>2. length[e] \in bad  BY <1>1, TreeAssumption
<1>3. first \in bad /\ \A l \in bad : first <= l  BY <1>2, LeastOf
<1>. HIDE DEF first
<1>4. PICK x \in Expr : x \notin G /\ length[x] = first  BY <1>3
<1>5. ASSUME NEW y \in Operands(x) PROVE y \in G
  <2>1. y \in Expr /\ length[y] < length[x] /\ length[y] \in Nat /\ length[x] \in Nat
    BY TreeAssumption
  <2>2. length[y] \in bad => FALSE
    <3>1. first \in Nat /\ (length[y] \in bad => first <= length[y])  BY <1>3
    <3>. HIDE DEF bad
    <3>. QED  BY <2>1, <3>1, <1>4
  <2>. QED  BY <2>1, <2>2
<1>. QED  BY <1>4, <1>5

\* Two functions that follow a step agree where both are defined.
LEMMA SolutionsAgree ==
  ASSUME NEW V, NEW s, NEW n \in Nat, NEW m \in Nat, n <= m,
         NEW f, NEW g, Solves(f, s, V, n), Solves(g, s, V, m)
  PROVE  \A e \in Shorter(n) : f[e] = g[e]
<1>. DEFINE G == {e \in Expr : e \in Shorter(n) => f[e] = g[e]}
<1>1. ASSUME NEW e \in Expr, Operands(e) \subseteq G PROVE e \in G
  <2>1. SUFFICES ASSUME e \in Shorter(n) PROVE f[e] = g[e]  OBVIOUS
  <2>2. e \in Shorter(m)  BY <2>1, TreeAssumption DEF Shorter
  <2>3. \A x \in Operands(e) : x \in Shorter(n)  BY <2>1, TreeAssumption DEF Shorter
  <2>4. \A x \in Operands(e) : f[x] = g[x]  BY <1>1, <2>3
  <2>5. [x \in Operands(e) |-> f[x]] = [x \in Operands(e) |-> g[x]]  BY <2>4
  <2>. QED  BY <2>1, <2>2, <2>5 DEF Solves
<1>2. Expr \subseteq G
  <2>. HIDE DEF G
  <2>. QED  BY <1>1, TreeInduction
<1>. QED  BY <1>2 DEF Shorter

\* There is one for the texts of any length.
LEMMA SolutionsExist ==
  ASSUME NEW V, NEW s \in Steps(V), NEW n \in Nat
  PROVE  \E f : Solves(f, s, V, n)
<1>. DEFINE bad == {m \in Nat : ~ \E f : Solves(f, s, V, m)}
            first == CHOOSE k \in bad : \A l \in bad : k <= l
<1>1. SUFFICES ASSUME bad # {} PROVE FALSE  OBVIOUS
<1>2. first \in bad /\ \A l \in bad : first <= l  BY <1>1, LeastOf
<1>. HIDE DEF first
<1>3. \A e \in Expr : s[e] \in [[Operands(e) -> V] -> V]  BY DEF Steps
<1>4. CASE first = 0
  <2>1. Shorter(0) = {}
    <3>1. \A e \in Expr : length[e] \in Nat  BY TreeAssumption
    <3>. QED  BY <3>1 DEF Shorter
  <2>2. Solves([e \in {} |-> e], s, V, 0)  BY <2>1 DEF Solves
  <2>. QED  BY <1>2, <1>4, <2>2
<1>5. CASE first # 0
  <2>1. first - 1 \in Nat /\ first - 1 \notin bad /\ first \in Nat  BY <1>2, <1>5
  <2>2. PICK f : Solves(f, s, V, first - 1)  BY <2>1
  <2>. DEFINE h == [e \in Shorter(first) |-> s[e][[x \in Operands(e) |-> f[x]]]]
  <2>3. ASSUME NEW e \in Shorter(first), NEW x \in Operands(e) PROVE x \in Shorter(first - 1)
    <3>1. e \in Expr /\ x \in Expr /\ length[x] < length[e] /\ length[e] < first
      BY TreeAssumption DEF Shorter
    <3>2. length[x] \in Nat /\ length[e] \in Nat  BY <3>1, TreeAssumption
    <3>3. length[x] < first - 1  BY <2>1, <3>1, <3>2
    <3>. QED  BY <3>1, <3>3 DEF Shorter
  <2>4. \A x \in Shorter(first - 1) : x \in Shorter(first)
    <3>1. \A x \in Expr : length[x] \in Nat  BY TreeAssumption
    <3>. QED  BY <2>1, <3>1 DEF Shorter
  <2>5. ASSUME NEW e \in Shorter(first) PROVE [x \in Operands(e) |-> f[x]] \in [Operands(e) -> V]
    BY <2>2, <2>3 DEF Solves
  <2>6. h \in [Shorter(first) -> V]
    <3>1. ASSUME NEW e \in Shorter(first)
          PROVE  s[e][[x \in Operands(e) |-> f[x]]] \in V
      BY <1>3, <2>5 DEF Shorter
    <3>. QED  BY <3>1
  <2>7. \A x \in Shorter(first - 1) : h[x] = f[x]  BY <2>2, <2>4 DEF Solves
  <2>8. ASSUME NEW e \in Shorter(first)
        PROVE  h[e] = s[e][[x \in Operands(e) |-> h[x]]]
    <3>1. [x \in Operands(e) |-> h[x]] = [x \in Operands(e) |-> f[x]]
      <4>. HIDE DEF h
      <4>. QED  BY <2>3, <2>7
    <3>2. h[e] = s[e][[x \in Operands(e) |-> f[x]]]  OBVIOUS
    <3>. HIDE DEF h
    <3>. QED  BY <3>1, <3>2
  <2>. HIDE DEF h
  <2>9. Solves(h, s, V, first)  BY <2>6, <2>8 DEF Solves
  <2>. QED  BY <1>2, <2>9
<1>. QED  BY <1>4, <1>5

\* So there is one for all texts.
LEMMA RecursionExists ==
  ASSUME NEW V, NEW s \in Steps(V)
  PROVE  \E f \in [Expr -> V] : \A e \in Expr : f[e] = s[e][[x \in Operands(e) |-> f[x]]]
<1>. DEFINE of(n) == CHOOSE f : Solves(f, s, V, n)
            f == [e \in Expr |-> of(length[e] + 1)[e]]
<1>1. \A n \in Nat : Solves(of(n), s, V, n)  BY SolutionsExist
<1>. HIDE DEF of
<1>2. ASSUME NEW e \in Expr PROVE length[e] + 1 \in Nat /\ e \in Shorter(length[e] + 1)
  <2>1. length[e] \in Nat  BY TreeAssumption
  <2>. QED  BY <2>1 DEF Shorter
<1>3. f \in [Expr -> V]
  <2>1. \A e \in Expr : of(length[e] + 1)[e] \in V  BY <1>1, <1>2 DEF Solves
  <2>. QED  BY <2>1
<1>4. ASSUME NEW e \in Expr PROVE f[e] = s[e][[x \in Operands(e) |-> f[x]]]
  <2>. DEFINE g == of(length[e] + 1)
  <2>1. Solves(g, s, V, length[e] + 1)  BY <1>1, <1>2
  <2>2. ASSUME NEW x \in Operands(e) PROVE f[x] = g[x]
    <3>1. x \in Expr /\ length[x] < length[e] /\ length[x] \in Nat /\ length[e] \in Nat
      BY TreeAssumption
    <3>2. length[x] + 1 \in Nat /\ x \in Shorter(length[x] + 1)  BY <3>1, <1>2
    <3>3. length[x] + 1 <= length[e] + 1 /\ length[e] + 1 \in Nat  BY <3>1
    <3>4. Solves(of(length[x] + 1), s, V, length[x] + 1)  BY <1>1, <3>2
    <3>5. of(length[x] + 1)[x] = g[x]
      <4>. HIDE DEF g
      <4>. QED  BY <2>1, <3>2, <3>3, <3>4, SolutionsAgree
    <3>. QED  BY <3>1, <3>5
  <2>3. [x \in Operands(e) |-> f[x]] = [x \in Operands(e) |-> g[x]]
    <3>. HIDE DEF f, g
    <3>. QED  BY <2>2
  <2>4. g[e] = s[e][[x \in Operands(e) |-> g[x]]]
    <3>. HIDE DEF g
    <3>. QED  BY <2>1, <1>2 DEF Solves
  <2>5. f[e] = g[e]  OBVIOUS
  <2>. HIDE DEF f, g
  <2>. QED  BY <2>3, <2>4, <2>5
<1>. HIDE DEF f
<1>. QED  BY <1>3, <1>4

-----------------------------------------------------------------------------
(* The recursive functions of an expression. *)

\* The leaves are texts without operators.
LeavesFrom(f) ==
  f = [e \in Expr |-> IF Rich(e) THEN UNION {f[x] : x \in Operands(e)} ELSE {e}]

LEMMA LeavesAt ==
  \A e \in Expr :
    Leaves[e] = IF Rich(e) THEN UNION {Leaves[x] : x \in Operands(e)} ELSE {e}
<1>. DEFINE V == SUBSET Expr
            s == [e \in Expr |-> [g \in [Operands(e) -> V] |->
                    IF Rich(e) THEN UNION {g[x] : x \in Operands(e)} ELSE {e}]]
<1>1. s \in Steps(V)
  <2>1. ASSUME NEW e \in Expr, NEW g \in [Operands(e) -> V]
        PROVE  (IF Rich(e) THEN UNION {g[x] : x \in Operands(e)} ELSE {e}) \in V
    OBVIOUS
  <2>2. \A e \in Expr : s[e] \in [[Operands(e) -> V] -> V]  BY <2>1
  <2>. HIDE DEF s, V
  <2>3. s = [e \in Expr |-> s[e]]  BY DEF s
  <2>. QED  BY <2>2, <2>3 DEF Steps
<1>2. \E f : LeavesFrom(f)
  <2>1. PICK f \in [Expr -> V] : \A e \in Expr : f[e] = s[e][[x \in Operands(e) |-> f[x]]]
    <3>. HIDE DEF s, V
    <3>. QED  BY <1>1, RecursionExists
  <2>2. ASSUME NEW e \in Expr
        PROVE  f[e] = IF Rich(e) THEN UNION {f[x] : x \in Operands(e)} ELSE {e}
    <3>. DEFINE g == [x \in Operands(e) |-> f[x]]
    <3>1. g \in [Operands(e) -> V]  BY TreeAssumption
    <3>2. f[e] = IF Rich(e) THEN UNION {g[x] : x \in Operands(e)} ELSE {e}
      BY <2>1, <3>1
    <3>3. {g[x] : x \in Operands(e)} = {f[x] : x \in Operands(e)}  OBVIOUS
    <3>. HIDE DEF g, V
    <3>. QED  BY <3>2, <3>3
  <2>. QED  BY <2>2 DEF LeavesFrom
<1>3. Leaves = CHOOSE f : LeavesFrom(f)  BY DEF Leaves, LeavesFrom
<1>4. LeavesFrom(Leaves)  BY <1>2, <1>3
<1>5. ASSUME NEW e \in Expr
      PROVE  Leaves[e] = IF Rich(e) THEN UNION {Leaves[x] : x \in Operands(e)} ELSE {e}
  BY <1>4 DEF LeavesFrom
<1>. QED  BY <1>5

LEMMA LeavesType ==
  \A e \in Expr : Leaves[e] \subseteq {x \in Expr : ~Rich(x)}
<1>. DEFINE G == {e \in Expr : Leaves[e] \subseteq {x \in Expr : ~Rich(x)}}
<1>1. ASSUME NEW e \in Expr, Operands(e) \subseteq G PROVE e \in G
  <2>1. Leaves[e] = IF Rich(e) THEN UNION {Leaves[x] : x \in Operands(e)} ELSE {e}
    BY LeavesAt
  <2>. QED  BY <1>1, <2>1
<1>2. Expr \subseteq G
  <2>. HIDE DEF G
  <2>. QED  BY <1>1, TreeInduction
<1>. QED  BY <1>2

\* So their names are names.
LEMMA LeafNamesType ==
  ASSUME NEW e \in Expr PROVE LeafNames(e) \subseteq Name
BY LeavesType, ExprAssumption DEF LeafNames

\* What has names is a chain of what has, or a leaf.
BuiltOf(ops, f) ==
  f = [e \in Expr |-> \/ ~Rich(e)
                      \/ Kind(e) \in ops /\ \A x \in Operands(e) : f[x]]

LEMMA HasNamesBelow ==
  \A e \in Expr : HasNames[e] =>
    \/ ~Rich(e)
    \/ /\ Kind(e) \in {"and", "or", "with"}
       /\ \A x \in Operands(e) : HasNames[x]
<1>. DEFINE ops == {"and", "or", "with"}
            s == [e \in Expr |-> [g \in [Operands(e) -> BOOLEAN] |->
                    ~Rich(e) \/ (Kind(e) \in ops /\ \A x \in Operands(e) : g[x])]]
<1>1. s \in Steps(BOOLEAN)
  <2>1. \A e \in Expr : s[e] \in [[Operands(e) -> BOOLEAN] -> BOOLEAN]  OBVIOUS
  <2>. HIDE DEF s
  <2>2. s = [e \in Expr |-> s[e]]  BY DEF s
  <2>. QED  BY <2>1, <2>2 DEF Steps
<1>2. \E f : BuiltOf(ops, f)
  <2>1. PICK f \in [Expr -> BOOLEAN] :
          \A e \in Expr : f[e] = s[e][[x \in Operands(e) |-> f[x]]]
    <3>. HIDE DEF s
    <3>. QED  BY <1>1, RecursionExists
  <2>2. ASSUME NEW e \in Expr
        PROVE  f[e] = (~Rich(e) \/ (Kind(e) \in ops /\ \A x \in Operands(e) : f[x]))
    <3>. DEFINE g == [x \in Operands(e) |-> f[x]]
    <3>1. g \in [Operands(e) -> BOOLEAN]  BY TreeAssumption
    <3>2. f[e] = (~Rich(e) \/ (Kind(e) \in ops /\ \A x \in Operands(e) : g[x]))
      BY <2>1, <3>1
    <3>3. (\A x \in Operands(e) : g[x]) <=> (\A x \in Operands(e) : f[x])  OBVIOUS
    <3>. HIDE DEF g
    <3>. QED  BY <3>2, <3>3
  <2>. HIDE DEF ops
  <2>3. f = [e \in Expr |-> ~Rich(e) \/ (Kind(e) \in ops /\ \A x \in Operands(e) : f[x])]
    BY <2>1, <2>2
  <2>. QED  BY <2>3 DEF BuiltOf
<1>3. HasNames = CHOOSE f : BuiltOf(ops, f)  BY DEF HasNames, BuiltFrom, BuiltOf
<1>4. BuiltOf(ops, HasNames)  BY <1>2, <1>3
<1>5. ASSUME NEW e \in Expr
      PROVE  HasNames[e] = (~Rich(e) \/ (Kind(e) \in ops /\ \A x \in Operands(e) : HasNames[x]))
  <2>. HIDE DEF ops
  <2>1. HasNames = [x \in Expr |-> ~Rich(x) \/ (Kind(x) \in ops /\ \A y \in Operands(x) : HasNames[y])]
    BY <1>4 DEF BuiltOf
  <2>. QED  BY <2>1
<1>. QED  BY <1>5

\* The first name of a text is that of its first operand.
FirstFrom(f) ==
  f = [e \in Expr |-> IF Kind(e) \in {"and", "or", "with"} THEN f[node[e].args[1]]
                      ELSE Bare(e)]

LEMMA FirstNameAt ==
  /\ \A e \in Expr : FirstName[e] = IF Kind(e) \in {"and", "or", "with"}
                                   THEN FirstName[node[e].args[1]] ELSE Bare(e)
  /\ \A e \in Expr : Kind(e) \in {"and", "or", "with"} => node[e].args[1] \in Operands(e)
<1>. DEFINE V == {Bare(e) : e \in Expr}
            s == [e \in Expr |-> [g \in [Operands(e) -> V] |->
                    IF Kind(e) \in {"and", "or", "with"} THEN g[node[e].args[1]] ELSE Bare(e)]]
<1>0. ASSUME NEW e \in Expr, Kind(e) \in {"and", "or", "with"}
      PROVE  node[e].args[1] \in Operands(e)
  <2>1. 1 \in DOMAIN node[e].args  BY <1>0, TreeAssumption
  <2>2. node[e].kind \in {"and", "or", "with"}  BY <1>0 DEF Kind
  <2>3. Operands(e) = {node[e].args[i] : i \in DOMAIN node[e].args}  BY <2>2 DEF Operands
  <2>. QED  BY <2>1, <2>3
<1>1. s \in Steps(V)
  <2>1. ASSUME NEW e \in Expr, NEW g \in [Operands(e) -> V]
        PROVE  (IF Kind(e) \in {"and", "or", "with"} THEN g[node[e].args[1]] ELSE Bare(e)) \in V
    BY <1>0
  <2>2. \A e \in Expr : s[e] \in [[Operands(e) -> V] -> V]  BY <2>1
  <2>. HIDE DEF s, V
  <2>3. s = [e \in Expr |-> s[e]]  BY DEF s
  <2>. QED  BY <2>2, <2>3 DEF Steps
<1>2. \E f : FirstFrom(f)
  <2>1. PICK f \in [Expr -> V] : \A e \in Expr : f[e] = s[e][[x \in Operands(e) |-> f[x]]]
    <3>. HIDE DEF s, V
    <3>. QED  BY <1>1, RecursionExists
  <2>2. ASSUME NEW e \in Expr
        PROVE  f[e] = IF Kind(e) \in {"and", "or", "with"} THEN f[node[e].args[1]] ELSE Bare(e)
    <3>. DEFINE g == [x \in Operands(e) |-> f[x]]
    <3>1. g \in [Operands(e) -> V]
      <4>1. Operands(e) \subseteq Expr  BY TreeAssumption
      <4>. HIDE DEF V
      <4>. QED  BY <4>1
    <3>2. f[e] = IF Kind(e) \in {"and", "or", "with"} THEN g[node[e].args[1]] ELSE Bare(e)
      BY <2>1, <3>1
    <3>3. Kind(e) \in {"and", "or", "with"} => g[node[e].args[1]] = f[node[e].args[1]]
      BY <1>0
    <3>. HIDE DEF g, V
    <3>. QED  BY <3>2, <3>3
  <2>. QED  BY <2>2 DEF FirstFrom
<1>3. FirstName = CHOOSE f : FirstFrom(f)  BY DEF FirstName, FirstFrom
<1>4. FirstFrom(FirstName)  BY <1>2, <1>3
<1>5. ASSUME NEW e \in Expr
      PROVE  FirstName[e] = IF Kind(e) \in {"and", "or", "with"}
                            THEN FirstName[node[e].args[1]] ELSE Bare(e)
  BY <1>4 DEF FirstFrom
<1>. QED  BY <1>0, <1>5

\* It is a name where there are names.
LEMMA FirstNameType == \A e \in Expr : HasNames[e] => FirstName[e] \in Name
<1>. DEFINE G == {e \in Expr : HasNames[e] => FirstName[e] \in Name}
<1>1. ASSUME NEW e \in Expr, Operands(e) \subseteq G PROVE e \in G
  <2>1. FirstName[e] = IF Kind(e) \in {"and", "or", "with"} THEN FirstName[node[e].args[1]]
                       ELSE Bare(e)
    BY FirstNameAt
  <2>2. CASE Kind(e) \in {"and", "or", "with"}
    <3>1. Rich(e)  BY <2>2 DEF Rich
    <3>2. HasNames[e] => HasNames[node[e].args[1]]  BY <2>2, <3>1, FirstNameAt, HasNamesBelow
    <3>3. node[e].args[1] \in G  BY <1>1, <2>2, FirstNameAt
    <3>. QED  BY <2>1, <2>2, <3>2, <3>3
  <2>3. CASE Kind(e) \notin {"and", "or", "with"}
    <3>1. HasNames[e] => ~Rich(e)  BY <2>3, HasNamesBelow
    <3>2. ~Rich(e) => Bare(e) \in Name  BY ExprAssumption
    <3>. QED  BY <2>1, <2>3, <3>1, <3>2
  <2>. QED  BY <2>2, <2>3
<1>2. Expr \subseteq G
  <2>. HIDE DEF G
  <2>. QED  BY <1>1, TreeInduction
<1>. QED  BY <1>2

-----------------------------------------------------------------------------
(* Reading an expression. *)

\* The effects require knows besides those of a plain capability.
LEMMA RichEffects ==
  /\ Defer \in Effect
  /\ \A e \in Expr : Complain("rich", e) \in Effect
  /\ \A x \in Repositories : \A k : Overridden(x, k) => Pull(x.overrides[k]) \in Effect
<1>1. Defer \in Effect  BY DEF Defer, Nothing, Effect
<1>2. ASSUME NEW e \in Expr PROVE Complain("rich", e) \in Effect
  <2>1. [kind |-> "rich", expr |-> e] \in Problem  BY DEF Problem
  <2>. QED  BY <2>1 DEF Nothing, Complain, Effect
<1>3. ASSUME NEW x \in Repositories, NEW k, Overridden(x, k)
      PROVE  Pull(x.overrides[k]) \in Effect
  BY <1>3, EffectTypes, InputAssumption DEF Overridden
<1>. QED  BY <1>1, <1>2, <1>3

\* One of several packages, or a choice among them.
LEMMA PreferType ==
  ASSUME NEW e \in OverrideKey, NEW m \in SUBSET Pkg, m # {}, NEW newest \in SUBSET m
  PROVE  AnyOf(m) \in Effect /\ prefer(e, m, newest) \in Effect
<1>1. (CHOOSE p \in m : TRUE) \in m  OBVIOUS
<1>2. newest # {} => (CHOOSE p \in newest : TRUE) \in newest  OBVIOUS
<1>3. \A p \in m : Pull(p) \in Effect  BY EffectTypes
<1>4. m \in SUBSET Name  BY InputAssumption
<1>5. Choose(e, m) \in Effect  BY <1>4, EffectTypes
<1>. QED  BY <1>1, <1>2, <1>3, <1>5 DEF AnyOf, prefer

\* A plain capability inside an expression, by its name.
LEMMA ByNameType ==
  ASSUME NEW x \in Repositories, NEW n \in Name
  PROVE  resolve(x, n) \in Effect /\ x.provides[n] \in SUBSET Pkg
<1>1. node[n] = [kind |-> "cap", name |-> n, op |-> "any",
                      ver |-> [low |-> 0, high |-> 0]]
  BY ExprAssumption, Zenon
<1>2. node[n].kind = "cap" /\ n \in Expr  BY <1>1, ExprAssumption
<1>3. resolve(x, n) \in Effect  BY <1>2, ResolveOutcome DEF Rich, Kind
<1>4. x.provides \in [Name -> SUBSET Pkg]  BY InputAssumption
<1>. QED  BY <1>3, <1>4

\* "with" and "without".
LEMMA RequireWithType ==
  ASSUME NEW x \in Repositories, NEW e \in Expr, Kind(e) \in {"with", "without"}
  PROVE  require_with(x, e) \in Effect
<1>1. LeafNames(e) \subseteq Name  BY LeafNamesType
<1>2. ASSUME NEW n \in Name PROVE resolve_range(x, e, n) \in Effect
  <2>. DEFINE fit == InRange(x, e, n)
              newest == NewestOf(x, n, fit, {})
  <2>1. fit \in SUBSET Pkg  BY ByNameType DEF InRange
  <2>2. newest \in SUBSET fit  BY NewestAmong
  <2>. HIDE DEF fit, newest
  <2>0. joined[e] \in OverrideKey  BY ExprAssumption
  <2>3. fit # {} => AnyOf(fit) \in Effect /\ prefer(joined[e], fit, newest) \in Effect
    BY <2>0, <2>1, <2>2, PreferType
  <2>4. Complain("unresolved", e) \in Effect  BY EffectTypes
  <2>5. Overridden(x, n) => Pull(x.overrides[n]) \in Effect  BY RichEffects
  <2>6. pick_range(x, e, n, fit) \in Effect
    BY <2>3, <2>4, <2>5 DEF pick_range, newest
  <2>. QED  BY <2>6 DEF resolve_range, fit
<1>3. ASSUME Kind(e) = "with", Cardinality(LeafNames(e)) = 1
      PROVE  (CHOOSE n \in LeafNames(e) : TRUE) \in Name
  <2>1. LeafNames(e) # {}  BY <1>3, FS_EmptySet
  <2>. QED  BY <1>1, <2>1
<1>4. ASSUME Readable(e) PROVE Intersect(x, e) \in SUBSET Pkg
  <2>1. CASE Kind(e) = "with"  BY <2>1 DEF Intersect
  <2>2. CASE Kind(e) = "without"
    <3>1. Operands(e) = {node[e].left, node[e].right}
      BY <2>2 DEF Operands, Kind
    <3>2. node[e].left \in Expr /\ node[e].right \in Expr  BY <3>1, TreeAssumption
    <3>3. HasNames[node[e].left]  BY <1>4, <2>2 DEF Readable
    <3>4. x.provides[FirstName[node[e].left]] \in SUBSET Pkg
      BY <3>2, <3>3, FirstNameType, ByNameType
    <3>. QED  BY <2>2, <3>4 DEF Intersect
  <2>. QED  BY <2>1, <2>2
<1>5. ASSUME NEW m \in SUBSET Pkg PROVE among(x, e, m) \in Effect
  <2>1. Cardinality(m) = 1 => AnyOf(m) \in Effect
    <3>1. Cardinality(m) = 1 => m # {}  BY FS_EmptySet
    <3>. QED  BY <3>1, PreferType, ExprAssumption
  <2>2. Overridden(x, e) => Pull(x.overrides[e]) \in Effect  BY RichEffects
  <2>3. Complain("unresolved", e) \in Effect  BY EffectTypes
  <2>. QED  BY <2>1, <2>2, <2>3 DEF among
<1>6. Complain("rich", e) \in Effect  BY RichEffects
<1>. QED  BY <1>2, <1>3, <1>4, <1>5, <1>6 DEF require_with

\* "or".
LEMMA RequireOrType ==
  ASSUME NEW x \in Repositories, NEW e \in Expr, NEW sat
  PROVE  require_or(x, sat, e) \in Effect
<1>. DEFINE reads == {resolve(x, n) : n \in LeafNames(e)}
            live == UNION {r.pkgs : r \in reads}
<1>1. LeafNames(e) \subseteq Name  BY LeafNamesType
<1>2. reads \subseteq Effect  BY <1>1, ByNameType
<1>3. live \in SUBSET Pkg
  <2>. HIDE DEF reads
  <2>. QED  BY <1>2 DEF Effect
<1>4. Choose(e, LeafNames(e)) \in Effect  BY <1>1, EffectTypes, ExprAssumption
<1>5. settle_or(e, reads, live) \in Effect
  <2>. HIDE DEF reads, live
  <2>1. Cardinality(live) = 1 => live # {}  BY FS_EmptySet
  <2>2. Cardinality(live) = 1 => AnyOf(live) \in Effect
    BY <1>3, <2>1, PreferType, ExprAssumption
  <2>. QED  BY <1>4, <2>2 DEF settle_or
<1>6. alternatives(e, reads) \in Effect  BY <1>5 DEF alternatives
<1>. HIDE DEF reads
<1>7. Overridden(x, e) => Pull(x.overrides[e]) \in Effect  BY RichEffects
<1>8. Nothing \in Effect /\ Complain("rich", e) \in Effect  BY EffectTypes, RichEffects
<1>. QED  BY <1>6, <1>7, <1>8 DEF require_or, reads

\* "and".
LEMMA TogetherType ==
  ASSUME NEW e \in Expr, NEW g \in [Operands(e) -> Effect]
  PROVE  Together(e, g) \in Effect
<1>1. Operands(e) \subseteq Expr  BY TreeAssumption
<1>2. \A y \in Operands(e) : /\ g[y].pkgs \in SUBSET Pkg /\ g[y].pend \in SUBSET Expr
                             /\ g[y].choices \in SUBSET Choice
                             /\ g[y].problems \in SUBSET Problem
  BY DEF Effect
<1>3. UNION {g[y].pkgs : y \in Operands(e)} \in SUBSET Pkg  BY <1>2
<1>4. UNION {g[y].pend : y \in Operands(e)} \in SUBSET Expr  BY <1>2
<1>5. UNION {g[y].choices : y \in Operands(e)} \in SUBSET Choice  BY <1>2
<1>6. UNION {g[y].problems : y \in Operands(e)} \in SUBSET Problem  BY <1>2
<1>. QED  BY <1>1, <1>3, <1>4, <1>5, <1>6 DEF Together, Effect

\* What an expression demands, given what its operands do.
LEMMA DemandType ==
  ASSUME NEW x \in Repositories, NEW sat, NEW final, NEW e \in Expr,
         NEW g \in [Operands(e) -> Effect]
  PROVE  demand(x, sat, final, e, g) \in Effect
<1>. DEFINE t == node[e]
<1>1. t.kind \in {"cap", "and", "or", "with", "without", "if", "unless", "garbled"}
  BY TreeAssumption DEF Kind
<1>2. CASE t.kind = "cap"
  <2>1. t.name \in Name  BY <1>2, ExprAssumption DEF Rich, Kind, Bare
  <2>. QED  BY <1>2, <2>1, ByNameType DEF demand
<1>3. CASE t.kind = "and"  BY <1>3, TogetherType DEF demand
<1>4. CASE t.kind = "or"  BY <1>4, RequireOrType DEF demand
<1>5. CASE t.kind \in {"with", "without"}
  <2>1. Kind(e) \in {"with", "without"}  BY <1>5 DEF Kind
  <2>. QED  BY <1>5, <2>1, RequireWithType DEF demand
<1>6. CASE t.kind \in {"if", "unless"}
  <2>1. Operands(e) = {t.then, t.cond, t.else} \ {NoExpr}  BY <1>6 DEF Operands
  <2>2. t.then # NoExpr  BY <1>6, TreeAssumption DEF Kind
  <2>3. g[t.then] \in Effect /\ (t.else # NoExpr => g[t.else] \in Effect)  BY <2>1, <2>2
  <2>4. Nothing \in Effect /\ Defer \in Effect  BY EffectTypes, RichEffects
  <2>5. CASE t.kind = "if"
    <3>1. CASE sat[t.cond]  BY <2>3, <2>5, <3>1 DEF demand
    <3>2. CASE ~sat[t.cond]  BY <2>3, <2>4, <2>5, <3>2 DEF demand
    <3>. QED  BY <3>1, <3>2
  <2>6. CASE t.kind = "unless"
    <3>1. CASE sat[t.cond]  BY <2>3, <2>4, <2>6, <3>1 DEF demand
    <3>2. CASE ~sat[t.cond]  BY <2>3, <2>4, <2>6, <3>2 DEF demand
    <3>. QED  BY <3>1, <3>2
  <2>. QED  BY <1>6, <2>5, <2>6
<1>7. CASE t.kind = "garbled"  BY <1>7, RichEffects DEF demand
<1>. QED  BY <1>1, <1>2, <1>3, <1>4, <1>5, <1>6, <1>7

\* So every expression reads as an effect, however deep it nests.
DemandsOf(x, sat, final, f) ==
  f = [e \in Expr |-> demand(x, sat, final, e, [y \in Operands(e) |-> f[y]])]

LEMMA RequireAt ==
  ASSUME NEW x \in Repositories, NEW S, NEW final
  PROVE  DemandsOf(x, satisfied(x, S), final, require(x, S, final))
<1>. DEFINE sat == satisfied(x, S)
            s == [d \in Expr |-> [g \in [Operands(d) -> Effect] |->
                                    demand(x, sat, final, d, g)]]
            of == CHOOSE f : DemandsOf(x, sat, final, f)
<1>. HIDE DEF sat
<1>1. s \in Steps(Effect)
  <2>1. ASSUME NEW d \in Expr, NEW g \in [Operands(d) -> Effect]
        PROVE  demand(x, sat, final, d, g) \in Effect
    BY DemandType
  <2>2. \A d \in Expr : s[d] \in [[Operands(d) -> Effect] -> Effect]  BY <2>1
  <2>. HIDE DEF s
  <2>3. s = [d \in Expr |-> s[d]]  BY DEF s
  <2>. QED  BY <2>2, <2>3 DEF Steps
<1>2. \E f : DemandsOf(x, sat, final, f)
  <2>1. PICK f \in [Expr -> Effect] : \A d \in Expr : f[d] = s[d][[y \in Operands(d) |-> f[y]]]
    <3>. HIDE DEF s
    <3>. QED  BY <1>1, RecursionExists
  <2>2. ASSUME NEW d \in Expr
        PROVE  f[d] = demand(x, sat, final, d, [y \in Operands(d) |-> f[y]])
    <3>. DEFINE g == [y \in Operands(d) |-> f[y]]
    <3>1. g \in [Operands(d) -> Effect]
      <4>1. Operands(d) \subseteq Expr  BY TreeAssumption
      <4>. QED  BY <4>1
    <3>2. s[d][g] = demand(x, sat, final, d, g)
      <4>. HIDE DEF g
      <4>. QED  BY <3>1
    <3>3. f[d] = s[d][g]  BY <2>1
    <3>. HIDE DEF s, g
    <3>4. f[d] = demand(x, sat, final, d, g)  BY <3>2, <3>3
    <3>. QED  BY <3>4 DEF g
  <2>3. f = [d \in Expr |-> demand(x, sat, final, d, [y \in Operands(d) |-> f[y]])]
    <3>. HIDE DEF s
    <3>. QED  BY <2>1, <2>2
  <2>. HIDE DEF s
  <2>. QED  BY <2>3 DEF DemandsOf
<1>3. require(x, S, final) = of  BY DEF require, demands, DemandsOf, sat
<1>4. DemandsOf(x, sat, final, of)  BY <1>2
<1>. HIDE DEF of
<1>. QED  BY <1>3, <1>4 DEF sat

LEMMA RequireType ==
  ASSUME NEW x \in Repositories, NEW S, NEW final, NEW e \in Expr
  PROVE  require(x, S, final)[e] \in Effect
<1>. DEFINE of == require(x, S, final)
            G == {d \in Expr : of[d] \in Effect}
<1>1. ASSUME NEW d \in Expr, Operands(d) \subseteq G PROVE d \in G
  <2>1. of[d] = demand(x, satisfied(x, S), final, d, [y \in Operands(d) |-> of[y]])
    BY RequireAt DEF DemandsOf
  <2>. HIDE DEF of
  <2>2. [y \in Operands(d) |-> of[y]] \in [Operands(d) -> Effect]  BY <1>1
  <2>. QED  BY <2>1, <2>2, DemandType
<1>2. Expr \subseteq G
  <2>. HIDE DEF G
  <2>. QED  BY <1>1, TreeInduction
<1>. QED  BY <1>2

-----------------------------------------------------------------------------
(* Readings: what a batch of them adds to each list has the list's type.   *)

Reading == [who : Who, eff : Effect]

\* Reading any requirement, plain or rich, at any point of the run.
LEMMA ReadType ==
  ASSUME NEW S \in SUBSET Pkg, NEW final \in BOOLEAN, NEW e \in Expr, w \in Repositories
  PROVE  Read(require(w, S, final), e) \in Effect
<1>1. require(w, S, final)[e] \in Effect  BY RequireType
<1>. QED  BY <1>1, ResolveOutcome, EffectTypes DEF Read

LEMMA ReadingsType ==
  ASSUME NEW R \in SUBSET Reading
  PROVE  /\ Pulled(R) \subseteq Pkg
         /\ Waits(R) \subseteq [expr : Expr, who : Who]
         /\ Opened(R) \subseteq [expr : OverrideKey, alts : SUBSET Name, who : Who]
         /\ Reported(R) \subseteq [kind : {"unresolved", "rich", "choice"},
                                   expr : OverrideKey, who : Who]
<1>0. \A r \in R : /\ r.who \in Who /\ r.eff.pkgs \subseteq Pkg
                   /\ r.eff.pend \subseteq Expr
                   /\ r.eff.choices \subseteq Choice
                   /\ r.eff.problems \subseteq Problem
  BY DEF Reading, Effect
<1>1. Pulled(R) \subseteq Pkg  BY <1>0 DEF Pulled
<1>2. Waits(R) \subseteq [expr : Expr, who : Who]  BY <1>0 DEF Waits
<1>3. Opened(R) \subseteq [expr : OverrideKey, alts : SUBSET Name, who : Who]
  BY <1>0 DEF Opened, Choice
<1>4. Reported(R) \subseteq [kind : {"unresolved", "rich", "choice"},
                             expr : OverrideKey, who : Who]
  BY <1>0, ExprAssumption DEF Reported, Problem
<1>. QED  BY <1>1, <1>2, <1>3, <1>4

\* The three batches the actions read are sets of readings.
LEMMA BatchTypes ==
  ASSUME TypeOK
  PROVE  /\ \A final \in BOOLEAN : Reread(final) \in SUBSET Reading
         /\ \A p \in Pkg, S \in SUBSET Pkg : ReadRequires(p, S) \in SUBSET Reading
         /\ \A S \in SUBSET Pkg : ReadCaller(S) \in SUBSET Reading
<1>1. ASSUME NEW final \in BOOLEAN PROVE Reread(final) \in SUBSET Reading
  <2>1. ASSUME NEW i \in pending
        PROVE  /\ i.who \in Who
               /\ Read(require(w, seen, final), i.expr) \in Effect
    BY ReadType DEF TypeOK
  <2>. QED  BY <2>1 DEF Reread, Reading
<1>2. ASSUME NEW p \in Pkg, NEW S \in SUBSET Pkg
      PROVE  ReadRequires(p, S) \in SUBSET Reading
  <2>1. \A e \in asks.requires[p] : Read(require(w, S, FALSE), e) \in Effect
    BY ReadType DEF TypeOK, Ask
  <2>2. ASSUME NEW r \in ReadRequires(p, S) PROVE r \in Reading
    <3>1. PICK e \in asks.requires[p] :
            r = [who |-> p, eff |-> Read(require(w, S, FALSE), e)]
      BY DEF ReadRequires
    <3>. QED  BY <2>1, <3>1 DEF Reading, Who
  <2>. QED  BY <2>2
<1>3. ASSUME NEW S \in SUBSET Pkg PROVE ReadCaller(S) \in SUBSET Reading
  <2>1. ASSUME NEW e \in asks.extra
        PROVE  /\ Read(require(w, S, FALSE), e) \in Effect
               /\ ~Rich(e) => resolve(w, Bare(e)) \in Effect
    <3>1. e \in Expr /\ w \in Repositories  BY DEF TypeOK, Ask
    <3>2. ASSUME ~Rich(e) PROVE Bare(e) \in Expr /\ ~Rich(Bare(e))
      <4>1. Bare(e) \in Name  BY <3>1, <3>2, ExprAssumption
      <4>a. node[Bare(e)] = [kind |-> "cap", name |-> Bare(e), op |-> "any",
                      ver |-> [low |-> 0, high |-> 0]]
        BY <4>1, ExprAssumption, Zenon
      <4>2. node[Bare(e)].kind = "cap"  BY <4>a
      <4>. QED  BY <4>1, <4>2, ExprAssumption DEF Rich, Kind
    <3>. QED  BY <3>1, <3>2, ReadType, ResolveOutcome
  <2>2. ASSUME NEW r \in ReadCaller(S) PROVE r \in Reading
    <3>1. PICK e \in asks.extra :
            r = [who |-> Src, eff |-> IF Rich(e) THEN Read(require(w, S, FALSE), e)
                                      ELSE resolve(w, Bare(e))]
      BY DEF ReadCaller
    <3>. QED  BY <2>1, <3>1 DEF Reading, Who
  <2>. QED  BY <2>2
<1>. QED  BY <1>1, <1>2, <1>3

-----------------------------------------------------------------------------
(* Type correctness. *)

LEMMA InitType == ClosureInit => TypeOK
BY InputAssumption DEF ClosureInit, TypeOK, Ask, Phases, Repositories, Asks

LEMMA NextType == TypeOK /\ [ClosureNext]_closureVars => TypeOK'
<1>. SUFFICES ASSUME TypeOK, [ClosureNext]_closureVars PROVE TypeOK'
  OBVIOUS
<1>r. \A R \in SUBSET Reading :
        /\ Pulled(R) \subseteq Pkg
        /\ Waits(R) \subseteq [expr : Expr, who : Who]
        /\ Opened(R) \subseteq [expr : OverrideKey, alts : SUBSET Name, who : Who]
        /\ Reported(R) \subseteq [kind : {"unresolved", "rich", "choice"},
                                  expr : OverrideKey, who : Who]
  BY ReadingsType
<1>1. CASE ReadExtra
  <2>1. ReadCaller({}) \in SUBSET Reading  BY BatchTypes
  <2>. QED  BY <1>1, <1>r, <2>1 DEF ReadExtra, Learn, TypeOK, Phases
<1>2. ASSUME NEW p \in Pkg, Pop(p) PROVE TypeOK'
  <2>1. seen \cup {p} \in SUBSET Pkg  BY DEF TypeOK
  <2>2. ReadRequires(p, seen \cup {p}) \in SUBSET Reading  BY <2>1, BatchTypes
  <2>. QED  BY <1>2, <1>r, <2>1, <2>2 DEF Pop, Learn, TypeOK, Phases
<1>3. CASE RecheckPending
  <2>1. Reread(FALSE) \in SUBSET Reading  BY BatchTypes
  <2>. QED  BY <1>3, <1>r, <2>1 DEF RecheckPending, Learn, TypeOK, Phases
<1>4. CASE RecheckChoices
  <2>1. \A k \in DOMAIN w.overrides : w.overrides[k] \in Pkg
    BY InputAssumption DEF TypeOK
  <2>. QED  BY <1>4, <2>1 DEF RecheckChoices, CloseChoices, StillOpen,
                     TypeOK, Phases, Overridden
<1>5. CASE SettleUnless
  <2>1. Reread(TRUE) \in SUBSET Reading  BY BatchTypes
  <2>. QED  BY <1>5, <1>r, <2>1 DEF SettleUnless, Learn, TypeOK, Phases
<1>6. CASE Report
  <2>1. ASSUME NEW e \in {c.expr : c \in choices}
        PROVE  e \in OverrideKey /\ (CHOOSE p \in Askers(e) : TRUE) \in Who
    <3>1. PICK c \in choices : c.expr = e  BY <2>1
    <3>2. c.who \in Askers(e)  BY <3>1 DEF Askers
    <3>3. Askers(e) \subseteq Who  BY DEF Askers, TypeOK
    <3>4. (CHOOSE p \in Askers(e) : TRUE) \in Askers(e)  BY <3>2
    <3>. QED  BY <3>1, <3>3, <3>4 DEF TypeOK
  <2>2. problems' \subseteq [kind : {"unresolved", "rich", "choice"},
                             expr : OverrideKey, who : Who]
    <3>. DEFINE first(e) == CHOOSE p \in Askers(e) : TRUE
    <3>1. problems' = problems \cup {[kind |-> "choice", expr |-> e, who |-> first(e)] :
                                       e \in {c.expr : c \in choices}}
      BY <1>6 DEF Report
    <3>2. \A e \in {c.expr : c \in choices} : e \in OverrideKey /\ first(e) \in Who
      BY <2>1
    <3>. HIDE DEF first
    <3>. QED  BY <3>1, <3>2 DEF TypeOK
  <2>. QED  BY <1>6, <2>2 DEF Report, TypeOK, Phases
<1>7. CASE UNCHANGED closureVars  BY <1>7 DEF closureVars, TypeOK
<1>. QED  BY <1>1, <1>2, <1>3, <1>4, <1>5, <1>6, <1>7 DEF ClosureNext, Returned

\* Every list of the worklist algorithm only ever holds what its type says.
THEOREM TypeCorrect == ClosureSpec => []TypeOK
<1>. QED  BY InitType, NextType, PTL DEF ClosureSpec

-----------------------------------------------------------------------------
(* Every plain requirement of a member is settled.                         *)

LEMMA InitPlain == ClosureInit => PlainInv
BY DEF ClosureInit, PlainInv, Done

\* What settles a requirement stays when the lists only grow.
LEMMA OpenGrows ==
  ASSUME NEW p, NEW e, PlainOpen(p, e), UNCHANGED <<w, asks>>,
         seen \subseteq seen',
         seen \cup frontier \subseteq seen' \cup frontier',
         problems \subseteq problems', choices \subseteq choices'
  PROVE  PlainOpen(p, e)'
<1>1. Matching(w, e)' = Matching(w, e)
  BY DEF Matching, AnyVersionSatisfies, Versions
<1>2. \A a : capability_present(w, seen, a) => capability_present(w, seen, a)'
  BY DEF capability_present, Overridden
<1>3. \A k : Overridden(w, k)' = Overridden(w, k)  BY DEF Overridden
<1>4. CASE (seen \cup frontier) \cap Matching(w, e) # {}
  BY <1>1, <1>4 DEF PlainOpen
<1>5. CASE \E k \in {e, Bare(e)} :
             Overridden(w, k) /\ w.overrides[k] \in seen \cup frontier
  BY <1>3, <1>5 DEF PlainOpen, Bare
<1>6. CASE \E q \in problems : q.who = p /\ q.expr = e
  BY <1>6 DEF PlainOpen
<1>7. CASE [expr |-> e, alts |-> Matching(w, e), who |-> p] \in choices
  BY <1>1, <1>7 DEF PlainOpen
<1>8. CASE \E a \in Matching(w, e) : capability_present(w, seen, a)
  BY <1>1, <1>2, <1>8 DEF PlainOpen
<1>. QED  BY <1>4, <1>5, <1>6, <1>7, <1>8 DEF PlainOpen

\* The requirements of the package just popped.
LEMMA PopOpens ==
  ASSUME TypeOK, NEW p \in Pkg, Pop(p), NEW e \in asks.requires[p], ~Rich(e)
  PROVE  PlainOpen(p, e)'
<1>. DEFINE now == seen \cup {p}
            R   == ReadRequires(p, now)
            r   == [who |-> p, eff |-> resolve(w, e)]
<1>1. e \in Expr /\ w \in Repositories  BY DEF TypeOK, Ask
<1>2. r \in R
  <2>1. Read(require(w, now, FALSE), e) = resolve(w, e)  BY DEF Read
  <2>. QED  BY <2>1 DEF ReadRequires
<1>3. Outcome(w, e, resolve(w, e))  BY <1>1, ResolveOutcome
<1>4. /\ seen' = now /\ frontier' = (frontier \cup Pulled(R)) \ now
      /\ choices' = choices \cup Opened(R) /\ problems' = problems \cup Reported(R)
      /\ w' = w
  BY DEF Pop, Learn
<1>5. Matching(w, e)' = Matching(w, e)
  BY <1>4 DEF Matching, AnyVersionSatisfies, Versions
<1>6. CASE \E q \in Pkg : /\ resolve(w, e).pkgs = {q}
                          /\ \/ q \in Matching(w, e)
                             \/ \E k \in {e, Bare(e)} :
                                   Overridden(w, k) /\ w.overrides[k] = q
  <2>1. PICK q \in Pkg : /\ resolve(w, e).pkgs = {q}
                         /\ \/ q \in Matching(w, e)
                            \/ \E k \in {e, Bare(e)} :
                                  Overridden(w, k) /\ w.overrides[k] = q
    BY <1>6
  <2>2. q \in Pulled(R)  BY <1>2, <2>1 DEF Pulled
  <2>3. q \in seen' \cup frontier'  BY <1>4, <2>2
  <2>4. \A k : Overridden(w, k)' = Overridden(w, k)  BY <1>4 DEF Overridden
  <2>. QED  BY <1>4, <1>5, <2>1, <2>3, <2>4 DEF PlainOpen, Bare
<1>7. CASE resolve(w, e).problems = {[kind |-> "unresolved", expr |-> e]}
  <2>. DEFINE q == [kind |-> "unresolved", expr |-> e]
              t == [kind |-> "unresolved", expr |-> e, who |-> p]
  <2>1. t = [kind |-> q.kind, expr |-> q.expr, who |-> r.who]  OBVIOUS
  <2>2. q \in r.eff.problems  BY <1>7
  <2>3. t \in {[kind |-> x.kind, expr |-> x.expr, who |-> r.who] :
                  x \in r.eff.problems}
    BY <2>1, <2>2
  <2>4. t \in Reported(R)  BY <1>2, <2>3 DEF Reported
  <2>5. t \in problems' /\ t.who = p /\ t.expr = e  BY <1>4, <2>4
  <2>. QED  BY <2>5 DEF PlainOpen
<1>8. CASE resolve(w, e).choices = {[expr |-> e, alts |-> Matching(w, e)]}
  <2>. DEFINE c == [expr |-> e, alts |-> Matching(w, e)]
              t == [expr |-> e, alts |-> Matching(w, e), who |-> p]
  <2>1. t = [expr |-> c.expr, alts |-> c.alts, who |-> r.who]  OBVIOUS
  <2>2. c \in r.eff.choices  BY <1>8
  <2>3. t \in {[expr |-> x.expr, alts |-> x.alts, who |-> r.who] :
                  x \in r.eff.choices}
    BY <2>1, <2>2
  <2>4. t \in Opened(R)  BY <1>2, <2>3 DEF Opened
  <2>. QED  BY <1>4, <1>5, <2>4 DEF PlainOpen
<1>. QED  BY <1>3, <1>6, <1>7, <1>8 DEF Outcome

\* A choice that closes has a candidate present or fires its override.
LEMMA ClosingSettles ==
  ASSUME TypeOK, RecheckChoices, NEW p, NEW e, PlainOpen(p, e)
  PROVE  PlainOpen(p, e)'
<1>. DEFINE c == [expr |-> e, alts |-> Matching(w, e), who |-> p]
<1>1. UNCHANGED <<w, asks, seen, problems>>  BY DEF RecheckChoices, CloseChoices
<1>2. frontier \subseteq frontier'  BY DEF RecheckChoices, CloseChoices
<1>3. Matching(w, e)' = Matching(w, e)
  BY <1>1 DEF Matching, AnyVersionSatisfies, Versions
<1>4. \A a : capability_present(w, seen, a)' = capability_present(w, seen, a)
  BY <1>1 DEF capability_present, Overridden
<1>5. \A k : Overridden(w, k)' = Overridden(w, k)  BY <1>1 DEF Overridden
<1>6. CASE c \in choices
  <2>1. CASE \E a \in Matching(w, e) : capability_present(w, seen, a)
    BY <1>3, <1>4, <2>1 DEF PlainOpen
  <2>2. CASE /\ \A a \in Matching(w, e) : ~capability_present(w, seen, a)
             /\ Overridden(w, e)
    <3>1. w.overrides[e] \in seen' \cup frontier'
      BY <1>1, <1>6, <2>2 DEF RecheckChoices, CloseChoices, StillOpen
    <3>. QED  BY <1>1, <1>5, <2>2, <3>1 DEF PlainOpen
  <2>3. CASE /\ \A a \in Matching(w, e) : ~capability_present(w, seen, a)
             /\ ~Overridden(w, e)
    <3>1. c \in choices'  BY <1>6, <2>3 DEF RecheckChoices, CloseChoices, StillOpen
    <3>. QED  BY <1>3, <3>1 DEF PlainOpen
  <2>. QED  BY <2>1, <2>2, <2>3
<1>7. CASE c \notin choices
  <2>1. CASE (seen \cup frontier) \cap Matching(w, e) # {}
    BY <1>1, <1>2, <1>3, <2>1 DEF PlainOpen
  <2>2. CASE \E k \in {e, Bare(e)} :
               Overridden(w, k) /\ w.overrides[k] \in seen \cup frontier
    BY <1>1, <1>2, <1>5, <2>2 DEF PlainOpen, Bare
  <2>3. CASE \E q \in problems : q.who = p /\ q.expr = e
    BY <1>1, <2>3 DEF PlainOpen
  <2>4. CASE \E a \in Matching(w, e) : capability_present(w, seen, a)
    BY <1>3, <1>4, <2>4 DEF PlainOpen
  <2>. QED  BY <1>7, <2>1, <2>2, <2>3, <2>4 DEF PlainOpen
<1>. QED  BY <1>6, <1>7

LEMMA NextPlain == TypeOK /\ PlainInv /\ [ClosureNext]_closureVars => PlainInv'
<1>. SUFFICES ASSUME TypeOK, PlainInv, [ClosureNext]_closureVars PROVE PlainInv'
  OBVIOUS
<1>1. CASE ReadExtra
  <2>1. \A p \in seen : \A e \in asks.requires[p] : ~Rich(e) => PlainOpen(p, e)'
    BY <1>1, OpenGrows DEF ReadExtra, Learn, PlainInv
  <2>. QED  BY <1>1, <2>1 DEF ReadExtra, Learn, PlainInv, Done, Rich, Kind
<1>2. ASSUME NEW p \in Pkg, Pop(p) PROVE PlainInv'
  <2>1. \A q \in seen : \A e \in asks.requires[q] : ~Rich(e) => PlainOpen(q, e)'
    BY <1>2, OpenGrows DEF Pop, Learn, PlainInv
  <2>2. \A e \in asks.requires[p] : ~Rich(e) => PlainOpen(p, e)'
    BY <1>2, PopOpens
  <2>. QED  BY <1>2, <2>1, <2>2 DEF Pop, Learn, PlainInv, Done, Rich, Kind
<1>3. CASE RecheckPending
  <2>1. \A p \in seen : \A e \in asks.requires[p] : ~Rich(e) => PlainOpen(p, e)'
    BY <1>3, OpenGrows DEF RecheckPending, Learn, PlainInv
  <2>. QED  BY <1>3, <2>1 DEF RecheckPending, Learn, PlainInv, Done, Rich, Kind
<1>4. CASE RecheckChoices
  <2>1. \A p \in seen : \A e \in asks.requires[p] : ~Rich(e) => PlainOpen(p, e)'
    BY <1>4, ClosingSettles DEF PlainInv
  <2>2. UNCHANGED <<asks, seen>> /\ frontier \subseteq frontier'
    BY <1>4 DEF RecheckChoices, CloseChoices
  <2>3. phase' \in {"unless", "drain"} /\ (phase' = "unless" => frontier' = {})
    BY <1>4 DEF RecheckChoices, CloseChoices
  <2>. QED  BY <2>1, <2>2, <2>3 DEF PlainInv, Done, Rich, Kind
<1>5. CASE SettleUnless
  <2>1. \A p \in seen : \A e \in asks.requires[p] : ~Rich(e) => PlainOpen(p, e)'
    BY <1>5, OpenGrows DEF SettleUnless, Learn, PlainInv
  <2>. QED  BY <1>5, <2>1 DEF SettleUnless, Learn, PlainInv, Done,
                     Rich, Kind
<1>6. CASE Report
  <2>1. \A p \in seen : \A e \in asks.requires[p] : ~Rich(e) => PlainOpen(p, e)'
    BY <1>6, OpenGrows DEF Report, PlainInv
  <2>2. ASSUME NEW c \in choices
        PROVE  \E q \in problems' :
                 q.kind = "choice" /\ q.expr = c.expr /\ q.who \in Askers(c.expr)
    <3>. DEFINE first == CHOOSE p \in Askers(c.expr) : TRUE
                q == [kind |-> "choice", expr |-> c.expr, who |-> first]
    <3>1. c.who \in Askers(c.expr)  BY DEF Askers
    <3>2. first \in Askers(c.expr)  BY <3>1
    <3>3. q \in problems'
      <4>1. c.expr \in {d.expr : d \in choices}  OBVIOUS
      <4>2. q \in {[kind |-> "choice", expr |-> e, who |-> CHOOSE p \in Askers(e) : TRUE] :
                      e \in {d.expr : d \in choices}}
        BY <4>1
      <4>. HIDE DEF q
      <4>. QED  BY <1>6, <4>2 DEF Report
    <3>. HIDE DEF first
    <3>. QED  BY <3>2, <3>3
  <2>3. \A k : Askers(k)' = Askers(k)  BY <1>6 DEF Report, Askers
  <2>. QED  BY <1>6, <2>1, <2>2, <2>3 DEF Report, PlainInv, Done, Rich, Kind
<1>7. CASE UNCHANGED closureVars
  <2>1. \A p \in seen : \A e \in asks.requires[p] : ~Rich(e) => PlainOpen(p, e)'
    BY <1>7, OpenGrows DEF closureVars, PlainInv
  <2>2. \A k : Askers(k)' = Askers(k)  BY <1>7 DEF closureVars, Askers
  <2>. QED  BY <1>7, <2>1, <2>2 DEF closureVars, PlainInv, Done, Rich, Kind
<1>. QED  BY <1>1, <1>2, <1>3, <1>4, <1>5, <1>6, <1>7 DEF ClosureNext, Returned

\* An open choice of the end is on record for each of its askers.
LEMMA ChoiceFiled ==
  ASSUME PlainInv, Done, NEW c \in choices
  PROVE  FiledFor(c.who, c.expr)
<1>1. PICK q \in problems : q.kind = "choice" /\ q.expr = c.expr /\ q.who \in Askers(c.expr)
  BY DEF PlainInv
<1>2. c.who \in Askers(c.expr)  BY DEF Askers
<1>. QED  BY <1>1, <1>2 DEF FiledFor

LEMMA PlainInvSettles == PlainInv => PlainSettled
<1>. SUFFICES ASSUME PlainInv, Done PROVE PlainSettled
  BY DEF PlainSettled
<1>1. seen \cup frontier = seen  BY DEF PlainInv, Done
<1>2. ASSUME NEW p \in seen, NEW e \in asks.requires[p], ~Rich(e),
             [expr |-> e, alts |-> Matching(w, e), who |-> p] \in choices
      PROVE  FiledFor(p, e)
  <2>. DEFINE c == [expr |-> e, alts |-> Matching(w, e), who |-> p]
  <2>1. c.who = p /\ c.expr = e /\ c \in choices  BY <1>2
  <2>. HIDE DEF c
  <2>2. FiledFor(c.who, c.expr)  BY <2>1, ChoiceFiled
  <2>. QED  BY <2>1, <2>2
<1>3. ASSUME NEW p \in seen, NEW e \in asks.requires[p], ~Rich(e)
      PROVE  \/ seen \cap Matching(w, e) # {}
             \/ \E k \in {e, Bare(e)} : Overridden(w, k) /\ w.overrides[k] \in seen
             \/ FiledFor(p, e)
             \/ \E a \in Matching(w, e) : capability_present(w, seen, a)
  <2>1. PlainOpen(p, e)  BY <1>3 DEF PlainInv
  <2>2. (\E q \in problems : q.who = p /\ q.expr = e) => FiledFor(p, e)  BY DEF FiledFor
  <2>. QED  BY <1>1, <1>2, <1>3, <2>1, <2>2 DEF PlainOpen
<1>. QED  BY <1>1, <1>3 DEF PlainSettled, PlainInv

\* No plain Requires of a package in the returned closure goes missing
\* without a report, for any mix of boolean expressions beside it.
THEOREM PlainRequiresSettled == ClosureSpec => []PlainSettled
<1>. QED  BY InitType, NextType, InitPlain, NextPlain, PlainInvSettles, PTL DEF ClosureSpec

-----------------------------------------------------------------------------
(* What a closure makes of an expression, by the code and by rpm. *)

\* satisfied at a text, from what it is at the operands.
TruthOf(x, S, f) ==
  f = [e \in Expr |-> true_of(x, S, e, [y \in Operands(e) |-> f[y]])]

\* One of the two answers, whatever the operands answer.
LEMMA TruthType ==
  ASSUME NEW x, NEW S, NEW e \in Expr, NEW g \in [Operands(e) -> BOOLEAN]
  PROVE  true_of(x, S, e, g) \in BOOLEAN
<1>. DEFINE t == node[e]
<1>1. t.kind \in {"cap", "and", "or", "with", "without", "if", "unless", "garbled"}
  BY TreeAssumption DEF Kind
<1>2. CASE t.kind = "cap"
  <2>1. true_of(x, S, e, g) = capability_present(x, S, t.name)  BY <1>2 DEF true_of
  <2>2. capability_present(x, S, t.name) \in BOOLEAN
    <3>1. CASE Overridden(x, t.name)  BY <3>1 DEF capability_present
    <3>2. CASE ~Overridden(x, t.name)  BY <3>2 DEF capability_present
    <3>. QED  BY <3>1, <3>2
  <2>. QED  BY <2>1, <2>2
<1>3. CASE t.kind = "or"  BY <1>3 DEF true_of
<1>4. CASE t.kind \in {"and", "with"}  BY <1>4 DEF true_of
<1>5. CASE t.kind = "without"  BY <1>5 DEF true_of
<1>6. CASE t.kind \in {"if", "unless"}
  <2>1. Operands(e) = {t.then, t.cond, t.else} \ {NoExpr} /\ t.then # NoExpr
    BY <1>6, TreeAssumption DEF Operands, Kind
  <2>2. g[t.then] \in BOOLEAN /\ (t.else # NoExpr => g[t.else] \in BOOLEAN)  BY <2>1
  <2>. QED  BY <1>6, <2>2 DEF true_of
<1>7. CASE t.kind = "garbled"  BY <1>7 DEF true_of
<1>. QED  BY <1>1, <1>2, <1>3, <1>4, <1>5, <1>6, <1>7

\* So satisfied is the function its text says: the recursion has a solution.
LEMMA SatisfiedAt ==
  ASSUME NEW x, NEW S
  PROVE  TruthOf(x, S, satisfied(x, S))
<1>. DEFINE s == [e \in Expr |-> [g \in [Operands(e) -> BOOLEAN] |-> true_of(x, S, e, g)]]
<1>1. s \in Steps(BOOLEAN)
  <2>1. \A e \in Expr : \A g \in [Operands(e) -> BOOLEAN] : true_of(x, S, e, g) \in BOOLEAN
    BY TruthType
  <2>2. \A e \in Expr : s[e] \in [[Operands(e) -> BOOLEAN] -> BOOLEAN]  BY <2>1
  <2>. HIDE DEF s
  <2>3. s = [e \in Expr |-> s[e]]  BY DEF s
  <2>. QED  BY <2>2, <2>3 DEF Steps
<1>2. \E f : TruthOf(x, S, f)
  <2>1. PICK f \in [Expr -> BOOLEAN] : \A e \in Expr : f[e] = s[e][[y \in Operands(e) |-> f[y]]]
    <3>. HIDE DEF s
    <3>. QED  BY <1>1, RecursionExists
  <2>2. ASSUME NEW e \in Expr
        PROVE  f[e] = true_of(x, S, e, [y \in Operands(e) |-> f[y]])
    <3>. DEFINE g == [y \in Operands(e) |-> f[y]]
    <3>1. g \in [Operands(e) -> BOOLEAN]
      <4>1. Operands(e) \subseteq Expr  BY TreeAssumption
      <4>. QED  BY <4>1
    <3>2. s[e][g] = true_of(x, S, e, g)
      <4>. HIDE DEF g
      <4>. QED  BY <3>1
    <3>3. f[e] = s[e][g]  BY <2>1
    <3>. HIDE DEF s, g
    <3>4. f[e] = true_of(x, S, e, g)  BY <3>2, <3>3
    <3>. QED  BY <3>4 DEF g
  <2>3. f = [e \in Expr |-> true_of(x, S, e, [y \in Operands(e) |-> f[y]])]
    <3>. HIDE DEF s
    <3>. QED  BY <2>1, <2>2
  <2>. HIDE DEF s
  <2>. QED  BY <2>3 DEF TruthOf
<1>3. satisfied(x, S) = CHOOSE f : TruthOf(x, S, f)  BY DEF satisfied, TruthOf
<1>. QED  BY <1>2, <1>3

\* Holds at a text, from what it is at the operands.
MeaningOf(x, S, f) ==
  f = [e \in Expr |-> meaning(x, S, e, [y \in Operands(e) |-> f[y]])]

LEMMA MeaningType ==
  ASSUME NEW x, NEW S, NEW e \in Expr, NEW g \in [Operands(e) -> BOOLEAN]
  PROVE  meaning(x, S, e, g) \in BOOLEAN
<1>. DEFINE t == node[e]
<1>1. t.kind \in {"cap", "and", "or", "with", "without", "if", "unless", "garbled"}
  BY TreeAssumption DEF Kind
<1>2. CASE t.kind = "cap"  BY <1>2 DEF meaning
<1>3. CASE t.kind = "or"  BY <1>3 DEF meaning
<1>4. CASE t.kind = "and"  BY <1>4 DEF meaning
<1>5. CASE t.kind = "with"  BY <1>5 DEF meaning
<1>7. CASE t.kind = "without"  BY <1>7 DEF meaning
<1>6. CASE t.kind \in {"if", "unless"}
  <2>1. Operands(e) = {t.then, t.cond, t.else} \ {NoExpr} /\ t.then # NoExpr
    BY <1>6, TreeAssumption DEF Operands, Kind
  <2>2. g[t.then] \in BOOLEAN /\ (t.else # NoExpr => g[t.else] \in BOOLEAN)  BY <2>1
  <2>. QED  BY <1>6, <2>2 DEF meaning
<1>8. CASE t.kind = "garbled"  BY <1>8 DEF meaning
<1>. QED  BY <1>1, <1>2, <1>3, <1>4, <1>5, <1>6, <1>7, <1>8

LEMMA HoldsAt ==
  ASSUME NEW x, NEW S
  PROVE  MeaningOf(x, S, Holds(x, S))
<1>. DEFINE s == [e \in Expr |-> [g \in [Operands(e) -> BOOLEAN] |-> meaning(x, S, e, g)]]
<1>1. s \in Steps(BOOLEAN)
  <2>1. \A e \in Expr : \A g \in [Operands(e) -> BOOLEAN] : meaning(x, S, e, g) \in BOOLEAN
    BY MeaningType
  <2>2. \A e \in Expr : s[e] \in [[Operands(e) -> BOOLEAN] -> BOOLEAN]  BY <2>1
  <2>. HIDE DEF s
  <2>3. s = [e \in Expr |-> s[e]]  BY DEF s
  <2>. QED  BY <2>2, <2>3 DEF Steps
<1>2. \E f : MeaningOf(x, S, f)
  <2>1. PICK f \in [Expr -> BOOLEAN] : \A e \in Expr : f[e] = s[e][[y \in Operands(e) |-> f[y]]]
    <3>. HIDE DEF s
    <3>. QED  BY <1>1, RecursionExists
  <2>2. ASSUME NEW e \in Expr
        PROVE  f[e] = meaning(x, S, e, [y \in Operands(e) |-> f[y]])
    <3>. DEFINE g == [y \in Operands(e) |-> f[y]]
    <3>1. g \in [Operands(e) -> BOOLEAN]
      <4>1. Operands(e) \subseteq Expr  BY TreeAssumption
      <4>. QED  BY <4>1
    <3>2. s[e][g] = meaning(x, S, e, g)
      <4>. HIDE DEF g
      <4>. QED  BY <3>1
    <3>3. f[e] = s[e][g]  BY <2>1
    <3>. HIDE DEF s, g
    <3>4. f[e] = meaning(x, S, e, g)  BY <3>2, <3>3
    <3>. QED  BY <3>4 DEF g
  <2>3. f = [e \in Expr |-> meaning(x, S, e, [y \in Operands(e) |-> f[y]])]
    <3>. HIDE DEF s
    <3>. QED  BY <2>1, <2>2
  <2>. HIDE DEF s
  <2>. QED  BY <2>3 DEF MeaningOf
<1>3. Holds(x, S) = CHOOSE f : MeaningOf(x, S, f)  BY DEF Holds, MeaningOf
<1>. QED  BY <1>2, <1>3

\* What is mentioned by a text: itself, and what its operands mention.
MentionsOf(f) ==
  f = [e \in Expr |-> Texts(e) \cup (IF Rich(e) THEN UNION {f[x] : x \in Operands(e)}
                                ELSE {Bare(e)})]

\* The texts of e are keys, and e is one of them.
LEMMA TextsType == \A e \in Expr : Texts(e) \subseteq OverrideKey /\ e \in Texts(e)
BY ExprAssumption DEF Texts

LEMMA MentionedAt ==
  ASSUME NEW e \in Expr
  PROVE  /\ e \in Mentioned[e] /\ Texts(e) \subseteq Mentioned[e]
         /\ Rich(e) => \A x \in Operands(e) : Mentioned[x] \subseteq Mentioned[e]
<1>. DEFINE V == SUBSET (OverrideKey \cup {Bare(d) : d \in Expr})
            s == [d \in Expr |-> [g \in [Operands(d) -> V] |->
                    Texts(d) \cup (IF Rich(d) THEN UNION {g[x] : x \in Operands(d)}
                              ELSE {Bare(d)})]]
<1>1. s \in Steps(V)
  <2>1. ASSUME NEW d \in Expr, NEW g \in [Operands(d) -> V]
        PROVE  (Texts(d) \cup (IF Rich(d) THEN UNION {g[x] : x \in Operands(d)} ELSE {Bare(d)})) \in V
    BY TextsType
  <2>2. \A d \in Expr : s[d] \in [[Operands(d) -> V] -> V]  BY <2>1
  <2>. HIDE DEF s, V
  <2>3. s = [d \in Expr |-> s[d]]  BY DEF s
  <2>. QED  BY <2>2, <2>3 DEF Steps
<1>2. \E f : MentionsOf(f)
  <2>1. PICK f \in [Expr -> V] : \A d \in Expr : f[d] = s[d][[x \in Operands(d) |-> f[x]]]
    <3>. HIDE DEF s, V
    <3>. QED  BY <1>1, RecursionExists
  <2>2. ASSUME NEW d \in Expr
        PROVE  f[d] = Texts(d) \cup (IF Rich(d) THEN UNION {f[x] : x \in Operands(d)} ELSE {Bare(d)})
    <3>. DEFINE g == [x \in Operands(d) |-> f[x]]
    <3>1. g \in [Operands(d) -> V]
      <4>1. Operands(d) \subseteq Expr  BY TreeAssumption
      <4>. HIDE DEF V
      <4>. QED  BY <4>1
    <3>2. f[d] = Texts(d) \cup (IF Rich(d) THEN UNION {g[x] : x \in Operands(d)} ELSE {Bare(d)})
      <4>1. f[d] = s[d][g]  BY <2>1
      <4>. HIDE DEF g, V
      <4>. QED  BY <3>1, <4>1
    <3>3. {g[x] : x \in Operands(d)} = {f[x] : x \in Operands(d)}  OBVIOUS
    <3>. HIDE DEF g, V
    <3>. QED  BY <3>2, <3>3
  <2>. QED  BY <2>2 DEF MentionsOf
<1>3. Mentioned = CHOOSE f : MentionsOf(f)  BY DEF Mentioned, MentionsOf
<1>4. MentionsOf(Mentioned)  BY <1>2, <1>3
<1>5. Mentioned[e] = Texts(e) \cup (IF Rich(e) THEN UNION {Mentioned[x] : x \in Operands(e)}
                               ELSE {Bare(e)})
  BY <1>4 DEF MentionsOf
<1>. QED  BY <1>5, TextsType

\* A name, read as an expression.
LEMMA NameFacts ==
  ASSUME NEW n \in Name
  PROVE  /\ n \in Expr /\ Kind(n) = "cap" /\ ~Rich(n) /\ Bare(n) = n
         /\ node[n].kind = "cap" /\ node[n].name = n /\ node[n].op = "any"
         /\ Leaves[n] = {n} /\ FirstName[n] = n
<1>1. node[n] = [kind |-> "cap", name |-> n, op |-> "any",
                      ver |-> [low |-> 0, high |-> 0]]
  BY ExprAssumption, Zenon
<1>2. n \in Expr  BY ExprAssumption
<1>3. node[n].kind = "cap" /\ node[n].name = n /\ node[n].op = "any"  BY <1>1
<1>4. Kind(n) = "cap" /\ ~Rich(n) /\ Bare(n) = n  BY <1>3 DEF Kind, Rich, Bare
<1>5. Leaves[n] = {n}  BY <1>2, <1>4, LeavesAt
<1>6. FirstName[n] = n  BY <1>2, <1>4, FirstNameAt
<1>. QED  BY <1>2, <1>3, <1>4, <1>5, <1>6

\* Whoever provides a name matches it.
LEMMA NameMatching ==
  ASSUME NEW x, NEW n \in Name
  PROVE  Matching(x, n) = x.provides[n]
<1>1. node[n].op = "any" /\ Bare(n) = n  BY NameFacts
<1>2. \A p : AnyVersionSatisfies(Versions(x, n, p), n)
  BY <1>1 DEF AnyVersionSatisfies, satisfies_constraint
<1>. QED  BY <1>1, <1>2 DEF Matching

\* What satisfied says of a text.
LEMMA TruthParts ==
  ASSUME NEW x, NEW S, NEW e \in Expr
  PROVE  /\ ~Rich(e) => (satisfied(x, S)[e] <=> capability_present(x, S, Bare(e)))
         /\ Kind(e) \in {"and", "with"} =>
              (satisfied(x, S)[e] <=> \A y \in Operands(e) : satisfied(x, S)[y])
         /\ Kind(e) = "or" => (satisfied(x, S)[e] <=> \E y \in Operands(e) : satisfied(x, S)[y])
<1>. DEFINE sat == satisfied(x, S)
            g == [y \in Operands(e) |-> sat[y]]
<1>1. sat[e] = true_of(x, S, e, g)  BY SatisfiedAt DEF TruthOf
<1>. HIDE DEF sat
<1>2. CASE ~Rich(e)
  <2>1. node[e].kind = "cap" /\ Bare(e) = node[e].name  BY <1>2 DEF Rich, Kind, Bare
  <2>2. true_of(x, S, e, g) = capability_present(x, S, Bare(e))  BY <2>1 DEF true_of
  <2>. QED  BY <1>1, <1>2, <2>1, <2>2 DEF sat, Kind
<1>3. CASE Kind(e) \in {"and", "with"}
  <2>1. node[e].kind \in {"and", "with"} /\ Rich(e)  BY <1>3 DEF Rich, Kind
  <2>2. true_of(x, S, e, g) = \A y \in Operands(e) : g[y]  BY <2>1 DEF true_of
  <2>3. (\A y \in Operands(e) : g[y]) <=> (\A y \in Operands(e) : sat[y])  OBVIOUS
  <2>. HIDE DEF g
  <2>. QED  BY <1>1, <1>3, <2>1, <2>2, <2>3 DEF sat
<1>4. CASE Kind(e) = "or"
  <2>1. node[e].kind = "or" /\ Rich(e)  BY <1>4 DEF Rich, Kind
  <2>2. true_of(x, S, e, g) = \E y \in Operands(e) : g[y]  BY <2>1 DEF true_of
  <2>3. (\E y \in Operands(e) : g[y]) <=> (\E y \in Operands(e) : sat[y])  OBVIOUS
  <2>. HIDE DEF g
  <2>. QED  BY <1>1, <1>4, <2>1, <2>2, <2>3 DEF sat
<1>. QED  BY <1>2, <1>3, <1>4 DEF sat

\* What rpm says of a plain capability and of chains.
LEMMA MeaningParts ==
  ASSUME NEW x, NEW S, NEW e \in Expr
  PROVE  /\ ~Rich(e) =>
              (Holds(x, S)[e] <=> \/ S \cap Matching(x, e) # {}
                                  \/ \E k \in {e, Bare(e)} : Decided(x, S, k))
         /\ Kind(e) = "and" => (Holds(x, S)[e] <=> \A y \in Operands(e) : Holds(x, S)[y])
         /\ Kind(e) = "or" => (Holds(x, S)[e] <=> \/ Decided(x, S, e)
                                                  \/ \E y \in Operands(e) : Holds(x, S)[y])
<1>. DEFINE of == Holds(x, S)
            g == [y \in Operands(e) |-> of[y]]
<1>1. of[e] = meaning(x, S, e, g)  BY HoldsAt DEF MeaningOf
<1>. HIDE DEF of
<1>2. CASE ~Rich(e)
  <2>1. node[e].kind = "cap" /\ Bare(e) = node[e].name  BY <1>2 DEF Rich, Kind, Bare
  <2>2. meaning(x, S, e, g) <=> \/ S \cap Matching(x, e) # {}
                                \/ \E k \in {e, Bare(e)} : Decided(x, S, k)
    BY <2>1 DEF meaning
  <2>. QED  BY <1>1, <1>2, <2>1, <2>2 DEF of, Kind
<1>3. CASE Kind(e) = "and"
  <2>1. node[e].kind = "and" /\ Rich(e)  BY <1>3 DEF Rich, Kind
  <2>2. meaning(x, S, e, g) = \A y \in Operands(e) : g[y]  BY <2>1 DEF meaning
  <2>3. (\A y \in Operands(e) : g[y]) <=> (\A y \in Operands(e) : of[y])  OBVIOUS
  <2>. HIDE DEF g
  <2>. QED  BY <1>1, <1>3, <2>1, <2>2, <2>3 DEF of
<1>4. CASE Kind(e) = "or"
  <2>1. node[e].kind = "or" /\ Rich(e)  BY <1>4 DEF Rich, Kind
  <2>2. meaning(x, S, e, g) <=> (Decided(x, S, e) \/ \E y \in Operands(e) : g[y])
    BY <2>1 DEF meaning
  <2>3. (\E y \in Operands(e) : g[y]) <=> (\E y \in Operands(e) : of[y])  OBVIOUS
  <2>. HIDE DEF g
  <2>. QED  BY <1>1, <1>4, <2>1, <2>2, <2>3 DEF of
<1>. QED  BY <1>2, <1>3, <1>4 DEF of

\* What rpm says of a range, and of a condition without `else`.
LEMMA MeaningOfRich ==
  ASSUME NEW x, NEW S, NEW e \in Expr
  PROVE  /\ Kind(e) = "with" =>
              (Holds(x, S)[e] <=>
                 \/ \E p \in S : \A b \in Leaves[e] : Fits(x, p, b)
                 \/ \E k \in Texts(e) \cup LeafNames(e) : Decided(x, S, k))
         /\ Kind(e) = "without" =>
              (Holds(x, S)[e] <=>
                 \/ \E p \in S : /\ \A b \in Leaves[node[e].left] : Fits(x, p, b)
                                 /\ \A b \in Leaves[node[e].right] : ~Fits(x, p, b)
                 \/ Decided(x, S, e))
         /\ Kind(e) \in {"if", "unless"} /\ node[e].else = NoExpr
              /\ node[e].cond \in Operands(e) =>
              LET cond == Holds(x, S)[node[e].cond]
                  then == Holds(x, S)[node[e].then]
              IN  /\ Kind(e) = "if" => (Holds(x, S)[e] <=> (cond => then))
                  /\ Kind(e) = "unless" => (Holds(x, S)[e] <=> (cond \/ then))
<1>. DEFINE of == Holds(x, S)
            g == [y \in Operands(e) |-> of[y]]
            t == node[e]
<1>1. of[e] = meaning(x, S, e, g)  BY HoldsAt DEF MeaningOf
<1>. HIDE DEF of
<1>2. CASE Kind(e) = "with"
  <2>1. node[e].kind = "with"  BY <1>2 DEF Kind
  <2>2. meaning(x, S, e, g) <=> \/ \E p \in S : \A b \in Leaves[e] : Fits(x, p, b)
                                \/ \E k \in Texts(e) \cup LeafNames(e) : Decided(x, S, k)
    BY <2>1 DEF meaning
  <2>. QED  BY <1>1, <1>2, <2>2 DEF of
<1>3. CASE Kind(e) = "without"
  <2>1. node[e].kind = "without"  BY <1>3 DEF Kind
  <2>2. meaning(x, S, e, g) <=>
           \/ \E p \in S : /\ \A b \in Leaves[node[e].left] : Fits(x, p, b)
                           /\ \A b \in Leaves[node[e].right] : ~Fits(x, p, b)
           \/ Decided(x, S, e)
    BY <2>1 DEF meaning
  <2>. QED  BY <1>1, <1>3, <2>2 DEF of
<1>4. CASE Kind(e) \in {"if", "unless"} /\ node[e].else = NoExpr /\ node[e].cond \in Operands(e)
  <2>1. t.kind \in {"if", "unless"} /\ t.then # NoExpr
    BY <1>4, TreeAssumption DEF Kind
  <2>2. Operands(e) = {t.then, t.cond, t.else} \ {NoExpr}  BY <2>1 DEF Operands
  <2>3. g[t.then] = of[t.then] /\ g[t.cond] = of[t.cond]  BY <1>4, <2>1, <2>2
  <2>4. CASE t.kind = "if"
    <3>1. meaning(x, S, e, g) <=> (g[t.cond] => g[t.then])  BY <1>4, <2>4 DEF meaning
    <3>. HIDE DEF g
    <3>. QED  BY <1>1, <1>4, <2>3, <2>4, <3>1 DEF of, Kind
  <2>5. CASE t.kind = "unless"
    <3>1. meaning(x, S, e, g) <=> (g[t.cond] \/ g[t.then])  BY <1>4, <2>5 DEF meaning
    <3>. HIDE DEF g
    <3>. QED  BY <1>1, <1>4, <2>3, <2>5, <3>1 DEF of, Kind
  <2>. QED  BY <2>1, <2>4, <2>5
<1>. QED  BY <1>2, <1>3, <1>4 DEF of

-----------------------------------------------------------------------------
(***************************************************************************)
(* The expressions the code settles.  A shape says of a text what it is by *)
(* itself, its operands being in T; a text is so all the way down when it  *)
(* is in a set T all of whose members are so.                              *)
(***************************************************************************)

\* Conditions built of names that no override speaks for.
SureShape(x, e, T) ==
  \/ e \in Name /\ ~Overridden(x, e)
  \/ Kind(e) \in {"and", "or"} /\ ~Overridden(x, e) /\ Operands(e) \subseteq T
Sure(x) == UNION {T \in SUBSET Expr : \A e \in T : SureShape(x, e, T)}

\* No candidate is named like a capability that a package answers which is
\* none of the candidates.
OwnNames(x, m) == \A a \in m : Answering(x, a) \subseteq m

\* A version range over one capability.
OneRange(e) == HasCaps[e] /\ Cardinality(LeafNames(e)) = 1

(***************************************************************************)
(* What a text must be for the code to read it as rpm does.  Inside an     *)
(* expression the code resolves a leaf without its version, so operands    *)
(* are names; of an `or` or a `with` it knows the names only, not what is  *)
(* between them, so these nest nothing; a range keeps its versions.  An    *)
(* `else` taken on an early reading is not revisited, so there is none; a  *)
(* condition only ever becomes true.  What `unless` asks for is read after *)
(* the choices were, so it must not open one.                              *)
(***************************************************************************)
TameShape(x, e, T) ==
  \/ Kind(e) = "garbled"
  \/ ~Rich(e) /\ OwnNames(x, Matching(x, e))
  \/ Kind(e) = "and" /\ Operands(e) \subseteq T /\ \A y \in Operands(e) : Rich(y) \/ y \in Name
  \/ Kind(e) = "or" /\ Operands(e) \subseteq Name
  \/ Kind(e) = "with" /\ OneRange(e) /\ \A n \in LeafNames(e) : OwnNames(x, InRange(x, e, n))
  \/ Kind(e) = "with" /\ ~OneRange(e) /\ Leaves[e] \subseteq Name
  \/ Kind(e) = "without" /\ {node[e].left, node[e].right} \subseteq Name
  \/ /\ Kind(e) \in {"if", "unless"} /\ node[e].else = NoExpr /\ node[e].cond \in Sure(x)
     /\ node[e].then \in T /\ (Rich(node[e].then) \/ node[e].then \in Name)
     /\ Kind(e) = "unless" =>
          node[e].then \in Name /\ resolve(x, node[e].then).choices = {}
Tame(x) == UNION {T \in SUBSET Expr : \A e \in T : TameShape(x, e, T)}

\* A text of the greatest such set has the shape, its operands in the set.
LEMMA TameUnfolds ==
  ASSUME NEW x, NEW e \in Tame(x)
  PROVE  e \in Expr /\ TameShape(x, e, Tame(x))
<1>1. PICK T \in SUBSET Expr : e \in T /\ \A d \in T : TameShape(x, d, T)  BY DEF Tame
<1>2. T \subseteq Tame(x)  BY <1>1 DEF Tame
<1>3. TameShape(x, e, T)  BY <1>1
<1>. HIDE DEF Tame
<1>4. ASSUME Kind(e) = "and", Operands(e) \subseteq T, \A y \in Operands(e) : Rich(y) \/ y \in Name
      PROVE  TameShape(x, e, Tame(x))
  BY <1>2, <1>4 DEF TameShape
<1>5. ASSUME /\ Kind(e) \in {"if", "unless"} /\ node[e].else = NoExpr /\ node[e].cond \in Sure(x)
             /\ node[e].then \in T /\ (Rich(node[e].then) \/ node[e].then \in Name)
             /\ Kind(e) = "unless" =>
                  node[e].then \in Name /\ resolve(x, node[e].then).choices = {}
      PROVE  TameShape(x, e, Tame(x))
  BY <1>2, <1>5 DEF TameShape
<1>6. TameShape(x, e, Tame(x))  BY <1>3, <1>4, <1>5 DEF TameShape
<1>. QED  BY <1>1, <1>6

LEMMA SureUnfolds ==
  ASSUME NEW x, NEW e \in Sure(x)
  PROVE  e \in Expr /\ SureShape(x, e, Sure(x))
<1>1. PICK T \in SUBSET Expr : e \in T /\ \A d \in T : SureShape(x, d, T)  BY DEF Sure
<1>2. T \subseteq Sure(x)  BY <1>1 DEF Sure
<1>3. SureShape(x, e, T)  BY <1>1
<1>. QED  BY <1>1, <1>2, <1>3 DEF SureShape

\* A name that is present holds.
LEMMA PresentHolds ==
  ASSUME NEW x, NEW S, NEW n \in Name, capability_present(x, S, n)
  PROVE  Holds(x, S)[n]
<1>1. n \in Expr /\ ~Rich(n) /\ Bare(n) = n  BY NameFacts
<1>2. Matching(x, n) = x.provides[n]  BY NameMatching
<1>3. S \cap Matching(x, n) # {} \/ Decided(x, S, n)
  BY <1>2 DEF capability_present, Decided
<1>. QED  BY <1>1, <1>3, MeaningParts

\* Of such a condition the code says what rpm says.
LEMMA SureMeans ==
  ASSUME NEW x, NEW S, NEW e \in Sure(x)
  PROVE  satisfied(x, S)[e] <=> Holds(x, S)[e]
<1>. DEFINE sat == satisfied(x, S)
            of  == Holds(x, S)
            G == {d \in Expr : d \in Sure(x) => (sat[d] <=> of[d])}
<1>1. ASSUME NEW d \in Expr, Operands(d) \subseteq G PROVE d \in G
  <2>1. SUFFICES ASSUME d \in Sure(x) PROVE sat[d] <=> of[d]  OBVIOUS
  <2>2. SureShape(x, d, Sure(x))  BY <2>1, SureUnfolds
  <2>3. CASE d \in Name /\ ~Overridden(x, d)
    <3>1. ~Rich(d) /\ Bare(d) = d /\ Matching(x, d) = x.provides[d]
      BY <2>3, NameFacts, NameMatching
    <3>2. of[d] <=> S \cap x.provides[d] # {}
      BY <2>3, <3>1, MeaningParts DEF Decided
    <3>3. sat[d] <=> x.provides[d] \cap S # {}
      BY <2>3, <3>1, TruthParts DEF capability_present
    <3>. QED  BY <3>2, <3>3
  <2>4. CASE Kind(d) \in {"and", "or"} /\ ~Overridden(x, d) /\ Operands(d) \subseteq Sure(x)
    <3>1. \A y \in Operands(d) : sat[y] <=> of[y]  BY <1>1, <2>4
    <3>2. Kind(d) = "and" => ((sat[d] <=> \A y \in Operands(d) : sat[y])
                               /\ (of[d] <=> \A y \in Operands(d) : of[y]))
      BY TruthParts, MeaningParts
    <3>3. Kind(d) = "or" => ((sat[d] <=> \E y \in Operands(d) : sat[y])
                               /\ (of[d] <=> \E y \in Operands(d) : of[y]))
      BY <2>4, TruthParts, MeaningParts DEF Decided
    <3>. HIDE DEF sat, of
    <3>. QED  BY <2>4, <3>1, <3>2, <3>3
  <2>. QED  BY <2>2, <2>3, <2>4 DEF SureShape
<1>2. Expr \subseteq G
  <2>. HIDE DEF G
  <2>. QED  BY <1>1, TreeInduction
<1>3. e \in Expr  BY SureUnfolds
<1>. QED  BY <1>2, <1>3

\* Once it is true it stays true.
LEMMA SureGrows ==
  ASSUME NEW x, NEW S, NEW R, S \subseteq R, NEW e \in Sure(x), satisfied(x, S)[e]
  PROVE  satisfied(x, R)[e]
<1>. DEFINE was == satisfied(x, S)
            now == satisfied(x, R)
            G == {d \in Expr : d \in Sure(x) /\ was[d] => now[d]}
<1>1. ASSUME NEW d \in Expr, Operands(d) \subseteq G PROVE d \in G
  <2>1. SUFFICES ASSUME d \in Sure(x), was[d] PROVE now[d]  OBVIOUS
  <2>2. SureShape(x, d, Sure(x))  BY <2>1, SureUnfolds
  <2>3. CASE d \in Name /\ ~Overridden(x, d)
    <3>1. ~Rich(d) /\ Bare(d) = d  BY <2>3, NameFacts
    <3>2. /\ was[d] <=> x.provides[d] \cap S # {}
          /\ now[d] <=> x.provides[d] \cap R # {}
      BY <2>3, <3>1, TruthParts DEF capability_present
    <3>. HIDE DEF was, now
    <3>. QED  BY <2>1, <3>2
  <2>4. CASE Kind(d) \in {"and", "or"} /\ ~Overridden(x, d) /\ Operands(d) \subseteq Sure(x)
    <3>1. \A y \in Operands(d) : was[y] => now[y]  BY <1>1, <2>4
    <3>2. Kind(d) = "and" => ((was[d] <=> \A y \in Operands(d) : was[y])
                               /\ (now[d] <=> \A y \in Operands(d) : now[y]))
      BY TruthParts
    <3>3. Kind(d) = "or" => ((was[d] <=> \E y \in Operands(d) : was[y])
                               /\ (now[d] <=> \E y \in Operands(d) : now[y]))
      BY TruthParts
    <3>. HIDE DEF was, now
    <3>. QED  BY <2>1, <2>4, <3>1, <3>2, <3>3
  <2>. QED  BY <2>2, <2>3, <2>4 DEF SureShape
<1>2. Expr \subseteq G
  <2>. HIDE DEF G
  <2>. QED  BY <1>1, TreeInduction
<1>3. e \in Expr  BY SureUnfolds
<1>. QED  BY <1>2, <1>3

\* A capability, a choice of names or a range that holds goes on holding.
LEMMA HoldsGrows ==
  ASSUME NEW x, NEW S, NEW R, S \subseteq R, NEW e \in Expr,
         Kind(e) \in {"cap", "or", "with", "without"},
         Kind(e) = "or" => Operands(e) \subseteq Name,
         Holds(x, S)[e]
  PROVE  Holds(x, R)[e]
<1>1. \A k : Decided(x, S, k) => Decided(x, R, k)  BY DEF Decided
<1>2. ASSUME NEW d \in Expr, ~Rich(d), Holds(x, S)[d] PROVE Holds(x, R)[d]
  <2>1. S \cap Matching(x, d) # {} \/ \E k \in {d, Bare(d)} : Decided(x, S, k)
    BY <1>2, MeaningParts
  <2>. QED  BY <1>1, <1>2, <2>1, MeaningParts
<1>3. CASE Kind(e) = "cap"  BY <1>2, <1>3 DEF Rich
<1>4. CASE Kind(e) = "or"
  <2>1. Decided(x, S, e) \/ \E y \in Operands(e) : Holds(x, S)[y]  BY <1>4, MeaningParts
  <2>2. \A y \in Operands(e) : y \in Expr /\ ~Rich(y)  BY <1>4, NameFacts
  <2>3. Decided(x, R, e) \/ \E y \in Operands(e) : Holds(x, R)[y]  BY <1>1, <1>2, <2>1, <2>2
  <2>. QED  BY <1>4, <2>3, MeaningParts
<1>5. CASE Kind(e) = "with"
  <2>1. \/ \E p \in S : \A b \in Leaves[e] : Fits(x, p, b)
        \/ \E k \in Texts(e) \cup LeafNames(e) : Decided(x, S, k)
    BY <1>5, MeaningOfRich
  <2>2. \/ \E p \in R : \A b \in Leaves[e] : Fits(x, p, b)
        \/ \E k \in Texts(e) \cup LeafNames(e) : Decided(x, R, k)
    BY <1>1, <2>1
  <2>. QED  BY <1>5, <2>2, MeaningOfRich
<1>6. CASE Kind(e) = "without"
  <2>1. \/ \E p \in S : /\ \A b \in Leaves[node[e].left] : Fits(x, p, b)
                        /\ \A b \in Leaves[node[e].right] : ~Fits(x, p, b)
        \/ Decided(x, S, e)
    BY <1>6, MeaningOfRich
  <2>2. \/ \E p \in R : /\ \A b \in Leaves[node[e].left] : Fits(x, p, b)
                        /\ \A b \in Leaves[node[e].right] : ~Fits(x, p, b)
        \/ Decided(x, R, e)
    BY <1>1, <2>1
  <2>. QED  BY <1>6, <2>2, MeaningOfRich
<1>. QED  BY <1>3, <1>4, <1>5, <1>6

-----------------------------------------------------------------------------
(* What a reading hands to the lists of the closure. *)

\* What settles a requirement e of who, given the lists l: it waits, it is reported,
\* a choice is open whose candidates make it hold, or it holds already.  The
\* parts of a conjunction and of a condition are in T.
Waiting(l, who, e) == [expr |-> e, who |-> who] \in l.pending
Told(l, who, e) == \E q \in l.problems : q.who = who /\ q.expr = e
Closing(x, e, A) ==
  /\ Kind(e) \in {"cap", "or", "with"}
  /\ \A S \in SUBSET Pkg :
       (\E a \in A : capability_present(x, S, a)) => Holds(x, S)[e]
Offered(x, l, who, e) ==
  \E k \in Texts(e), A \in SUBSET Name :
    [expr |-> k, alts |-> A, who |-> who] \in l.choices /\ Closing(x, e, A)
HandShape(x, who, l, e, T) ==
  \/ Waiting(l, who, e) \/ Told(l, who, e) \/ Offered(x, l, who, e)
  \/ Kind(e) \in {"cap", "or", "with", "without"} /\ Holds(x, l.pkgs)[e]
  \/ Kind(e) = "and" /\ Operands(e) \subseteq T
  \/ Kind(e) \in {"if", "unless"} /\ node[e].then \in T
  \/ Kind(e) = "unless" /\ satisfied(x, l.pkgs)[node[e].cond]
Handed(x, who, l) ==
  UNION {T \in SUBSET Tame(x) : \A e \in T : HandShape(x, who, l, e, T)}

LEMMA HandGrows ==
  ASSUME NEW x, NEW who, NEW l, NEW e, NEW T, NEW U, T \subseteq U, HandShape(x, who, l, e, T)
  PROVE  HandShape(x, who, l, e, U)
BY DEF HandShape

LEMMA HandedUnfolds ==
  ASSUME NEW x, NEW who, NEW l, NEW e \in Handed(x, who, l)
  PROVE  e \in Tame(x) /\ HandShape(x, who, l, e, Handed(x, who, l))
<1>1. PICK T \in SUBSET Tame(x) : e \in T /\ \A d \in T : HandShape(x, who, l, d, T)
  BY DEF Handed
<1>2. T \subseteq Handed(x, who, l)  BY <1>1 DEF Handed
<1>. QED  BY <1>1, <1>2, HandGrows

\* What has the shape with operands in the set or handed already is handed.
LEMMA HandedFolds ==
  ASSUME NEW x, NEW who, NEW l, NEW T \in SUBSET Tame(x),
         \A e \in T : HandShape(x, who, l, e, T \cup Handed(x, who, l))
  PROVE  T \subseteq Handed(x, who, l)
<1>. DEFINE U == T \cup Handed(x, who, l)
<1>1. U \in SUBSET Tame(x)  BY HandedUnfolds
<1>2. ASSUME NEW e \in U PROVE HandShape(x, who, l, e, U)
  <2>1. CASE e \in T  BY <2>1
  <2>2. CASE e \in Handed(x, who, l)
    <3>1. HandShape(x, who, l, e, Handed(x, who, l)) /\ Handed(x, who, l) \subseteq U
      BY <2>2, HandedUnfolds
    <3>. HIDE DEF U
    <3>. QED  BY <3>1, HandGrows
  <2>. QED  BY <2>1, <2>2
<1>. HIDE DEF U
<1>3. U \subseteq Handed(x, who, l)  BY <1>1, <1>2 DEF Handed
<1>. QED  BY <1>3 DEF U

\* What a reading of who brought is in the lists.
Brought(l, who, r) ==
  /\ r.pkgs \subseteq l.pkgs
  /\ \A e \in r.pend : Waiting(l, who, e)
  /\ \A c \in r.choices : [expr |-> c.expr, alts |-> c.alts, who |-> who] \in l.choices
  /\ \A q \in r.problems : Told(l, who, q.expr)

\* The effects of a single package, choice or problem, which wait for nothing.
Simple(r) == r.defer = FALSE /\ r.pend = {}
LEMMA SimpleEffects ==
  /\ Simple(Nothing) /\ Nothing.choices = {}
  /\ \A p : Simple(Pull(p)) /\ Pull(p).pkgs = {p} /\ Pull(p).choices = {}
  /\ \A e, A : Simple(Choose(e, A)) /\ Choose(e, A).choices = {[expr |-> e, alts |-> A]}
  /\ \A k, e : /\ Simple(Complain(k, e))
               /\ Complain(k, e).problems = {[kind |-> k, expr |-> e]}
  /\ Defer.defer = TRUE /\ Defer.pend = {} /\ Defer.choices = {}
BY DEF Simple, Nothing, Pull, Choose, Complain, Defer

LEMMA BroughtBy ==
  ASSUME NEW l, NEW who, NEW r, Brought(l, who, r)
  PROVE  /\ \A p : r = Pull(p) => p \in l.pkgs
         /\ \A e, A : r = Choose(e, A) => [expr |-> e, alts |-> A, who |-> who] \in l.choices
         /\ \A k, e : r = Complain(k, e) => Told(l, who, e)
<1>1. \A p : r = Pull(p) => p \in l.pkgs  BY SimpleEffects DEF Brought
<1>2. ASSUME NEW e, NEW A, r = Choose(e, A)
      PROVE  [expr |-> e, alts |-> A, who |-> who] \in l.choices
  <2>1. [expr |-> e, alts |-> A] \in r.choices  BY <1>2, SimpleEffects
  <2>. QED  BY <2>1 DEF Brought
<1>3. ASSUME NEW k, NEW e, r = Complain(k, e) PROVE Told(l, who, e)
  <2>1. [kind |-> k, expr |-> e] \in r.problems  BY <1>3, SimpleEffects
  <2>. QED  BY <2>1 DEF Brought
<1>. QED  BY <1>1, <1>2, <1>3

\* The readings that are not of several parts.
LEMMA ResolveSimple ==
  ASSUME NEW x, NEW e
  PROVE  /\ Simple(resolve(x, e))
         /\ \A p \in resolve(x, e).pkgs :
              \/ p \in Matching(x, e)
              \/ \E k \in {e, Bare(e)} : Overridden(x, k) /\ x.overrides[k] = p
<1>. DEFINE m == Matching(x, e)
            newest == IF node[e].op = "any" THEN {} ELSE NewestOf(x, Bare(e), m, {e})
            Fine(r) == Simple(r) /\ \A p \in r.pkgs : p \in m
<1>1. newest \subseteq m  BY NewestAmong
<1>2. \A p \in m : Fine(Pull(p))  BY SimpleEffects
<1>3. Fine(Complain("unresolved", e)) /\ Fine(Choose(e, m))
  <2>1. Complain("unresolved", e).pkgs = {} /\ Choose(e, m).pkgs = {}
    BY DEF Complain, Choose, Nothing
  <2>. QED  BY <2>1, SimpleEffects
<1>4. m # {} => Fine(AnyOf(m))
  <2>1. m # {} => (CHOOSE p \in m : TRUE) \in m  OBVIOUS
  <2>. HIDE DEF m, Fine
  <2>. QED  BY <1>2, <2>1 DEF AnyOf
<1>5. newest # {} => Fine(AnyOf(newest))
  <2>1. newest # {} => (CHOOSE p \in newest : TRUE) \in newest  OBVIOUS
  <2>. HIDE DEF m, Fine, newest
  <2>. QED  BY <1>1, <1>2, <2>1 DEF AnyOf
<1>6. Fine(pick(x, e, m))
  <2>1. pick(x, e, m) = IF m = {} THEN Complain("unresolved", e)
                        ELSE IF Cardinality(m) = 1 THEN AnyOf(m)
                        ELSE IF Bare(e) \in m THEN Pull(Bare(e))
                        ELSE IF newest # {} THEN AnyOf(newest) ELSE Choose(e, m)
    BY DEF pick, prefer
  <2>. HIDE DEF m, Fine, newest
  <2>. QED  BY <1>2, <1>3, <1>4, <1>5, <2>1
<1>7. CASE \E k \in {e, Bare(e)} : Overridden(x, k) /\ resolve(x, e) = Pull(x.overrides[k])
  BY <1>7, SimpleEffects
<1>8. CASE resolve(x, e) = pick(x, e, m)  BY <1>6, <1>8
<1>. QED  BY <1>7, <1>8 DEF resolve

LEMMA RichSimple ==
  ASSUME NEW x, NEW sat, NEW e
  PROVE  Simple(require_or(x, sat, e)) /\ Simple(require_with(x, e))
<1>0. \A m : Simple(AnyOf(m))  BY SimpleEffects DEF AnyOf
<1>1. \A reads, live : Simple(settle_or(e, reads, live))
  BY <1>0, SimpleEffects DEF settle_or
<1>2. Simple(require_or(x, sat, e))
  BY <1>1, SimpleEffects DEF require_or, alternatives
<1>3. \A k, m, newest : Simple(prefer(k, m, newest))  BY <1>0, SimpleEffects DEF prefer
<1>4. \A n, fit : Simple(pick_range(x, e, n, fit))
  BY <1>0, <1>3, SimpleEffects DEF pick_range
<1>5. \A C : Simple(among(x, e, C))  BY <1>0, SimpleEffects DEF among
<1>6. Simple(require_with(x, e))
  BY <1>4, <1>5, SimpleEffects DEF require_with, resolve_range
<1>. QED  BY <1>2, <1>6

\* What require makes of a text, from what it makes of the operands.
LEMMA RequireParts ==
  ASSUME NEW x \in Repositories, NEW S, NEW final \in BOOLEAN, NEW e \in Expr
  PROVE  LET f == require(x, S, final)
             sat == satisfied(x, S)
             t == node[e]
         IN  /\ ~Rich(e) => f[e] = resolve(x, Bare(e))
             /\ Kind(e) = "and" => f[e] = Together(e, f)
             /\ Kind(e) = "or" => f[e] = require_or(x, sat, e)
             /\ Kind(e) \in {"with", "without"} => f[e] = require_with(x, e)
             /\ Kind(e) = "garbled" => f[e] = Complain("rich", e)
             /\ Kind(e) = "if" =>
                  /\ sat[t.cond] => f[e] = f[t.then]
                  /\ ~sat[t.cond] => f[e] = IF t.else # NoExpr THEN f[t.else] ELSE Defer
             /\ Kind(e) = "unless" =>
                  /\ sat[t.cond] => f[e] = IF t.else # NoExpr THEN f[t.else] ELSE Nothing
                  /\ ~sat[t.cond] => f[e] = IF final THEN f[t.then] ELSE Defer
<1>. DEFINE f == require(x, S, final)
            sat == satisfied(x, S)
            t == node[e]
            g == [y \in Operands(e) |-> f[y]]
<1>1. f[e] = demand(x, sat, final, e, g)  BY RequireAt DEF DemandsOf
<1>. HIDE DEF f, sat
<1>2. ~Rich(e) => f[e] = resolve(x, Bare(e))
  <2>1. ~Rich(e) => node[e].kind = "cap" /\ Bare(e) = node[e].name  BY DEF Rich, Kind, Bare
  <2>. HIDE DEF g
  <2>. QED  BY <1>1, <2>1 DEF demand
<1>3. ASSUME Kind(e) = "and" PROVE f[e] = Together(e, f)
  <2>1. demand(x, sat, final, e, g) = Together(e, g)  BY <1>3 DEF Kind, demand
  <2>2. \A y \in Operands(e) : g[y] = f[y]  OBVIOUS
  <2>. HIDE DEF g
  <2>3. Together(e, g) = Together(e, f)  BY <2>2 DEF Together
  <2>. QED  BY <1>1, <2>1, <2>3
<1>4. Kind(e) = "or" => f[e] = require_or(x, sat, e)
  <2>. HIDE DEF g
  <2>. QED  BY <1>1 DEF Kind, demand
<1>5. Kind(e) \in {"with", "without"} => f[e] = require_with(x, e)
  <2>. HIDE DEF g
  <2>. QED  BY <1>1 DEF Kind, demand
<1>6. ASSUME Kind(e) \in {"if", "unless"}
      PROVE  g[t.then] = f[t.then] /\ (t.else # NoExpr => g[t.else] = f[t.else])
  <2>1. t.kind \in {"if", "unless"} /\ t.then # NoExpr
    BY <1>6, TreeAssumption DEF Kind
  <2>2. Operands(e) = {t.then, t.cond, t.else} \ {NoExpr}  BY <2>1 DEF Operands
  <2>. QED  BY <2>1, <2>2
<1>7. ASSUME Kind(e) = "if"
      PROVE  /\ sat[t.cond] => f[e] = f[t.then]
             /\ ~sat[t.cond] => f[e] = IF t.else # NoExpr THEN f[t.else] ELSE Defer
  <2>. HIDE DEF g
  <2>1. t.kind = "if"  BY <1>7 DEF Kind
  <2>2. sat[t.cond] => demand(x, sat, final, e, g) = g[t.then]  BY <2>1 DEF demand
  <2>3. ~sat[t.cond] =>
          demand(x, sat, final, e, g) = IF t.else # NoExpr THEN g[t.else] ELSE Defer
    BY <2>1 DEF demand
  <2>. QED  BY <1>1, <1>6, <1>7, <2>2, <2>3
<1>8. ASSUME Kind(e) = "unless"
      PROVE  /\ sat[t.cond] => f[e] = IF t.else # NoExpr THEN f[t.else] ELSE Nothing
             /\ ~sat[t.cond] => f[e] = IF final THEN f[t.then] ELSE Defer
  <2>. HIDE DEF g
  <2>1. t.kind = "unless"  BY <1>8 DEF Kind
  <2>2. sat[t.cond] =>
          demand(x, sat, final, e, g) = IF t.else # NoExpr THEN g[t.else] ELSE Nothing
    BY <2>1 DEF demand
  <2>3. ~sat[t.cond] => demand(x, sat, final, e, g) = IF final THEN g[t.then] ELSE Defer
    BY <2>1 DEF demand
  <2>. QED  BY <1>1, <1>6, <1>8, <2>2, <2>3
<1>9. Kind(e) = "garbled" => f[e] = Complain("rich", e)
  <2>. HIDE DEF g
  <2>. QED  BY <1>1 DEF Kind, demand
<1>. HIDE DEF t, g
<1>. QED  BY <1>2, <1>3, <1>4, <1>5, <1>7, <1>8, <1>9 DEF f, sat, t

-----------------------------------------------------------------------------
(* Each kind of reading hands its requirement to the lists. *)

\* The leaves are finitely many.
LEMMA LeafNamesFinite ==
  ASSUME NEW e \in Expr PROVE IsFiniteSet(LeafNames(e))
<1>. DEFINE G == {d \in Expr : IsFiniteSet(Leaves[d])}
<1>1. ASSUME NEW d \in Expr, Operands(d) \subseteq G PROVE d \in G
  <2>. DEFINE below == {Leaves[y] : y \in Operands(d)}
  <2>1. Leaves[d] = IF Rich(d) THEN UNION below ELSE {d}  BY LeavesAt
  <2>2. [y \in Operands(d) |-> Leaves[y]] \in Surjection(Operands(d), below)  BY DEF Surjection
  <2>3. IsFiniteSet(Operands(d))  BY TreeAssumption
  <2>4. IsFiniteSet(below)  BY <2>2, <2>3, FS_Surjection
  <2>5. \A X \in below : IsFiniteSet(X)  BY <1>1
  <2>6. IsFiniteSet({d})  BY FS_Singleton
  <2>. HIDE DEF below
  <2>7. IsFiniteSet(UNION below)  BY <2>4, <2>5, FS_UNION
  <2>. QED  BY <2>1, <2>6, <2>7
<1>2. Expr \subseteq G
  <2>. HIDE DEF G
  <2>. QED  BY <1>1, TreeInduction
<1>3. [b \in Leaves[e] |-> Bare(b)] \in Surjection(Leaves[e], LeafNames(e))
  BY DEF Surjection, LeafNames
<1>4. IsFiniteSet(Leaves[e])  BY <1>2
<1>. QED  BY <1>3, <1>4, FS_Surjection

\* So a single name is one.
LEMMA OneName ==
  ASSUME NEW e \in Expr, Cardinality(LeafNames(e)) = 1
  PROVE  \E n \in Name : LeafNames(e) = {n}
<1>1. PICK n : LeafNames(e) = {n}  BY LeafNamesFinite, FS_Singleton
<1>2. n \in Name  BY <1>1, LeafNamesType
<1>. QED  BY <1>1, <1>2

\* What answers one of the candidates is one of them.
LEMMA Closes ==
  ASSUME NEW x, NEW m, OwnNames(x, m), NEW S, NEW a \in m, capability_present(x, S, a)
  PROVE  S \cap m # {}
<1>1. Answering(x, a) \subseteq m  BY DEF OwnNames
<1>2. CASE Overridden(x, a)  BY <1>1, <1>2 DEF capability_present, Answering
<1>3. CASE ~Overridden(x, a)  BY <1>1, <1>3 DEF capability_present, Answering
<1>. QED  BY <1>2, <1>3

LEMMA PickedFrom ==
  ASSUME NEW m, m # {} PROVE \E p \in m : AnyOf(m) = Pull(p)
BY DEF AnyOf

\* resolve: a package, a report, or a choice that any of its candidates closes.
LEMMA ReadCap ==
  ASSUME NEW x \in Repositories, NEW who, NEW l, NEW T, NEW e \in Expr, ~Rich(e),
         OwnNames(x, Matching(x, e)), Brought(l, who, resolve(x, e))
  PROVE  HandShape(x, who, l, e, T)
<1>. DEFINE m == Matching(x, e)
            r == resolve(x, e)
<1>0. Kind(e) = "cap"  BY DEF Rich
<1>m. m \in SUBSET Pkg /\ m \in SUBSET Name  BY MatchingType, InputAssumption
<1>1. Outcome(x, e, r)  BY ResolveOutcome
<1>. HIDE DEF r
<1>2. CASE \E p \in Pkg : /\ r.pkgs = {p}
                          /\ \/ p \in m
                             \/ \E k \in {e, Bare(e)} : Overridden(x, k) /\ x.overrides[k] = p
  <2>1. PICK p \in Pkg : /\ r.pkgs = {p}
                         /\ \/ p \in m
                            \/ \E k \in {e, Bare(e)} : Overridden(x, k) /\ x.overrides[k] = p
    BY <1>2
  <2>2. p \in l.pkgs  BY <2>1 DEF Brought, r
  <2>3. l.pkgs \cap m # {} \/ \E k \in {e, Bare(e)} : Decided(x, l.pkgs, k)
    BY <2>1, <2>2 DEF Decided
  <2>4. Holds(x, l.pkgs)[e]  BY <2>3, MeaningParts
  <2>. QED  BY <1>0, <2>4 DEF HandShape
<1>3. CASE r.problems = {[kind |-> "unresolved", expr |-> e]}
  <2>. DEFINE q == [kind |-> "unresolved", expr |-> e]
  <2>1. q \in r.problems /\ q.expr = e  BY <1>3
  <2>2. Told(l, who, e)  BY <2>1 DEF Brought, r
  <2>. QED  BY <2>2 DEF HandShape
<1>4. CASE r.choices = {[expr |-> e, alts |-> m]}
  <2>. DEFINE c == [expr |-> e, alts |-> m]
  <2>1. c \in r.choices /\ c.expr = e /\ c.alts = m  BY <1>4
  <2>2. [expr |-> e, alts |-> m, who |-> who] \in l.choices  BY <2>1 DEF Brought, r
  <2>3. ASSUME NEW S \in SUBSET Pkg, NEW a \in m, capability_present(x, S, a)
        PROVE  Holds(x, S)[e]
    <3>1. S \cap m # {}  BY <2>3, Closes
    <3>. QED  BY <3>1, MeaningParts
  <2>4. Closing(x, e, m)  BY <1>0, <2>3 DEF Closing
  <2>5. e \in Texts(e)  BY DEF Texts
  <2>6. Offered(x, l, who, e)  BY <1>m, <2>2, <2>4, <2>5 DEF Offered
  <2>. QED  BY <2>6 DEF HandShape
<1>. QED  BY <1>1, <1>2, <1>3, <1>4 DEF Outcome

\* An `or` of names: one is there already, a package is pulled, or a choice is open.
LEMMA ReadOr ==
  ASSUME NEW x \in Repositories, NEW who, NEW l, NEW T, NEW S, S \subseteq l.pkgs,
         NEW e \in Expr, Kind(e) = "or", Operands(e) \subseteq Name,
         Brought(l, who, require_or(x, satisfied(x, S), e))
  PROVE  HandShape(x, who, l, e, T)
<1>. DEFINE sat == satisfied(x, S)
            r == require_or(x, sat, e)
            reads == {resolve(x, n) : n \in LeafNames(e)}
            live == UNION {y.pkgs : y \in reads}
<1>1. \A y \in Operands(e) : y \in Expr /\ ~Rich(y) /\ Bare(y) = y /\ Leaves[y] = {y}
  BY NameFacts
<1>2. LeafNames(e) = Operands(e)
  <2>1. Leaves[e] = UNION {Leaves[y] : y \in Operands(e)}  BY LeavesAt DEF Rich
  <2>2. Leaves[e] = Operands(e)  BY <1>1, <2>1
  <2>. QED  BY <1>1, <2>2 DEF LeafNames
<1>h. \A R : (Decided(x, R, e) \/ \E y \in Operands(e) : Holds(x, R)[y]) => Holds(x, R)[e]
  BY MeaningParts
<1>s. Holds(x, l.pkgs)[e] => HandShape(x, who, l, e, T)  BY DEF HandShape
<1>3. CASE \E y \in Operands(e) : sat[y]
  <2>1. PICK y \in Operands(e) : sat[y]  BY <1>3
  <2>2. capability_present(x, S, y)  BY <1>1, <2>1, TruthParts
  <2>3. Holds(x, S)[y]  BY <2>2, PresentHolds
  <2>4. Kind(y) = "cap"  BY NameFacts
  <2>5. Holds(x, l.pkgs)[y]  BY <1>1, <2>3, <2>4, HoldsGrows
  <2>. QED  BY <1>h, <1>s, <2>5
<1>4. CASE ~(\E y \in Operands(e) : sat[y]) /\ ~HasNames[e]
  <2>1. r = Complain("rich", e)  BY <1>4 DEF require_or
  <2>2. Told(l, who, e)  BY <2>1, BroughtBy
  <2>. QED  BY <2>2 DEF HandShape
<1>5. CASE ~(\E y \in Operands(e) : sat[y]) /\ HasNames[e] /\ Overridden(x, e)
  <2>1. r = Pull(x.overrides[e])  BY <1>5 DEF require_or
  <2>2. Decided(x, l.pkgs, e)  BY <1>5, <2>1, BroughtBy DEF Decided
  <2>. QED  BY <1>h, <1>s, <2>2
<1>6. CASE ~(\E y \in Operands(e) : sat[y]) /\ HasNames[e] /\ ~Overridden(x, e)
  <2>1. r = settle_or(e, reads, live)  BY <1>6 DEF require_or, alternatives
  <2>2. CASE Cardinality(live) = 1 /\ \A y \in reads : y.choices = {}
    <3>. HIDE DEF live
    <3>1. r = AnyOf(live)  BY <2>1, <2>2 DEF settle_or
    <3>2. live # {}  BY <2>2, FS_EmptySet
    <3>3. PICK p \in live : r = Pull(p)  BY <3>1, <3>2, PickedFrom
    <3>. HIDE DEF r
    <3>4. PICK n \in LeafNames(e) : p \in resolve(x, n).pkgs  BY DEF live
    <3>5. p \in l.pkgs  BY <3>3, BroughtBy DEF r
    <3>6. p \in Matching(x, n) \/ \E k \in {n, Bare(n)} : Overridden(x, k) /\ x.overrides[k] = p
      BY <3>4, ResolveSimple
    <3>7. l.pkgs \cap Matching(x, n) # {} \/ \E k \in {n, Bare(n)} : Decided(x, l.pkgs, k)
      BY <3>5, <3>6 DEF Decided
    <3>8. Holds(x, l.pkgs)[n]  BY <1>1, <1>2, <3>7, MeaningParts
    <3>. QED  BY <1>2, <1>h, <1>s, <3>8
  <2>3. CASE ~(Cardinality(live) = 1 /\ \A y \in reads : y.choices = {})
    <3>. DEFINE A == LeafNames(e)
    <3>1. r = Choose(e, A)
      <4>. HIDE DEF live, reads
      <4>. QED  BY <2>1, <2>3 DEF settle_or
    <3>. HIDE DEF r
    <3>2. [expr |-> e, alts |-> A, who |-> who] \in l.choices  BY <3>1, BroughtBy DEF r
    <3>3. \A R : (\E a \in A : capability_present(x, R, a)) => Holds(x, R)[e]
      BY <1>2, <1>h, PresentHolds
    <3>4. Closing(x, e, A)  BY <3>3 DEF Closing
    <3>5. A \in SUBSET Name  BY LeafNamesType
    <3>. HIDE DEF A
    <3>6. e \in Texts(e)  BY DEF Texts
    <3>7. Offered(x, l, who, e)  BY <3>2, <3>4, <3>5, <3>6 DEF Offered
    <3>. QED  BY <3>7 DEF HandShape
  <2>. QED  BY <2>2, <2>3
<1>. QED  BY <1>3, <1>4, <1>5, <1>6

\* The candidates of a range are named by its one capability.
LEMMA ReadRange ==
  ASSUME NEW x \in Repositories, NEW who, NEW l, NEW T, NEW e \in Expr, Kind(e) = "with",
         NEW n \in Name, LeafNames(e) = {n}, OwnNames(x, InRange(x, e, n)),
         Brought(l, who, resolve_range(x, e, n))
  PROVE  HandShape(x, who, l, e, T)
<1>. DEFINE fit == InRange(x, e, n)
            r == resolve_range(x, e, n)
            newest == NewestOf(x, n, fit, {})
<1>1. fit \in SUBSET Pkg /\ fit \in SUBSET Name  BY ByNameType, InputAssumption DEF InRange
<1>2. ASSUME NEW p \in fit PROVE \A b \in Leaves[e] : Fits(x, p, b)
  <2>1. \A b \in Leaves[e] : Bare(b) = n  BY DEF LeafNames
  <2>. QED  BY <2>1 DEF Fits, Matching, InRange
<1>3. \A S : S \cap fit # {} => Holds(x, S)[e]
  <2>1. \A S : S \cap fit # {} => \E p \in S : \A b \in Leaves[e] : Fits(x, p, b)  BY <1>2
  <2>. HIDE DEF fit
  <2>. QED  BY <2>1, MeaningOfRich
<1>s. Holds(x, l.pkgs)[e] => HandShape(x, who, l, e, T)  BY DEF HandShape
<1>n. newest \subseteq fit  BY NewestAmong
<1>r. r = IF Overridden(x, n) THEN Pull(x.overrides[n])
          ELSE IF fit = {} THEN Complain("unresolved", e)
          ELSE IF Cardinality(fit) = 1 THEN AnyOf(fit)
          ELSE IF newest # {} THEN AnyOf(newest) ELSE Choose(joined[e], fit)
  BY DEF resolve_range, pick_range, prefer
<1>b. Brought(l, who, r) /\ OwnNames(x, fit)  OBVIOUS
<1>. HIDE DEF fit, r, newest
<1>4. CASE Overridden(x, n)
  <2>1. x.overrides[n] \in l.pkgs  BY <1>4, <1>b, <1>r, BroughtBy
  <2>2. Holds(x, l.pkgs)[e]  BY <1>4, <2>1, MeaningOfRich DEF Decided
  <2>. QED  BY <1>s, <2>2
<1>5. CASE r = Complain("unresolved", e)
  <2>1. Told(l, who, e)  BY <1>5, <1>b, BroughtBy
  <2>. QED  BY <2>1 DEF HandShape
<1>6. CASE \E m \in SUBSET fit : m # {} /\ r = AnyOf(m)
  <2>1. PICK m \in SUBSET fit : m # {} /\ r = AnyOf(m)  BY <1>6
  <2>2. PICK p \in m : r = Pull(p)  BY <2>1, PickedFrom
  <2>3. p \in l.pkgs  BY <2>2, <1>b, BroughtBy
  <2>4. Holds(x, l.pkgs)[e]  BY <1>3, <2>3
  <2>. QED  BY <1>s, <2>4
<1>7. CASE r = Choose(joined[e], fit)
  <2>1. [expr |-> joined[e], alts |-> fit, who |-> who] \in l.choices
    BY <1>7, <1>b, BroughtBy
  <2>2. \A S : (\E a \in fit : capability_present(x, S, a)) => Holds(x, S)[e]
    BY <1>3, <1>b, Closes
  <2>3. Closing(x, e, fit)  BY <2>2 DEF Closing
  <2>4. joined[e] \in Texts(e)  BY DEF Texts
  <2>5. Offered(x, l, who, e)  BY <1>1, <2>1, <2>3, <2>4 DEF Offered
  <2>. QED  BY <2>5 DEF HandShape
<1>. QED  BY <1>n, <1>r, <1>4, <1>5, <1>6, <1>7

\* The candidates left of several names, or of one without another.
LEMMA ReadAmong ==
  ASSUME NEW x \in Repositories, NEW who, NEW l, NEW T, NEW e \in Expr,
         Kind(e) \in {"with", "without"}, NEW C, \A S : S \cap C # {} => Holds(x, S)[e],
         Brought(l, who, among(x, e, C))
  PROVE  HandShape(x, who, l, e, T)
<1>. DEFINE r == among(x, e, C)
<1>s. Holds(x, l.pkgs)[e] => HandShape(x, who, l, e, T)  BY DEF HandShape
<1>r. r = IF Cardinality(C) = 1 THEN AnyOf(C)
          ELSE IF Overridden(x, e) THEN Pull(x.overrides[e]) ELSE Complain("unresolved", e)
  BY DEF among
<1>b. Brought(l, who, r)  OBVIOUS
<1>. HIDE DEF r
<1>1. CASE Cardinality(C) = 1
  <2>1. C # {} /\ r = AnyOf(C)  BY <1>1, <1>r, FS_EmptySet
  <2>2. PICK p \in C : r = Pull(p)  BY <2>1, PickedFrom
  <2>3. p \in l.pkgs  BY <2>2, <1>b, BroughtBy
  <2>. QED  BY <1>s, <2>3
<1>2. CASE Cardinality(C) # 1 /\ Overridden(x, e)
  <2>1. x.overrides[e] \in l.pkgs  BY <1>2, <1>r, <1>b, BroughtBy
  <2>2. Decided(x, l.pkgs, e)  BY <1>2, <2>1 DEF Decided
  <2>3. Holds(x, l.pkgs)[e]
    <3>1. e \in Texts(e)  BY TextsType
    <3>. QED  BY <2>2, <3>1, MeaningOfRich
  <2>. QED  BY <1>s, <2>3
<1>3. CASE Cardinality(C) # 1 /\ ~Overridden(x, e)
  <2>1. Told(l, who, e)  BY <1>3, <1>r, <1>b, BroughtBy
  <2>. QED  BY <2>1 DEF HandShape
<1>. QED  BY <1>1, <1>2, <1>3

LEMMA ReadWith ==
  ASSUME NEW x \in Repositories, NEW who, NEW l, NEW T, NEW e \in Expr, NEW U,
         Kind(e) \in {"with", "without"}, TameShape(x, e, U),
         Brought(l, who, require_with(x, e))
  PROVE  HandShape(x, who, l, e, T)
<1>. DEFINE C == Intersect(x, e)
<1>1. CASE Kind(e) = "with" /\ OneRange(e)
  <2>1. PICK n \in Name : LeafNames(e) = {n}  BY <1>1, OneName DEF OneRange
  <2>2. (CHOOSE y \in LeafNames(e) : TRUE) = n  BY <2>1
  <2>3. require_with(x, e) = resolve_range(x, e, n)  BY <1>1, <2>2 DEF require_with, OneRange
  <2>4. OwnNames(x, InRange(x, e, n))  BY <1>1, <2>1 DEF TameShape, Rich
  <2>. QED  BY <1>1, <2>1, <2>3, <2>4, ReadRange
<1>2. CASE /\ ~(Kind(e) = "with" /\ OneRange(e))
           /\ require_with(x, e) = Complain("rich", e)
  <2>1. Told(l, who, e)  BY <1>2, BroughtBy
  <2>. QED  BY <2>1 DEF HandShape
<1>3. CASE ~(Kind(e) = "with" /\ OneRange(e)) /\ require_with(x, e) = among(x, e, C)
  <2>1. CASE Kind(e) = "with"
    <3>1. Leaves[e] \subseteq Name  BY <1>3, <2>1 DEF TameShape, Rich
    <3>2. ASSUME NEW p \in C, NEW b \in Leaves[e] PROVE Fits(x, p, b)
      <4>1. Bare(b) = b /\ b \in LeafNames(e)  BY <3>1, NameFacts DEF LeafNames
      <4>2. p \in x.provides[b]  BY <2>1, <3>2, <4>1 DEF Intersect
      <4>. QED  BY <3>1, <4>2, NameMatching DEF Fits
    <3>3. \A S : S \cap C # {} => \E p \in S : \A b \in Leaves[e] : Fits(x, p, b)  BY <3>2
    <3>. HIDE DEF C
    <3>4. \A S : S \cap C # {} => Holds(x, S)[e]  BY <2>1, <3>3, MeaningOfRich
    <3>. QED  BY <1>3, <3>4, ReadAmong
  <2>2. CASE Kind(e) = "without"
    <3>. DEFINE a == node[e].left
                b == node[e].right
    <3>1. a \in Name /\ b \in Name  BY <2>2 DEF TameShape, Rich
    <3>. HIDE DEF a, b
    <3>2. /\ FirstName[a] = a /\ Leaves[a] = {a} /\ Matching(x, a) = x.provides[a]
          /\ FirstName[b] = b /\ Leaves[b] = {b} /\ Matching(x, b) = x.provides[b]
      BY <3>1, NameFacts, NameMatching
    <3>3. C = x.provides[a] \ x.provides[b]  BY <2>2, <3>2 DEF Intersect, a, b
    <3>4. \A p \in C : (\A k \in Leaves[a] : Fits(x, p, k)) /\ \A k \in Leaves[b] : ~Fits(x, p, k)
      BY <3>2, <3>3 DEF Fits
    <3>. HIDE DEF C
    <3>5. \A S : S \cap C # {} => Holds(x, S)[e]  BY <2>2, <3>4, MeaningOfRich DEF a, b
    <3>. QED  BY <1>3, <3>5, ReadAmong
  <2>. QED  BY <2>1, <2>2
<1>4. \/ Kind(e) = "with" /\ OneRange(e)
      \/ require_with(x, e) = Complain("rich", e)
      \/ require_with(x, e) = among(x, e, C)
  BY DEF require_with, OneRange
<1>. QED  BY <1>1, <1>2, <1>3, <1>4

-----------------------------------------------------------------------------
(* Every reading does, and what is handed stays handed. *)

\* The part of a tame text that its kind speaks of.
LEMMA TameParts ==
  ASSUME NEW x, NEW e \in Tame(x)
  PROVE  /\ e \in Expr
         /\ ~Rich(e) => OwnNames(x, Matching(x, e))
         /\ Kind(e) = "and" =>
              Operands(e) \subseteq Tame(x) /\ \A y \in Operands(e) : Rich(y) \/ y \in Name
         /\ Kind(e) = "or" => Operands(e) \subseteq Name
         /\ Kind(e) \in {"if", "unless"} =>
              /\ node[e].else = NoExpr /\ node[e].cond \in Sure(x)
              /\ node[e].then \in Tame(x) /\ (Rich(node[e].then) \/ node[e].then \in Name)
         /\ Kind(e) = "unless" =>
              node[e].then \in Name /\ resolve(x, node[e].then).choices = {}
<1>1. e \in Expr /\ TameShape(x, e, Tame(x))  BY TameUnfolds
<1>. HIDE DEF Tame, Sure
<1>2. ~Rich(e) => OwnNames(x, Matching(x, e))  BY <1>1 DEF TameShape, Rich
<1>3. Kind(e) = "and" =>
        Operands(e) \subseteq Tame(x) /\ \A y \in Operands(e) : Rich(y) \/ y \in Name
  BY <1>1 DEF TameShape, Rich
<1>4. Kind(e) = "or" => Operands(e) \subseteq Name  BY <1>1 DEF TameShape, Rich
<1>5. Kind(e) \in {"if", "unless"} =>
        /\ node[e].else = NoExpr /\ node[e].cond \in Sure(x)
        /\ node[e].then \in Tame(x) /\ (Rich(node[e].then) \/ node[e].then \in Name)
  BY <1>1 DEF TameShape, Rich
<1>6. Kind(e) = "unless" =>
        node[e].then \in Name /\ resolve(x, node[e].then).choices = {}
  BY <1>1 DEF TameShape, Rich
<1>. QED  BY <1>1, <1>2, <1>3, <1>4, <1>5, <1>6

\* What require makes of a text hands it, however deep it nests.
LEMMA ReadHands ==
  ASSUME NEW x \in Repositories, NEW who, NEW l, NEW S, S \subseteq l.pkgs,
         NEW final \in BOOLEAN, NEW e \in Tame(x), Rich(e) \/ e \in Name,
         Brought(l, who, require(x, S, final)[e]),
         require(x, S, final)[e].defer => Waiting(l, who, e)
  PROVE  e \in Handed(x, who, l)
<1>. DEFINE f == require(x, S, final)
            sat == satisfied(x, S)
            T == {d \in Tame(x) : /\ Rich(d) \/ d \in Name
                                  /\ Brought(l, who, f[d])
                                  /\ f[d].defer => Waiting(l, who, d)}
<1>1. ASSUME NEW d \in T PROVE HandShape(x, who, l, d, T)
  <2>0. d \in Tame(x) /\ (Rich(d) \/ d \in Name) /\ Brought(l, who, f[d])
        /\ (f[d].defer => Waiting(l, who, d))
    OBVIOUS
  <2>t. \A y \in Tame(x) : (Rich(y) \/ y \in Name) /\ Brought(l, who, f[y])
                           /\ (f[y].defer => Waiting(l, who, y)) => y \in T
    OBVIOUS
  <2>d. d \in Expr  BY <2>0, TameUnfolds
  <2>w. Waiting(l, who, d) => HandShape(x, who, l, d, T)  BY DEF HandShape
  <2>k. Kind(d) \in {"cap", "and", "or", "with", "without", "if", "unless", "garbled"}
    BY <2>d, TreeAssumption
  <2>1. CASE ~Rich(d)
    <3>1. d \in Name /\ Bare(d) = d  BY <2>0, <2>1, NameFacts
    <3>2. f[d] = resolve(x, d)  BY <2>d, <2>1, <3>1, RequireParts
    <3>3. OwnNames(x, Matching(x, d))  BY <2>0, <2>1, TameParts
    <3>. HIDE DEF T, f
    <3>. QED  BY <2>0, <2>d, <2>1, <3>2, <3>3, ReadCap
  <2>2. CASE Kind(d) = "and"
    <3>1. f[d] = Together(d, f)  BY <2>d, <2>2, RequireParts
    <3>2. Operands(d) \subseteq Tame(x) /\ \A y \in Operands(d) : Rich(y) \/ y \in Name
      BY <2>0, <2>2, TameParts
    <3>. HIDE DEF f
    <3>3. ASSUME NEW y \in Operands(d) PROVE y \in T
      <4>1. /\ f[y].pkgs \subseteq f[d].pkgs /\ f[y].pend \subseteq f[d].pend
            /\ f[y].choices \subseteq f[d].choices /\ f[y].problems \subseteq f[d].problems
            /\ f[y].defer => y \in f[d].pend
        BY <3>1 DEF Together
      <4>2. Brought(l, who, f[y]) /\ (f[y].defer => Waiting(l, who, y))
        BY <2>0, <4>1 DEF Brought
      <4>. HIDE DEF T
      <4>. QED  BY <2>t, <3>2, <4>2
    <3>4. Operands(d) \subseteq T  BY <3>3
    <3>. HIDE DEF T
    <3>. QED  BY <2>2, <3>4 DEF HandShape
  <2>3. CASE Kind(d) = "or"
    <3>1. f[d] = require_or(x, sat, d)  BY <2>d, <2>3, RequireParts
    <3>2. Operands(d) \subseteq Name  BY <2>0, <2>3, TameParts
    <3>. HIDE DEF T, f
    <3>. QED  BY <2>0, <2>d, <2>3, <3>1, <3>2, ReadOr
  <2>4. CASE Kind(d) \in {"with", "without"}
    <3>1. f[d] = require_with(x, d)  BY <2>d, <2>4, RequireParts
    <3>2. TameShape(x, d, Tame(x))  BY <2>0, TameUnfolds
    <3>. HIDE DEF T, f
    <3>. QED  BY <2>0, <2>d, <2>4, <3>1, <3>2, ReadWith
  <2>5. CASE Kind(d) \in {"if", "unless"}
    <3>. DEFINE then == node[d].then
                cond == node[d].cond
    <3>1. /\ node[d].else = NoExpr /\ cond \in Sure(x) /\ then \in Tame(x)
          /\ Rich(then) \/ then \in Name
      BY <2>0, <2>5, TameParts
    <3>2. CASE f[d].defer
      <4>. HIDE DEF f, T
      <4>. QED  BY <2>0, <2>w, <3>2
    <3>3. CASE ~f[d].defer
      <4>1. Defer.defer  BY SimpleEffects
      <4>2. \/ f[d] = f[then]
            \/ Kind(d) = "unless" /\ sat[cond]
        <5>1. Kind(d) = "if" => /\ sat[cond] => f[d] = f[then]
                                /\ ~sat[cond] => f[d] = Defer
          BY <2>d, <3>1, RequireParts
        <5>2. Kind(d) = "unless" => (~sat[cond] => f[d] = IF final THEN f[then] ELSE Defer)
          BY <2>d, RequireParts
        <5>. HIDE DEF f, sat, then, cond, T
        <5>. QED  BY <2>5, <3>3, <4>1, <5>1, <5>2
      <4>3. CASE f[d] = f[then]
        <5>. HIDE DEF f, then
        <5>1. then \in T  BY <2>0, <2>t, <3>1, <3>3, <4>3
        <5>. HIDE DEF T
        <5>. QED  BY <2>5, <5>1 DEF HandShape, then
      <4>4. CASE Kind(d) = "unless" /\ sat[cond]
        <5>1. satisfied(x, l.pkgs)[cond]  BY <3>1, <4>4, SureGrows
        <5>. HIDE DEF T
        <5>. QED  BY <4>4, <5>1 DEF HandShape
      <4>. QED  BY <4>2, <4>3, <4>4
    <3>. QED  BY <3>2, <3>3
  <2>6. CASE Kind(d) = "garbled"
    <3>1. f[d] = Complain("rich", d)  BY <2>d, <2>6, RequireParts
    <3>. HIDE DEF T, f
    <3>2. Told(l, who, d)  BY <2>0, <3>1, BroughtBy
    <3>. QED  BY <3>2 DEF HandShape
  <2>. QED  BY <2>k, <2>1, <2>2, <2>3, <2>4, <2>5, <2>6 DEF Rich
<1>2. T \in SUBSET Tame(x) /\ e \in T  OBVIOUS
<1>. HIDE DEF T
<1>3. \A d \in T : HandShape(x, who, l, d, T \cup Handed(x, who, l))  BY <1>1, HandGrows
<1>4. T \subseteq Handed(x, who, l)  BY <1>2, <1>3, HandedFolds
<1>. QED  BY <1>2, <1>4

\* What by itself settles a text hands it.
LEMMA HandedBy ==
  ASSUME NEW x, NEW who, NEW l, NEW e \in Tame(x), HandShape(x, who, l, e, {})
  PROVE  e \in Handed(x, who, l)
<1>1. HandShape(x, who, l, e, {e} \cup Handed(x, who, l))  BY HandGrows
<1>2. {e} \in SUBSET Tame(x) /\ \A d \in {e} : HandShape(x, who, l, d, {e} \cup Handed(x, who, l))
  BY <1>1
<1>3. {e} \subseteq Handed(x, who, l)  BY <1>2, HandedFolds
<1>. QED  BY <1>3

\* Lists that grow keep what is handed, when what waited and what was open is
\* handed anew.
LEMMA HandKeeps ==
  ASSUME NEW x, NEW who, NEW l, NEW m,
         l.pkgs \subseteq m.pkgs, l.problems \subseteq m.problems,
         \A d \in Tame(x) : Waiting(l, who, d) \/ Offered(x, l, who, d) => d \in Handed(x, who, m)
  PROVE  Handed(x, who, l) \subseteq Handed(x, who, m)
<1>. DEFINE T == Handed(x, who, l)
            U == Handed(x, who, m)
<1>1. ASSUME NEW e \in T PROVE HandShape(x, who, m, e, T \cup U)
  <2>1. e \in Tame(x) /\ HandShape(x, who, l, e, T)  BY HandedUnfolds
  <2>2. \A y \in U : HandShape(x, who, m, y, U)  BY HandedUnfolds
  <2>3. U \subseteq T \cup U /\ T \subseteq T \cup U  OBVIOUS
  <2>t. e \in Expr  BY <2>1, TameUnfolds
  <2>4. CASE Waiting(l, who, e) \/ Offered(x, l, who, e)
    <3>1. e \in U  BY <2>1, <2>4
    <3>. HIDE DEF T, U
    <3>. QED  BY <2>2, <2>3, <3>1, HandGrows
  <2>5. CASE Told(l, who, e)
    <3>1. Told(m, who, e)  BY <2>5 DEF Told
    <3>. HIDE DEF T, U
    <3>. QED  BY <3>1 DEF HandShape
  <2>6. CASE Kind(e) \in {"cap", "or", "with", "without"} /\ Holds(x, l.pkgs)[e]
    <3>1. Kind(e) = "or" => Operands(e) \subseteq Name  BY <2>1, TameParts
    <3>2. Holds(x, m.pkgs)[e]  BY <2>t, <2>6, <3>1, HoldsGrows
    <3>. HIDE DEF T, U
    <3>. QED  BY <2>6, <3>2 DEF HandShape
  <2>7. CASE Kind(e) = "and" /\ Operands(e) \subseteq T
    <3>1. Operands(e) \subseteq T \cup U  BY <2>7
    <3>. HIDE DEF T, U
    <3>. QED  BY <2>7, <3>1 DEF HandShape
  <2>8. CASE Kind(e) \in {"if", "unless"} /\ node[e].then \in T
    <3>1. node[e].then \in T \cup U  BY <2>8
    <3>. HIDE DEF T, U
    <3>. QED  BY <2>8, <3>1 DEF HandShape
  <2>9. CASE Kind(e) = "unless" /\ satisfied(x, l.pkgs)[node[e].cond]
    <3>1. node[e].cond \in Sure(x)  BY <2>1, <2>9, TameParts
    <3>2. satisfied(x, m.pkgs)[node[e].cond]  BY <2>9, <3>1, SureGrows
    <3>. HIDE DEF T, U
    <3>. QED  BY <2>9, <3>2 DEF HandShape
  <2>. HIDE DEF T, U
  <2>. QED  BY <2>1, <2>4, <2>5, <2>6, <2>7, <2>8, <2>9 DEF HandShape
<1>2. T \in SUBSET Tame(x)  BY HandedUnfolds
<1>. HIDE DEF T
<1>3. T \subseteq U  BY <1>1, <1>2, HandedFolds
<1>. QED  BY <1>3 DEF T

-----------------------------------------------------------------------------
(* What waits. *)

\* A plain operand is resolved by its name and waits for nothing.
LEMMA PlainReadsNow ==
  ASSUME NEW x \in Repositories, NEW S, NEW final \in BOOLEAN, NEW e \in Expr, ~Rich(e)
  PROVE  /\ require(x, S, final)[e] = resolve(x, Bare(e))
         /\ require(x, S, final)[e].defer = FALSE /\ require(x, S, final)[e].pend = {}
<1>. DEFINE r == require(x, S, final)[e]
<1>1. r = resolve(x, Bare(e))  BY RequireParts
<1>2. Simple(resolve(x, Bare(e)))  BY ResolveSimple
<1>. HIDE DEF r
<1>3. r.defer = FALSE /\ r.pend = {}  BY <1>1, <1>2 DEF Simple
<1>. QED  BY <1>1, <1>3 DEF r

\* What a reading leaves waiting is a rich operand that defers.
LEMMA PendDefers ==
  ASSUME NEW x \in Repositories, NEW S, NEW final \in BOOLEAN, NEW e \in Expr,
         NEW z \in require(x, S, final)[e].pend
  PROVE  /\ z \in Expr /\ Rich(z) /\ require(x, S, final)[z].defer
         /\ e \in Tame(x) => z \in Tame(x)
<1>. DEFINE f == require(x, S, final)
            Good(d, y) == /\ y \in Expr /\ Rich(y) /\ f[y].defer
                          /\ d \in Tame(x) => y \in Tame(x)
            G == {d \in Expr : \A y \in f[d].pend : Good(d, y)}
<1>1. ASSUME NEW d \in Expr, Operands(d) \subseteq G PROVE d \in G
  <2>. SUFFICES ASSUME NEW y \in f[d].pend PROVE Good(d, y)  OBVIOUS
  <2>k. Kind(d) \in {"cap", "and", "or", "with", "without", "if", "unless", "garbled"}
    BY TreeAssumption
  <2>0. Nothing.pend = {} /\ Defer.pend = {}  BY SimpleEffects DEF Simple
  <2>1. CASE ~Rich(d)
    <3>1. f[d].pend = {}  BY <2>1, PlainReadsNow
    <3>. QED  BY <3>1
  <2>2. CASE Kind(d) = "and"
    <3>1. f[d] = Together(d, f)  BY <2>2, RequireParts
    <3>. HIDE DEF f
    <3>2. \/ \E o \in Operands(d) : y \in f[o].pend
          \/ y \in Operands(d) /\ f[y].defer
      BY <3>1 DEF Together
    <3>3. d \in Tame(x) => Operands(d) \subseteq Tame(x)  BY <2>2, TameParts
    <3>4. CASE \E o \in Operands(d) : y \in f[o].pend
      <4>1. PICK o \in Operands(d) : y \in f[o].pend  BY <3>4
      <4>2. Good(o, y)  BY <1>1, <4>1
      <4>. QED  BY <3>3, <4>1, <4>2
    <3>5. CASE y \in Operands(d) /\ f[y].defer
      <4>1. y \in Expr  BY <3>5, TreeAssumption
      <4>2. ~Rich(y) => f[y].defer = FALSE  BY <4>1, PlainReadsNow DEF f
      <4>. QED  BY <3>3, <3>5, <4>1, <4>2
    <3>. QED  BY <3>2, <3>4, <3>5
  <2>3. CASE Kind(d) \in {"or", "with", "without"}
    <3>1. f[d] = require_or(x, satisfied(x, S), d) \/ f[d] = require_with(x, d)
      BY <2>3, RequireParts
    <3>2. f[d].pend = {}  BY <3>1, RichSimple DEF Simple
    <3>. QED  BY <3>2
  <2>4. CASE Kind(d) \in {"if", "unless"}
    <3>. DEFINE t == node[d]
    <3>1. Operands(d) = {t.then, t.cond, t.else} \ {NoExpr} /\ t.then # NoExpr
      BY <2>4, TreeAssumption DEF Operands, Kind
    <3>2. \/ f[d] = f[t.then]
          \/ t.else # NoExpr /\ f[d] = f[t.else]
          \/ f[d] = Defer \/ f[d] = Nothing
      <4>1. Kind(d) = "if" =>
              \/ f[d] = f[t.then]
              \/ f[d] = IF t.else # NoExpr THEN f[t.else] ELSE Defer
        BY RequireParts
      <4>2. Kind(d) = "unless" =>
              \/ f[d] = IF t.else # NoExpr THEN f[t.else] ELSE Nothing
              \/ f[d] = IF final THEN f[t.then] ELSE Defer
        BY RequireParts
      <4>. HIDE DEF f, t, Good, G
      <4>. QED  BY <2>4, <4>1, <4>2
    <3>3. d \in Tame(x) => t.else = NoExpr /\ t.then \in Tame(x)  BY <2>4, TameParts
    <3>4. CASE f[d] = f[t.then]
      <4>1. Good(t.then, y)  BY <1>1, <3>1, <3>4
      <4>. QED  BY <3>3, <4>1
    <3>5. CASE t.else # NoExpr /\ f[d] = f[t.else]
      <4>1. Good(t.else, y)  BY <1>1, <3>1, <3>5
      <4>. QED  BY <3>3, <3>5, <4>1
    <3>6. CASE f[d] = Defer \/ f[d] = Nothing
      <4>1. f[d].pend = {}  BY <2>0, <3>6
      <4>. QED  BY <4>1
    <3>. QED  BY <3>2, <3>4, <3>5, <3>6
  <2>5. CASE Kind(d) = "garbled"
    <3>1. f[d] = Complain("rich", d)  BY <2>5, RequireParts
    <3>2. f[d].pend = {}  BY <3>1, SimpleEffects DEF Simple
    <3>. QED  BY <3>2
  <2>. QED  BY <2>k, <2>1, <2>2, <2>3, <2>4, <2>5 DEF Rich
<1>2. Expr \subseteq G
  <2>. HIDE DEF G
  <2>. QED  BY <1>1, TreeInduction
<1>3. Good(e, z)  BY <1>2
<1>. QED  BY <1>3

\* A tame text defers when its condition is not there yet.
LEMMA DeferCases ==
  ASSUME NEW x \in Repositories, NEW S, NEW final \in BOOLEAN, NEW e \in Tame(x),
         require(x, S, final)[e].defer
  PROVE  LET f == require(x, S, final)
             sat == satisfied(x, S)
             t == node[e]
         IN  \/ Kind(e) = "if" /\ ~sat[t.cond]
             \/ Kind(e) = "if" /\ sat[t.cond] /\ f[t.then].defer
             \/ Kind(e) = "unless" /\ ~sat[t.cond] /\ ~final
<1>. DEFINE f == require(x, S, final)
            sat == satisfied(x, S)
            t == node[e]
<1>0. e \in Expr  BY TameParts
<1>k. Kind(e) \in {"cap", "and", "or", "with", "without", "if", "unless", "garbled"}
  BY <1>0, TreeAssumption
<1>d. f[e].defer  OBVIOUS
<1>1. CASE ~Rich(e)
  <2>1. f[e].defer = FALSE  BY <1>0, <1>1, PlainReadsNow
  <2>. QED  BY <2>1
<1>2. CASE Kind(e) = "and"
  <2>1. f[e] = Together(e, f)  BY <1>0, <1>2, RequireParts
  <2>2. f[e].defer = FALSE
    <3>. HIDE DEF f
    <3>. QED  BY <2>1 DEF Together
  <2>. QED  BY <2>2
<1>3. CASE Kind(e) \in {"or", "with", "without"}
  <2>1. f[e] = require_or(x, sat, e) \/ f[e] = require_with(x, e)
    BY <1>0, <1>3, RequireParts
  <2>2. f[e].defer = FALSE  BY <2>1, RichSimple DEF Simple
  <2>. QED  BY <2>2
<1>4. CASE Kind(e) = "if"
  <2>1. sat[t.cond] => f[e] = f[t.then]  BY <1>0, <1>4, RequireParts
  <2>. HIDE DEF f, sat, t
  <2>2. \/ Kind(e) = "if" /\ ~sat[t.cond]
        \/ Kind(e) = "if" /\ sat[t.cond] /\ f[t.then].defer
    BY <1>4, <1>d, <2>1
  <2>. QED  BY <2>2 DEF f, sat, t
<1>5. CASE Kind(e) = "unless"
  <2>1. t.else = NoExpr /\ t.then \in Name  BY <1>5, TameParts
  <2>2. sat[t.cond] => f[e] = Nothing  BY <1>0, <1>5, <2>1, RequireParts
  <2>3. ASSUME ~sat[t.cond], final PROVE f[e] = f[t.then]
    <3>1. f[e] = IF final THEN f[t.then] ELSE Defer  BY <1>0, <1>5, <2>3, RequireParts
    <3>. HIDE DEF f, t
    <3>. QED  BY <2>3, <3>1
  <2>4. t.then \in Expr /\ ~Rich(t.then)  BY <2>1, NameFacts
  <2>5. f[t.then].defer = FALSE
    <3>1. \A y \in Expr : ~Rich(y) => f[y].defer = FALSE  BY PlainReadsNow
    <3>. HIDE DEF f, t
    <3>. QED  BY <2>4, <3>1
  <2>6. Nothing.defer = FALSE  BY SimpleEffects DEF Simple
  <2>. HIDE DEF f, sat, t
  <2>7. Kind(e) = "unless" /\ ~sat[t.cond] /\ ~final
    BY <1>5, <1>d, <2>2, <2>3, <2>5, <2>6
  <2>. QED  BY <2>7 DEF f, sat, t
<1>6. CASE Kind(e) = "garbled"
  <2>1. f[e] = Complain("rich", e)  BY <1>0, <1>6, RequireParts
  <2>2. f[e].defer = FALSE  BY <2>1, SimpleEffects DEF Simple
  <2>. QED  BY <2>2
<1>. QED  BY <1>k, <1>1, <1>2, <1>3, <1>4, <1>5, <1>6 DEF Rich

\* In the last reading that is a condition that did not come true.
LEMMA DeferredHolds ==
  ASSUME NEW x \in Repositories, NEW S, NEW e \in Tame(x), require(x, S, TRUE)[e].defer
  PROVE  Holds(x, S)[e]
<1>. DEFINE f == require(x, S, TRUE)
            sat == satisfied(x, S)
            of == Holds(x, S)
            G == {d \in Expr : d \in Tame(x) /\ f[d].defer => of[d]}
<1>1. ASSUME NEW d \in Expr, Operands(d) \subseteq G PROVE d \in G
  <2>1. SUFFICES ASSUME d \in Tame(x), f[d].defer PROVE of[d]  OBVIOUS
  <2>. DEFINE t == node[d]
  <2>2. \/ Kind(d) = "if" /\ ~sat[t.cond]
        \/ Kind(d) = "if" /\ sat[t.cond] /\ f[t.then].defer
    BY <2>1, DeferCases
  <2>3. Kind(d) = "if"  BY <2>2
  <2>4. t.else = NoExpr /\ t.cond \in Sure(x) /\ t.then \in Tame(x)
    BY <2>1, <2>3, TameParts
  <2>5. t.cond \in Expr /\ t.then \in Expr  BY <2>4, SureUnfolds, TameParts
  <2>6. t.cond \in Operands(d) /\ t.then \in Operands(d)
    <3>1. Operands(d) = {t.then, t.cond, t.else} \ {NoExpr}
      BY <2>3 DEF Operands, Kind
    <3>. QED  BY <2>5, <3>1, ExprAssumption
  <2>7. of[d] <=> (of[t.cond] => of[t.then])  BY <2>3, <2>4, <2>6, MeaningOfRich
  <2>8. sat[t.cond] <=> of[t.cond]  BY <2>4, SureMeans
  <2>9. f[t.then].defer => of[t.then]  BY <1>1, <2>4, <2>6
  <2>. HIDE DEF f, sat, of, t
  <2>. QED  BY <2>2, <2>7, <2>8, <2>9
<1>2. Expr \subseteq G
  <2>. HIDE DEF G
  <2>. QED  BY <1>1, TreeInduction
<1>3. e \in Expr  BY TameParts
<1>. QED  BY <1>2, <1>3

\* What waits when nothing else fires opens no choice in the last reading.
LEMMA QuietLast ==
  ASSUME NEW x \in Repositories, NEW S, NEW e \in Tame(x), require(x, S, FALSE)[e].defer
  PROVE  require(x, S, TRUE)[e].choices = {}
<1>. DEFINE f == require(x, S, FALSE)
            g == require(x, S, TRUE)
            sat == satisfied(x, S)
            G == {d \in Expr : d \in Tame(x) /\ f[d].defer => g[d].choices = {}}
<1>1. ASSUME NEW d \in Expr, Operands(d) \subseteq G PROVE d \in G
  <2>1. SUFFICES ASSUME d \in Tame(x), f[d].defer PROVE g[d].choices = {}  OBVIOUS
  <2>. DEFINE t == node[d]
  <2>2. \/ Kind(d) = "if" /\ ~sat[t.cond]
        \/ Kind(d) = "if" /\ sat[t.cond] /\ f[t.then].defer
        \/ Kind(d) = "unless" /\ ~sat[t.cond]
    BY <2>1, DeferCases
  <2>3. t.else = NoExpr /\ t.then \in Tame(x)  BY <2>1, <2>2, TameParts
  <2>4. t.then \in Operands(d)
    <3>1. Operands(d) = {t.then, t.cond, t.else} \ {NoExpr} /\ t.then # NoExpr
      BY <2>2, TreeAssumption DEF Operands, Kind
    <3>. QED  BY <3>1
  <2>5. CASE Kind(d) = "if" /\ ~sat[t.cond]
    <3>1. g[d] = Defer  BY <2>3, <2>5, RequireParts
    <3>. QED  BY <3>1, SimpleEffects
  <2>6. CASE Kind(d) = "if" /\ sat[t.cond] /\ f[t.then].defer
    <3>1. g[d] = g[t.then]  BY <2>6, RequireParts
    <3>. QED  BY <1>1, <2>3, <2>4, <2>6, <3>1
  <2>7. CASE Kind(d) = "unless" /\ ~sat[t.cond]
    <3>1. t.then \in Name /\ resolve(x, t.then).choices = {}  BY <2>1, <2>7, TameParts
    <3>2. g[d] = g[t.then]  BY <2>7, RequireParts
    <3>3. t.then \in Expr /\ ~Rich(t.then) /\ Bare(t.then) = t.then  BY <3>1, NameFacts
    <3>4. g[t.then] = resolve(x, Bare(t.then))  BY <3>3, PlainReadsNow
    <3>. HIDE DEF g, t
    <3>. QED  BY <3>1, <3>2, <3>3, <3>4
  <2>. QED  BY <2>2, <2>5, <2>6, <2>7
<1>2. Expr \subseteq G
  <2>. HIDE DEF G
  <2>. QED  BY <1>1, TreeInduction
<1>3. e \in Expr  BY TameParts
<1>. QED  BY <1>2, <1>3

-----------------------------------------------------------------------------
(* The lists of a run. *)

Lists == [pkgs |-> seen \cup frontier, pending |-> pending, choices |-> choices,
          problems |-> problems]

\* What a batch of readings brings, each reading brings.
LEMMA BatchBrings ==
  ASSUME NEW R, NEW m, Pulled(R) \subseteq m.pkgs, Waits(R) \subseteq m.pending,
         Opened(R) \subseteq m.choices, Reported(R) \subseteq m.problems, NEW r \in R
  PROVE  Brought(m, r.who, r.eff)
<1>1. r.eff.pkgs \subseteq m.pkgs  BY DEF Pulled
<1>2. ASSUME NEW e \in r.eff.pend PROVE Waiting(m, r.who, e)
  <2>1. [expr |-> e, who |-> r.who] \in Waits(R)  BY DEF Waits
  <2>. QED  BY <2>1 DEF Waiting
<1>3. ASSUME NEW c \in r.eff.choices
      PROVE  [expr |-> c.expr, alts |-> c.alts, who |-> r.who] \in m.choices
  <2>1. [expr |-> c.expr, alts |-> c.alts, who |-> r.who] \in Opened(R)  BY DEF Opened
  <2>. QED  BY <2>1
<1>4. ASSUME NEW q \in r.eff.problems PROVE Told(m, r.who, q.expr)
  <2>. DEFINE t == [kind |-> q.kind, expr |-> q.expr, who |-> r.who]
  <2>1. t \in Reported(R)  BY DEF Reported
  <2>2. t \in m.problems /\ t.who = r.who /\ t.expr = q.expr  BY <2>1
  <2>. QED  BY <2>2 DEF Told
<1>. QED  BY <1>1, <1>2, <1>3, <1>4 DEF Brought

\* A reading of a tame requirement hands it.
LEMMA ReadingHands ==
  ASSUME w \in Repositories, NEW who, NEW m, NEW S, S \subseteq m.pkgs, NEW final \in BOOLEAN,
         NEW e \in Tame(w), Brought(m, who, Read(require(w, S, final), e))
  PROVE  e \in Handed(w, who, m)
<1>. DEFINE f == require(w, S, final)
<1>0. e \in Expr  BY TameParts
<1>1. CASE ~Rich(e)
  <2>1. Brought(m, who, resolve(w, e))  BY <1>1 DEF Read
  <2>2. OwnNames(w, Matching(w, e))  BY <1>1, TameParts
  <2>3. HandShape(w, who, m, e, {})  BY <1>0, <1>1, <2>1, <2>2, ReadCap
  <2>. QED  BY <2>3, HandedBy
<1>2. CASE Rich(e) /\ f[e].defer
  <2>. HIDE DEF f
  <2>1. Brought(m, who, [Nothing EXCEPT !.pend = {e}])  BY <1>2 DEF Read, f
  <2>2. e \in [Nothing EXCEPT !.pend = {e}].pend  BY DEF Nothing
  <2>3. Waiting(m, who, e)  BY <2>1, <2>2 DEF Brought
  <2>4. HandShape(w, who, m, e, {})  BY <2>3 DEF HandShape
  <2>. QED  BY <2>4, HandedBy
<1>3. CASE Rich(e) /\ ~f[e].defer
  <2>1. Brought(m, who, f[e])  BY <1>3 DEF Read
  <2>. QED  BY <1>3, <2>1, ReadHands
<1>. QED  BY <1>1, <1>2, <1>3

\* What a reading leaves waiting.
LEMMA ReadPend ==
  ASSUME w \in Repositories, NEW S, NEW final \in BOOLEAN, NEW e \in Expr,
         NEW y \in Read(require(w, S, final), e).pend
  PROVE  /\ y \in Expr /\ Rich(y) /\ require(w, S, final)[y].defer
         /\ e \in Tame(w) => y \in Tame(w)
<1>. DEFINE f == require(w, S, final)
<1>1. CASE ~Rich(e)
  <2>1. y \in resolve(w, e).pend  BY <1>1 DEF Read
  <2>. QED  BY <2>1, ResolveSimple DEF Simple
<1>2. CASE Rich(e) /\ f[e].defer
  <2>1. y = e  BY <1>2 DEF Read, Nothing
  <2>. QED  BY <1>2, <2>1
<1>3. CASE Rich(e) /\ ~f[e].defer
  <2>1. y \in f[e].pend  BY <1>3 DEF Read
  <2>. QED  BY <2>1, PendDefers
<1>. QED  BY <1>1, <1>2, <1>3

\* Lists that only grow.
LEMMA GrowKeeps ==
  ASSUME NEW x, NEW who, NEW l, NEW m, l.pkgs \subseteq m.pkgs, l.pending \subseteq m.pending,
         l.choices \subseteq m.choices, l.problems \subseteq m.problems
  PROVE  Handed(x, who, l) \subseteq Handed(x, who, m)
<1>1. ASSUME NEW d \in Tame(x), Waiting(l, who, d) \/ Offered(x, l, who, d)
      PROVE  d \in Handed(x, who, m)
  <2>1. Waiting(m, who, d) \/ Offered(x, m, who, d)  BY <1>1 DEF Waiting, Offered
  <2>2. HandShape(x, who, m, d, {})  BY <2>1 DEF HandShape
  <2>. QED  BY <2>2, HandedBy
<1>. QED  BY <1>1, HandKeeps

\* What waited is read again.
LEMMA RereadKeeps ==
  ASSUME TypeOK, NEW final \in BOOLEAN, NEW who, NEW m,
         Lists.pkgs \subseteq m.pkgs, choices \subseteq m.choices, problems \subseteq m.problems,
         Pulled(Reread(final)) \subseteq m.pkgs, Waits(Reread(final)) \subseteq m.pending,
         Opened(Reread(final)) \subseteq m.choices, Reported(Reread(final)) \subseteq m.problems
  PROVE  Handed(w, who, Lists) \subseteq Handed(w, who, m)
<1>. DEFINE f == require(w, seen, final)
<1>1. ASSUME NEW d \in Tame(w), Waiting(Lists, who, d) PROVE d \in Handed(w, who, m)
  <2>. DEFINE i == [expr |-> d, who |-> who]
              r == [who |-> who, eff |-> Read(f, d)]
  <2>1. i \in pending  BY <1>1 DEF Waiting, Lists
  <2>2. r \in Reread(final)
    <3>1. r = [who |-> i.who, eff |-> Read(f, i.expr)]  OBVIOUS
    <3>. HIDE DEF r, i
    <3>. QED  BY <2>1, <3>1 DEF Reread
  <2>3. Brought(m, r.who, r.eff)
    <3>. HIDE DEF r
    <3>. QED  BY <2>2, BatchBrings
  <2>4. Brought(m, who, Read(f, d))  BY <2>3
  <2>5. seen \subseteq m.pkgs /\ w \in Repositories  BY DEF Lists, TypeOK
  <2>. QED  BY <2>4, <2>5, ReadingHands
<1>2. ASSUME NEW d \in Tame(w), Offered(w, Lists, who, d) PROVE d \in Handed(w, who, m)
  <2>1. Offered(w, m, who, d)  BY <1>2 DEF Offered, Lists
  <2>2. HandShape(w, who, m, d, {})  BY <2>1 DEF HandShape
  <2>. QED  BY <2>2, HandedBy
<1>3. Lists.problems \subseteq m.problems  BY DEF Lists
<1>. QED  BY <1>1, <1>2, <1>3, HandKeeps

\* A choice that closes has a candidate present, or its override is on its way.
LEMMA CloseKeeps ==
  ASSUME TypeOK, NEW who, NEW m, Lists.pkgs \subseteq m.pkgs, pending \subseteq m.pending,
         problems \subseteq m.problems,
         \A c \in choices : \/ c \in m.choices
                            \/ \E a \in c.alts : capability_present(w, seen, a)
                            \/ Overridden(w, c.expr) /\ w.overrides[c.expr] \in m.pkgs
  PROVE  Handed(w, who, Lists) \subseteq Handed(w, who, m)
<1>1. ASSUME NEW d \in Tame(w), Waiting(Lists, who, d) PROVE d \in Handed(w, who, m)
  <2>1. Waiting(m, who, d)  BY <1>1 DEF Waiting, Lists
  <2>2. HandShape(w, who, m, d, {})  BY <2>1 DEF HandShape
  <2>. QED  BY <2>2, HandedBy
<1>2. ASSUME NEW d \in Tame(w), Offered(w, Lists, who, d) PROVE d \in Handed(w, who, m)
  <2>1. PICK t \in Texts(d), A \in SUBSET Name :
          [expr |-> t, alts |-> A, who |-> who] \in choices /\ Closing(w, d, A)
    BY <1>2 DEF Offered, Lists
  <2>. DEFINE c == [expr |-> t, alts |-> A, who |-> who]
  <2>0. d \in Expr /\ (Kind(d) = "or" => Operands(d) \subseteq Name)  BY TameParts
  <2>k. Kind(d) \in {"cap", "or", "with"}  BY <2>1 DEF Closing
  <2>2. c.expr = t /\ c.alts = A /\ c \in choices  BY <2>1
  <2>3. CASE c \in m.choices
    <3>1. Offered(w, m, who, d)  BY <2>1, <2>3 DEF Offered
    <3>2. HandShape(w, who, m, d, {})  BY <3>1 DEF HandShape
    <3>. QED  BY <3>2, HandedBy
  <2>h. Holds(w, m.pkgs)[d] => d \in Handed(w, who, m)
    <3>1. Holds(w, m.pkgs)[d] => HandShape(w, who, m, d, {})  BY <2>k DEF HandShape
    <3>. QED  BY <3>1, HandedBy
  <2>4. CASE \E a \in A : capability_present(w, seen, a)
    <3>1. seen \in SUBSET Pkg /\ seen \subseteq m.pkgs  BY DEF TypeOK, Lists
    <3>2. Holds(w, seen)[d]  BY <2>1, <2>4, <3>1 DEF Closing
    <3>3. Holds(w, m.pkgs)[d]  BY <2>0, <2>k, <3>1, <3>2, HoldsGrows
    <3>. QED  BY <2>h, <3>3
  <2>5. CASE Overridden(w, t) /\ w.overrides[t] \in m.pkgs
    <3>1. Decided(w, m.pkgs, t)  BY <2>5 DEF Decided
    <3>2. Holds(w, m.pkgs)[d]
      <4>1. CASE Kind(d) = "cap"  BY <2>0, <3>1, <4>1, MeaningParts DEF Rich, Texts
      <4>2. CASE Kind(d) = "or"  BY <2>0, <3>1, <4>2, MeaningParts DEF Texts
      <4>3. CASE Kind(d) = "with"  BY <2>0, <3>1, <4>3, MeaningOfRich
      <4>. QED  BY <2>k, <4>1, <4>2, <4>3
    <3>. QED  BY <2>h, <3>2
  <2>6. \/ c \in m.choices
        \/ \E a \in c.alts : capability_present(w, seen, a)
        \/ Overridden(w, c.expr) /\ w.overrides[c.expr] \in m.pkgs
    BY <2>2
  <2>. QED  BY <2>2, <2>3, <2>4, <2>5, <2>6
<1>3. Lists.problems \subseteq m.problems  BY DEF Lists
<1>. QED  BY <1>1, <1>2, <1>3, HandKeeps

-----------------------------------------------------------------------------
(***************************************************************************)
(* The invariant: while the loop runs, every tame requirement read so far  *)
(* is handed to the lists, and what waits after a round has deferred in    *)
(* it.                                                                     *)
(***************************************************************************)

\* The caller's capabilities are read without their versions.
Stated(e) == Rich(e) \/ e \in Name

HandInv ==
  /\ \A p \in seen : \A e \in asks.requires[p] :
       e \in Tame(w) => e \in Handed(w, p, Lists)
  /\ phase # "extra" => \A e \in asks.extra :
       e \in Tame(w) /\ Stated(e) => e \in Handed(w, Src, Lists)

WaitInv ==
  /\ phase \in {"choose", "unless"} => \A i \in pending : require(w, seen, FALSE)[i.expr].defer
  /\ phase \in {"report", "done"} => \A i \in pending : require(w, seen, TRUE)[i.expr].defer

\* Every package and the caller ask for such texts only.
AllTame ==
  /\ \A p \in Pkg : asks.requires[p] \subseteq Tame(w)
  /\ asks.extra \subseteq Tame(w) /\ \A e \in asks.extra : Stated(e)

OpenInv ==
  AllTame =>
    /\ \A i \in pending : i.expr \in Tame(w)
    /\ phase \in {"unless", "report", "done"} =>
         \A c \in choices : \A a \in c.alts : ~capability_present(w, seen, a)

LEMMA InitHand == ClosureInit => HandInv /\ WaitInv /\ OpenInv
BY DEF ClosureInit, HandInv, WaitInv, OpenInv

\* Handed requirements of the members stay so.
LEMMA HandStays ==
  ASSUME HandInv, UNCHANGED <<w, asks, seen>>, phase # "extra" \/ phase' = "extra",
         \A who : Handed(w, who, Lists) \subseteq Handed(w, who, Lists')
  PROVE  HandInv'
<1>1. ASSUME NEW p \in seen, NEW e \in asks.requires[p], e \in Tame(w)
      PROVE  e \in Handed(w, p, Lists')
  <2>1. e \in Handed(w, p, Lists)  BY <1>1 DEF HandInv
  <2>. QED  BY <2>1
<1>2. ASSUME phase' # "extra", NEW e \in asks.extra, e \in Tame(w), Stated(e)
      PROVE  e \in Handed(w, Src, Lists')
  <2>1. e \in Handed(w, Src, Lists)  BY <1>2 DEF HandInv
  <2>. QED  BY <2>1
<1>3. \A e : Stated(e)' <=> Stated(e)  BY DEF Stated
<1>. QED  BY <1>1, <1>2, <1>3 DEF HandInv

\* The caller's expressions, read before any package is.
LEMMA ExtraHand == TypeOK /\ HandInv /\ ReadExtra => HandInv'
<1>. SUFFICES ASSUME TypeOK, HandInv, ReadExtra PROVE HandInv'  OBVIOUS
<1>. DEFINE R == ReadCaller({})
            m == Lists'
<1>1. /\ UNCHANGED <<w, asks, seen>> /\ frontier' = (frontier \cup Pulled(R)) \ {}
      /\ pending' = pending \cup Waits(R) /\ choices' = choices \cup Opened(R)
      /\ problems' = problems \cup Reported(R) /\ w \in Repositories
  BY DEF ReadExtra, Learn, TypeOK
<1>2. /\ Lists.pkgs \subseteq m.pkgs /\ Pulled(R) \subseteq m.pkgs
      /\ Lists.pending \subseteq m.pending /\ Waits(R) \subseteq m.pending
      /\ Lists.choices \subseteq m.choices /\ Opened(R) \subseteq m.choices
      /\ Lists.problems \subseteq m.problems /\ Reported(R) \subseteq m.problems
  BY <1>1 DEF Lists
<1>. HIDE DEF m
<1>3. \A who : Handed(w, who, Lists) \subseteq Handed(w, who, m)  BY <1>2, GrowKeeps
<1>4. ASSUME NEW p \in seen, NEW e \in asks.requires[p], e \in Tame(w)
      PROVE  e \in Handed(w, p, m)
  <2>1. e \in Handed(w, p, Lists)  BY <1>4 DEF HandInv
  <2>. QED  BY <1>3, <2>1
<1>5. ASSUME NEW e \in asks.extra, e \in Tame(w), Stated(e) PROVE e \in Handed(w, Src, m)
  <2>. DEFINE r == [who |-> Src, eff |-> Read(require(w, {}, FALSE), e)]
  <2>1. r \in R
    <3>1. CASE Rich(e)  BY <3>1 DEF ReadCaller
    <3>2. CASE ~Rich(e)
      <4>1. e \in Name  BY <1>5, <3>2 DEF Stated
      <4>2. Bare(e) = e  BY <4>1, NameFacts
      <4>3. r = [who |-> Src, eff |-> IF Rich(e) THEN Read(require(w, {}, FALSE), e)
                                      ELSE resolve(w, Bare(e))]
        BY <3>2, <4>2 DEF Read
      <4>. HIDE DEF r
      <4>. QED  BY <4>3 DEF ReadCaller
    <3>. QED  BY <3>1, <3>2
  <2>2. Brought(m, r.who, r.eff)
    <3>. HIDE DEF r, R
    <3>. QED  BY <1>2, <2>1, BatchBrings
  <2>3. Brought(m, Src, Read(require(w, {}, FALSE), e))  BY <2>2
  <2>. QED  BY <1>1, <1>5, <2>3, ReadingHands
<1>6. \A e : Stated(e)' <=> Stated(e)  BY DEF Stated
<1>. QED  BY <1>1, <1>4, <1>5, <1>6 DEF HandInv, m

\* The requirements of the package just popped.
LEMMA PopHand ==
  ASSUME TypeOK, HandInv, NEW p \in Pkg, Pop(p)
  PROVE  HandInv'
<1>. DEFINE now == seen \cup {p}
            R == ReadRequires(p, now)
            m == Lists'
<1>1. /\ UNCHANGED <<w, asks>> /\ seen' = now /\ frontier' = (frontier \cup Pulled(R)) \ now
      /\ pending' = pending \cup Waits(R) /\ choices' = choices \cup Opened(R)
      /\ problems' = problems \cup Reported(R) /\ w \in Repositories
      /\ phase # "extra"
  BY DEF Pop, Learn, TypeOK
<1>2. /\ Lists.pkgs \subseteq m.pkgs /\ Pulled(R) \subseteq m.pkgs /\ now \subseteq m.pkgs
      /\ Lists.pending \subseteq m.pending /\ Waits(R) \subseteq m.pending
      /\ Lists.choices \subseteq m.choices /\ Opened(R) \subseteq m.choices
      /\ Lists.problems \subseteq m.problems /\ Reported(R) \subseteq m.problems
  <2>. HIDE DEF R
  <2>. QED  BY <1>1 DEF Lists
<1>. HIDE DEF m
<1>3. \A who : Handed(w, who, Lists) \subseteq Handed(w, who, m)  BY <1>2, GrowKeeps
<1>4. ASSUME NEW q \in seen, NEW e \in asks.requires[q], e \in Tame(w)
      PROVE  e \in Handed(w, q, m)
  <2>1. e \in Handed(w, q, Lists)  BY <1>4 DEF HandInv
  <2>. QED  BY <1>3, <2>1
<1>5. ASSUME NEW e \in asks.requires[p], e \in Tame(w) PROVE e \in Handed(w, p, m)
  <2>. DEFINE r == [who |-> p, eff |-> Read(require(w, now, FALSE), e)]
  <2>1. r \in R  BY DEF ReadRequires
  <2>2. Brought(m, r.who, r.eff)
    <3>. HIDE DEF r, R
    <3>. QED  BY <1>2, <2>1, BatchBrings
  <2>3. Brought(m, p, Read(require(w, now, FALSE), e))  BY <2>2
  <2>. HIDE DEF now
  <2>. QED  BY <1>1, <1>2, <1>5, <2>3, ReadingHands
<1>6. ASSUME NEW e \in asks.extra, e \in Tame(w), Stated(e) PROVE e \in Handed(w, Src, m)
  <2>1. e \in Handed(w, Src, Lists)  BY <1>1, <1>6 DEF HandInv
  <2>. QED  BY <1>3, <2>1
<1>7. \A e : Stated(e)' <=> Stated(e)  BY DEF Stated
<1>8. \A q \in seen' : \A e \in asks.requires[q] : e \in Tame(w) => e \in Handed(w, q, m)
  BY <1>1, <1>4, <1>5
<1>. QED  BY <1>1, <1>6, <1>7, <1>8 DEF HandInv, m

\* The waiting list is read again and what it brings joins the lists.
LEMMA RereadHand ==
  ASSUME TypeOK, HandInv, NEW final \in BOOLEAN, phase # "extra",
         Learn(Reread(final), {}, {}, seen), frontier = {}, UNCHANGED <<w, asks, seen>>
  PROVE  HandInv'
<1>. DEFINE R == Reread(final)
            m == Lists'
<1>1. /\ frontier' = Pulled(R) \ seen /\ pending' = Waits(R)
      /\ choices' = choices \cup Opened(R) /\ problems' = problems \cup Reported(R)
  BY DEF Learn
<1>2. /\ Lists.pkgs \subseteq m.pkgs /\ Pulled(R) \subseteq m.pkgs
      /\ Waits(R) \subseteq m.pending
      /\ choices \subseteq m.choices /\ Opened(R) \subseteq m.choices
      /\ problems \subseteq m.problems /\ Reported(R) \subseteq m.problems
  <2>. HIDE DEF R
  <2>. QED  BY <1>1 DEF Lists
<1>. HIDE DEF m
<1>3. \A who : Handed(w, who, Lists) \subseteq Handed(w, who, m)  BY <1>2, RereadKeeps
<1>. QED  BY <1>3, HandStays DEF m

LEMMA CloseHand == TypeOK /\ HandInv /\ RecheckChoices => HandInv'
<1>. SUFFICES ASSUME TypeOK, HandInv, RecheckChoices PROVE HandInv'  OBVIOUS
<1>. DEFINE m == Lists'
<1>1. UNCHANGED <<w, asks, seen, pending, problems>> /\ frontier \subseteq frontier'
      /\ phase # "extra"
  BY DEF RecheckChoices, CloseChoices
<1>2. Lists.pkgs \subseteq m.pkgs /\ pending \subseteq m.pending /\ problems \subseteq m.problems
  BY <1>1 DEF Lists
<1>3. ASSUME NEW c \in choices
      PROVE  \/ c \in m.choices
             \/ \E a \in c.alts : capability_present(w, seen, a)
             \/ Overridden(w, c.expr) /\ w.overrides[c.expr] \in m.pkgs
  BY DEF RecheckChoices, CloseChoices, StillOpen, Lists
<1>. HIDE DEF m
<1>4. \A who : Handed(w, who, Lists) \subseteq Handed(w, who, m)  BY <1>2, <1>3, CloseKeeps
<1>. QED  BY <1>1, <1>4, HandStays DEF m

LEMMA NextHand ==
  TypeOK /\ PlainInv /\ HandInv /\ [ClosureNext]_closureVars => HandInv'
<1>. SUFFICES ASSUME TypeOK, PlainInv, HandInv, [ClosureNext]_closureVars PROVE HandInv'
  OBVIOUS
<1>1. CASE ReadExtra  BY <1>1, ExtraHand
<1>2. ASSUME NEW p \in Pkg, Pop(p) PROVE HandInv'  BY <1>2, PopHand
<1>3. CASE RecheckPending
  <2>1. /\ Learn(Reread(FALSE), {}, {}, seen) /\ frontier = {} /\ phase # "extra"
        /\ UNCHANGED <<w, asks, seen>>
    BY <1>3 DEF RecheckPending
  <2>. QED  BY <2>1, RereadHand
<1>4. CASE RecheckChoices  BY <1>4, CloseHand
<1>5. CASE SettleUnless
  <2>1. /\ Learn(Reread(TRUE), {}, {}, seen) /\ frontier = {} /\ phase # "extra"
        /\ UNCHANGED <<w, asks, seen>>
    BY <1>5 DEF SettleUnless, PlainInv
  <2>. QED  BY <2>1, RereadHand
<1>6. CASE Report \/ UNCHANGED closureVars
  <2>1. /\ UNCHANGED <<w, asks, seen, frontier, pending, choices>> /\ problems \subseteq problems'
        /\ phase # "extra" \/ phase' = "extra"
    BY <1>6 DEF Report, closureVars
  <2>. DEFINE m == Lists'
  <2>2. /\ Lists.pkgs \subseteq m.pkgs /\ Lists.pending \subseteq m.pending
        /\ Lists.choices \subseteq m.choices /\ Lists.problems \subseteq m.problems
    BY <2>1 DEF Lists
  <2>. HIDE DEF m
  <2>3. \A who : Handed(w, who, Lists) \subseteq Handed(w, who, m)  BY <2>2, GrowKeeps
  <2>. QED  BY <2>1, <2>3, HandStays DEF m
<1>. QED  BY <1>1, <1>2, <1>3, <1>4, <1>5, <1>6 DEF ClosureNext, Returned

\* What a round leaves waiting has deferred in it, and is tame with what it is of.
LEMMA RereadWaits ==
  ASSUME TypeOK, NEW final \in BOOLEAN, NEW i \in Waits(Reread(final))
  PROVE  /\ require(w, seen, final)[i.expr].defer
         /\ (\A j \in pending : j.expr \in Tame(w)) => i.expr \in Tame(w)
<1>. DEFINE f == require(w, seen, final)
<1>1. PICK r \in Reread(final) : i \in {[expr |-> x, who |-> r.who] : x \in r.eff.pend}
  BY DEF Waits
<1>2. PICK j \in pending : r = [who |-> j.who, eff |-> Read(f, j.expr)]
  BY <1>1 DEF Reread
<1>3. PICK y \in r.eff.pend : i = [expr |-> y, who |-> r.who]  BY <1>1
<1>4. y \in Read(f, j.expr).pend /\ i.expr = y  BY <1>2, <1>3
<1>5. j.expr \in Expr /\ w \in Repositories  BY DEF TypeOK
<1>6. f[y].defer /\ (j.expr \in Tame(w) => y \in Tame(w))  BY <1>4, <1>5, ReadPend
<1>. QED  BY <1>4, <1>6

LEMMA NextWait == TypeOK /\ WaitInv /\ [ClosureNext]_closureVars => WaitInv'
<1>. SUFFICES ASSUME TypeOK, WaitInv, [ClosureNext]_closureVars PROVE WaitInv'
  OBVIOUS
<1>1. CASE ReadExtra  BY <1>1 DEF ReadExtra, WaitInv
<1>2. ASSUME NEW p \in Pkg, Pop(p) PROVE WaitInv'  BY <1>2 DEF Pop, WaitInv
<1>3. CASE RecheckPending
  <2>1. /\ pending' = Waits(Reread(FALSE)) /\ phase' = "choose"
        /\ UNCHANGED <<w, seen>>
    BY <1>3 DEF RecheckPending, Learn
  <2>2. \A i \in pending' : require(w, seen, FALSE)[i.expr].defer
    BY <2>1, RereadWaits
  <2>. QED  BY <2>1, <2>2 DEF WaitInv
<1>4. CASE RecheckChoices
  <2>1. /\ UNCHANGED <<w, seen, pending>> /\ phase = "choose" /\ phase' \in {"unless", "drain"}
    BY <1>4 DEF RecheckChoices, CloseChoices
  <2>. QED  BY <2>1 DEF WaitInv
<1>5. CASE SettleUnless
  <2>1. /\ pending' = Waits(Reread(TRUE)) /\ phase' \in {"report", "drain"}
        /\ UNCHANGED <<w, seen>>
    BY <1>5 DEF SettleUnless, Learn
  <2>2. \A i \in pending' : require(w, seen, TRUE)[i.expr].defer
    BY <2>1, RereadWaits
  <2>. QED  BY <2>1, <2>2 DEF WaitInv
<1>6. CASE Report  BY <1>6 DEF Report, WaitInv
<1>7. CASE UNCHANGED closureVars  BY <1>7 DEF closureVars, WaitInv
<1>. QED  BY <1>1, <1>2, <1>3, <1>4, <1>5, <1>6, <1>7 DEF ClosureNext, Returned

\* When every requirement is tame, what it leaves waiting is.
LEMMA BatchTame ==
  ASSUME w \in Repositories, NEW S, NEW R, NEW i \in Waits(R),
         \A r \in R : \E e \in Tame(w) :
           \/ r.eff = Read(require(w, S, FALSE), e)
           \/ r.eff = resolve(w, Bare(e))
  PROVE  i.expr \in Tame(w)
<1>1. PICK r \in R : i \in {[expr |-> x, who |-> r.who] : x \in r.eff.pend}  BY DEF Waits
<1>2. PICK e \in Tame(w) :
        r.eff = Read(require(w, S, FALSE), e) \/ r.eff = resolve(w, Bare(e))
  BY <1>1
<1>3. PICK y \in r.eff.pend : i = [expr |-> y, who |-> r.who]  BY <1>1
<1>4. e \in Expr  BY TameParts
<1>5. CASE r.eff = Read(require(w, S, FALSE), e)
  <2>1. y \in Tame(w)  BY <1>3, <1>4, <1>5, ReadPend
  <2>. QED  BY <1>3, <2>1
<1>6. CASE r.eff = resolve(w, Bare(e))
  <2>1. r.eff.pend = {}  BY <1>6, ResolveSimple DEF Simple
  <2>. QED  BY <1>3, <2>1
<1>. QED  BY <1>2, <1>5, <1>6

\* The last reading opens no choice.
LEMMA LastOpensNone ==
  ASSUME TypeOK, \A i \in pending : i.expr \in Tame(w),
         \A i \in pending : require(w, seen, FALSE)[i.expr].defer
  PROVE  Opened(Reread(TRUE)) = {}
<1>. DEFINE f == require(w, seen, TRUE)
<1>1. ASSUME NEW e \in Tame(w), require(w, seen, FALSE)[e].defer
      PROVE  Read(f, e).choices = {}
  <2>1. e \in Expr /\ w \in Repositories  BY TameParts DEF TypeOK
  <2>2. Rich(e)  BY <1>1, <2>1, PlainReadsNow
  <2>3. f[e].choices = {}  BY <1>1, <2>1, QuietLast
  <2>4. [Nothing EXCEPT !.pend = {e}].choices = {}  BY DEF Nothing
  <2>. HIDE DEF f
  <2>5. CASE f[e].defer  BY <2>2, <2>4, <2>5 DEF Read
  <2>6. CASE ~f[e].defer  BY <2>2, <2>3, <2>6 DEF Read
  <2>. QED  BY <2>5, <2>6
<1>2. ASSUME NEW r \in Reread(TRUE) PROVE r.eff.choices = {}
  <2>1. PICK i \in pending : r = [who |-> i.who, eff |-> Read(f, i.expr)]  BY DEF Reread
  <2>2. r.eff = Read(f, i.expr)  BY <2>1
  <2>3. r.eff.choices = {}
    <3>. HIDE DEF f
    <3>. QED  BY <1>1, <2>2
  <2>. QED  BY <2>3
<1>. QED  BY <1>2 DEF Opened

\* Then no choice left at the end has a candidate present.
LEMMA NextOpen == TypeOK /\ WaitInv /\ OpenInv /\ [ClosureNext]_closureVars => OpenInv'
<1>. SUFFICES ASSUME TypeOK, WaitInv, OpenInv, [ClosureNext]_closureVars, AllTame'
              PROVE  /\ \A i \in pending' : i.expr \in Tame(w')
                     /\ phase' \in {"unless", "report", "done"} =>
                          \A c \in choices' : \A a \in c.alts :
                             ~capability_present(w', seen', a)
  BY DEF OpenInv
<1>0. UNCHANGED <<w, asks>>
  BY DEF ClosureNext, ReadExtra, Pop, RecheckPending, RecheckChoices, CloseChoices,
         SettleUnless, Report, Returned, closureVars
<1>a. AllTame /\ w \in Repositories  BY <1>0 DEF AllTame, Stated, TypeOK
<1>b. \A i \in pending : i.expr \in Tame(w)  BY <1>a DEF OpenInv
<1>1. CASE ReadExtra
  <2>. DEFINE R == ReadCaller({})
  <2>1. pending' = pending \cup Waits(R) /\ phase' = "drain"  BY <1>1 DEF ReadExtra, Learn
  <2>2. ASSUME NEW r \in R
        PROVE  \E e \in Tame(w) : \/ r.eff = Read(require(w, {}, FALSE), e)
                                  \/ r.eff = resolve(w, Bare(e))
    <3>1. PICK e \in asks.extra :
            r = [who |-> Src, eff |-> IF Rich(e) THEN Read(require(w, {}, FALSE), e)
                                      ELSE resolve(w, Bare(e))]
      BY DEF ReadCaller
    <3>2. e \in Tame(w)  BY <1>a DEF AllTame
    <3>. QED  BY <3>1, <3>2
  <2>. HIDE DEF R
  <2>3. \A i \in Waits(R) : i.expr \in Tame(w)  BY <1>a, <2>2, BatchTame
  <2>. QED  BY <1>0, <1>b, <2>1, <2>3
<1>2. ASSUME NEW p \in Pkg, Pop(p)
      PROVE  phase' = "drain" /\ \A i \in pending' : i.expr \in Tame(w)
  <2>. DEFINE now == seen \cup {p}
              R == ReadRequires(p, now)
  <2>1. pending' = pending \cup Waits(R) /\ phase' = "drain"  BY <1>2 DEF Pop, Learn
  <2>2. ASSUME NEW r \in R
        PROVE  \E e \in Tame(w) : \/ r.eff = Read(require(w, now, FALSE), e)
                                  \/ r.eff = resolve(w, Bare(e))
    <3>1. PICK e \in asks.requires[p] :
            r = [who |-> p, eff |-> Read(require(w, now, FALSE), e)]
      BY DEF ReadRequires
    <3>2. e \in Tame(w)  BY <1>a DEF AllTame
    <3>. QED  BY <3>1, <3>2
  <2>. HIDE DEF R, now
  <2>3. \A i \in Waits(R) : i.expr \in Tame(w)  BY <1>a, <2>2, BatchTame
  <2>. QED  BY <1>b, <2>1, <2>3
<1>3. CASE RecheckPending
  <2>1. pending' = Waits(Reread(FALSE)) /\ phase' = "choose"
    BY <1>3 DEF RecheckPending, Learn
  <2>. QED  BY <1>0, <1>b, <2>1, RereadWaits
<1>4. CASE RecheckChoices
  <2>1. /\ UNCHANGED <<seen, pending>> /\ choices' \subseteq StillOpen
    BY <1>4 DEF RecheckChoices, CloseChoices
  <2>2. \A c \in choices' : \A a \in c.alts : ~capability_present(w, seen, a)
    BY <2>1 DEF StillOpen
  <2>. QED  BY <1>0, <1>b, <2>1, <2>2
<1>5. CASE SettleUnless
  <2>1. /\ pending' = Waits(Reread(TRUE)) /\ choices' = choices \cup Opened(Reread(TRUE))
        /\ seen' = seen /\ phase = "unless"
    BY <1>5 DEF SettleUnless, Learn
  <2>2. \A i \in pending : require(w, seen, FALSE)[i.expr].defer  BY <2>1 DEF WaitInv
  <2>3. choices' = choices  BY <1>b, <2>1, <2>2, LastOpensNone
  <2>4. \A c \in choices : \A a \in c.alts : ~capability_present(w, seen, a)
    BY <1>a, <2>1 DEF OpenInv
  <2>5. \A i \in pending' : i.expr \in Tame(w)  BY <1>b, <2>1, RereadWaits
  <2>. QED  BY <1>0, <2>1, <2>3, <2>4, <2>5
<1>6. CASE Report \/ UNCHANGED closureVars
  <2>1. /\ UNCHANGED <<seen, pending, choices>>
        /\ phase' \in {"unless", "report", "done"} => phase \in {"unless", "report", "done"}
    BY <1>6 DEF Report, closureVars
  <2>. QED  BY <1>0, <1>a, <1>b, <2>1 DEF OpenInv
<1>. QED  BY <1>0, <1>1, <1>2, <1>3, <1>4, <1>5, <1>6 DEF ClosureNext, Returned

\* At the end a handed requirement holds or is reported.
LEMMA HandEnds ==
  ASSUME TypeOK, PlainInv, WaitInv, Done, NEW who, NEW e \in Handed(w, who, Lists)
  PROVE  Holds(w, seen)[e] \/ ReportedFor(who, e)
<1>. DEFINE of == Holds(w, seen)
            H == Handed(w, who, Lists)
            G == {d \in Expr : d \in H => of[d] \/ ReportedFor(who, d)}
<1>0. frontier = {} /\ Lists.pkgs = seen /\ w \in Repositories
  BY DEF PlainInv, Done, Lists, TypeOK
<1>1. ASSUME NEW d \in Expr, Operands(d) \subseteq G PROVE d \in G
  <2>1. SUFFICES ASSUME d \in H PROVE of[d] \/ ReportedFor(who, d)  OBVIOUS
  <2>2. d \in Tame(w) /\ HandShape(w, who, Lists, d, H)  BY <2>1, HandedUnfolds
  <2>m. d \in Mentioned[d] /\ Texts(d) \subseteq Mentioned[d]  BY MentionedAt
  <2>r. \A y \in Operands(d) : Rich(d) /\ ReportedFor(who, y) => ReportedFor(who, d)
    <3>1. Rich(d) => \A y \in Operands(d) : Mentioned[y] \subseteq Mentioned[d]
      BY MentionedAt
    <3>. QED  BY <3>1 DEF ReportedFor
  <2>t. (\E q \in problems : q.who = who /\ q.expr = d) => ReportedFor(who, d)
    BY <2>m DEF ReportedFor, FiledFor
  <2>3. CASE Waiting(Lists, who, d)
    <3>. DEFINE i == [expr |-> d, who |-> who]
    <3>1. i \in pending /\ i.expr = d  BY <2>3 DEF Waiting, Lists
    <3>2. require(w, seen, TRUE)[d].defer  BY <3>1 DEF WaitInv, Done
    <3>. QED  BY <1>0, <2>2, <3>2, DeferredHolds
  <2>4. CASE Told(Lists, who, d)  BY <2>4, <2>t DEF Told, Lists
  <2>5. CASE Offered(w, Lists, who, d)
    <3>1. PICK t \in Texts(d), A \in SUBSET Name :
            [expr |-> t, alts |-> A, who |-> who] \in choices
      BY <2>5 DEF Offered, Lists
    <3>. DEFINE c == [expr |-> t, alts |-> A, who |-> who]
    <3>2. c.who = who /\ c.expr = t /\ c \in choices  BY <3>1
    <3>. HIDE DEF c
    <3>3. FiledFor(who, t)  BY <3>2, ChoiceFiled
    <3>. QED  BY <2>m, <3>1, <3>3 DEF ReportedFor
  <2>6. CASE Holds(w, Lists.pkgs)[d]  BY <1>0, <2>6
  <2>7. CASE Kind(d) = "and" /\ Operands(d) \subseteq H
    <3>1. \A y \in Operands(d) : of[y] \/ ReportedFor(who, y)  BY <1>1, <2>7
    <3>2. of[d] <=> \A y \in Operands(d) : of[y]  BY <2>7, MeaningParts
    <3>3. Rich(d)  BY <2>7 DEF Rich
    <3>. HIDE DEF of
    <3>. QED  BY <2>r, <3>1, <3>2, <3>3
  <2>8. CASE Kind(d) \in {"if", "unless"} /\ (\/ node[d].then \in H
                                              \/ Kind(d) = "unless" /\ satisfied(w, seen)[node[d].cond])
    <3>. DEFINE t == node[d]
    <3>1. t.else = NoExpr /\ t.cond \in Sure(w) /\ t.then \in Tame(w)  BY <2>2, <2>8, TameParts
    <3>2. t.cond \in Expr /\ t.then \in Expr  BY <3>1, SureUnfolds, TameParts
    <3>3. t.cond \in Operands(d) /\ t.then \in Operands(d)
      <4>1. Operands(d) = {t.then, t.cond, t.else} \ {NoExpr}  BY <2>8 DEF Operands, Kind
      <4>. QED  BY <3>2, <4>1, ExprAssumption
    <3>4. /\ Kind(d) = "if" => (of[d] <=> (of[t.cond] => of[t.then]))
          /\ Kind(d) = "unless" => (of[d] <=> (of[t.cond] \/ of[t.then]))
      BY <2>8, <3>1, <3>3, MeaningOfRich
    <3>5. Rich(d)  BY <2>8 DEF Rich
    <3>6. CASE t.then \in H
      <4>1. of[t.then] \/ ReportedFor(who, t.then)  BY <1>1, <3>3, <3>6
      <4>2. ReportedFor(who, t.then) => ReportedFor(who, d)  BY <2>r, <3>3, <3>5
      <4>. HIDE DEF of, t
      <4>. QED  BY <2>8, <3>4, <4>1, <4>2 DEF t
    <3>7. CASE Kind(d) = "unless" /\ satisfied(w, seen)[t.cond]
      <4>1. of[t.cond]  BY <3>1, <3>7, SureMeans
      <4>. HIDE DEF of, t
      <4>. QED  BY <3>4, <3>7, <4>1
    <3>. QED  BY <2>8, <3>6, <3>7
  <2>9. \/ Waiting(Lists, who, d) \/ Told(Lists, who, d) \/ Offered(w, Lists, who, d)
        \/ Holds(w, Lists.pkgs)[d]
        \/ Kind(d) = "and" /\ Operands(d) \subseteq H
        \/ Kind(d) \in {"if", "unless"} /\ (\/ node[d].then \in H
                                            \/ Kind(d) = "unless" /\ satisfied(w, seen)[node[d].cond])
    BY <1>0, <2>2 DEF HandShape
  <2>. QED  BY <2>3, <2>4, <2>5, <2>6, <2>7, <2>8, <2>9
<1>2. Expr \subseteq G
  <2>. HIDE DEF G
  <2>. QED  BY <1>1, TreeInduction
<1>3. e \in Expr  BY HandedUnfolds, TameParts
<1>. QED  BY <1>2, <1>3

\* A tame requirement of a member holds in the closure returned or is reported,
\* whatever stands beside it.
TameSettled ==
  Done => /\ \A p \in seen : \A e \in asks.requires[p] \cap Tame(w) :
               Holds(w, seen)[e] \/ ReportedFor(p, e)
          /\ \A e \in asks.extra \cap Tame(w) : Stated(e) =>
               Holds(w, seen)[e] \/ ReportedFor(Src, e)

LEMMA HandSettles == TypeOK /\ PlainInv /\ WaitInv /\ HandInv => TameSettled
<1>. SUFFICES ASSUME TypeOK, PlainInv, WaitInv, HandInv, Done PROVE TameSettled
  BY DEF TameSettled
<1>1. ASSUME NEW p \in seen, NEW e \in asks.requires[p] \cap Tame(w)
      PROVE  Holds(w, seen)[e] \/ ReportedFor(p, e)
  <2>1. e \in Handed(w, p, Lists)  BY DEF HandInv
  <2>. QED  BY <2>1, HandEnds
<1>2. ASSUME NEW e \in asks.extra \cap Tame(w), Stated(e)
      PROVE  Holds(w, seen)[e] \/ ReportedFor(Src, e)
  <2>1. e \in Handed(w, Src, Lists)  BY <1>2 DEF HandInv, Done
  <2>. QED  BY <2>1, HandEnds
<1>. QED  BY <1>1, <1>2 DEF TameSettled

LEMMA AllSettle == TypeOK /\ TameSettled /\ OpenInv => (AllTame => ClosureSound)
<1>. SUFFICES ASSUME TypeOK, TameSettled, OpenInv, AllTame, Done PROVE ClosureSound
  BY DEF ClosureSound
<1>1. \A p \in seen : \A e \in asks.requires[p] : Holds(w, seen)[e] \/ ReportedFor(p, e)
  BY DEF TameSettled, AllTame, TypeOK
<1>2. \A e \in asks.extra : Holds(w, seen)[e] \/ ReportedFor(Src, e)
  BY DEF TameSettled, AllTame
<1>3. \A c \in choices : \A a \in c.alts : ~capability_present(w, seen, a)
  BY DEF OpenInv, Done
<1>. QED  BY <1>1, <1>2, <1>3 DEF ClosureSound

\* Each requirement of a member, and each of the caller's, that is tame holds in
\* the closure runtime_closure returns or is reported for whoever asks it.
THEOREM TameRequiresHold == ClosureSpec => []TameSettled
<1>1. ClosureInit => TypeOK /\ PlainInv /\ HandInv /\ WaitInv
  BY InitType, InitPlain, InitHand
<1>2. TypeOK /\ PlainInv /\ HandInv /\ WaitInv /\ [ClosureNext]_closureVars
        => (TypeOK /\ PlainInv /\ HandInv /\ WaitInv)'
  BY NextType, NextPlain, NextHand, NextWait
<1>. QED  BY <1>1, <1>2, HandSettles, PTL DEF ClosureSpec

\* Where nothing else is asked, the closure runtime_closure returns is usable as the
\* whole of ClosureSound says, and a choice is put to a human only if it is still one.
THEOREM TameClosureIsSound == ClosureSpec => [](AllTame => ClosureSound)
<1>1. ClosureInit => OpenInv  BY InitHand
<1>2. TypeOK /\ WaitInv /\ OpenInv /\ [ClosureNext]_closureVars => OpenInv'  BY NextOpen
<1>3. ClosureInit => TypeOK /\ WaitInv  BY InitType, InitHand
<1>4. TypeOK /\ WaitInv /\ [ClosureNext]_closureVars => (TypeOK /\ WaitInv)'
  BY NextType, NextWait
<1>. QED  BY <1>1, <1>2, <1>3, <1>4, TameRequiresHold, AllSettle, PTL DEF ClosureSpec

-----------------------------------------------------------------------------
(***************************************************************************)
(* The expressions whose closure does not depend on order.                 *)
(***************************************************************************)

\* Rising at a text, from what it is at the operands.
RisingOf(x, f) ==
  f = [e \in Expr |-> rises(x, e, [y \in Operands(e) |-> f[y]])]

LEMMA RisingAt == ASSUME NEW x PROVE RisingOf(x, Rising(x))
<1>. DEFINE s == [e \in Expr |-> [g \in [Operands(e) -> BOOLEAN] |-> rises(x, e, g)]]
<1>1. s \in Steps(BOOLEAN)
  <2>1. \A e \in Expr : \A g \in [Operands(e) -> BOOLEAN] : rises(x, e, g) \in BOOLEAN
    BY DEF rises
  <2>2. \A e \in Expr : s[e] \in [[Operands(e) -> BOOLEAN] -> BOOLEAN]  BY <2>1
  <2>. HIDE DEF s
  <2>3. s = [e \in Expr |-> s[e]]  BY DEF s
  <2>. QED  BY <2>2, <2>3 DEF Steps
<1>2. \E f : RisingOf(x, f)
  <2>1. PICK f \in [Expr -> BOOLEAN] : \A e \in Expr : f[e] = s[e][[y \in Operands(e) |-> f[y]]]
    <3>. HIDE DEF s
    <3>. QED  BY <1>1, RecursionExists
  <2>2. ASSUME NEW e \in Expr
        PROVE  f[e] = rises(x, e, [y \in Operands(e) |-> f[y]])
    <3>. DEFINE g == [y \in Operands(e) |-> f[y]]
    <3>1. g \in [Operands(e) -> BOOLEAN]
      <4>1. Operands(e) \subseteq Expr  BY TreeAssumption
      <4>. QED  BY <4>1
    <3>2. s[e][g] = rises(x, e, g)
      <4>. HIDE DEF g
      <4>. QED  BY <3>1
    <3>3. f[e] = s[e][g]  BY <2>1
    <3>. HIDE DEF s, g
    <3>4. f[e] = rises(x, e, g)  BY <3>2, <3>3
    <3>. QED  BY <3>4 DEF g
  <2>3. f = [e \in Expr |-> rises(x, e, [y \in Operands(e) |-> f[y]])]
    <3>. HIDE DEF s
    <3>. QED  BY <2>1, <2>2
  <2>. HIDE DEF s
  <2>. QED  BY <2>3 DEF RisingOf
<1>3. Rising(x) = CHOOSE f : RisingOf(x, f)  BY DEF Rising, RisingOf
<1>. QED  BY <1>2, <1>3

LEMMA RisingParts ==
  ASSUME NEW x, NEW e \in Expr, Rising(x)[e]
  PROVE  /\ Rich(e) => Kind(e) \in {"and", "or", "with", "without", "if"}
         /\ Kind(e) = "with" => \A k \in Texts(e) : ~Overridden(x, k)
         /\ Kind(e) = "and" => \A y \in Operands(e) : Rising(x)[y]
         /\ Kind(e) = "or" /\ HasNames[e] =>
              ~Overridden(x, e) /\ \A n \in LeafNames(e) : OneAnswer(x, n)
         /\ Kind(e) = "if" =>
              /\ node[e].else = NoExpr /\ HasNames[node[e].cond] /\ node[e].cond \in Expr
              /\ node[e].then \in Operands(e) /\ Rising(x)[node[e].then]
<1>. DEFINE up == Rising(x)
            g == [y \in Operands(e) |-> up[y]]
<1>1. rises(x, e, g)  BY RisingAt DEF RisingOf
<1>u. up[e]  OBVIOUS
<1>. HIDE DEF up
<1>2. \A y \in Operands(e) : g[y] = up[y]  OBVIOUS
<1>. HIDE DEF g
<1>3. CASE ~Rich(e)
  <2>1. Kind(e) = "cap"  BY <1>3 DEF Rich
  <2>. QED  BY <1>3, <2>1
<1>4. CASE Rich(e) /\ Kind(e) \in {"without", "with", "or"}
  BY <1>1, <1>4 DEF rises
<1>5. CASE Rich(e) /\ Kind(e) = "and"
  <2>1. \A y \in Operands(e) : g[y]  BY <1>1, <1>5 DEF rises
  <2>. QED  BY <1>2, <1>5, <2>1 DEF up
<1>6. CASE Rich(e) /\ Kind(e) = "if"
  <2>1. node[e].else = NoExpr /\ HasNames[node[e].cond] /\ g[node[e].then]
    BY <1>1, <1>6 DEF rises
  <2>2. Operands(e) = {node[e].then, node[e].cond, node[e].else} \ {NoExpr}
    BY <1>6 DEF Operands, Kind
  <2>3. node[e].then # NoExpr /\ node[e].cond # NoExpr  BY <1>6, TreeAssumption
  <2>4. node[e].then \in Operands(e) /\ node[e].cond \in Operands(e)  BY <2>2, <2>3
  <2>5. node[e].cond \in Expr  BY <2>4, TreeAssumption
  <2>. QED  BY <1>2, <1>6, <2>1, <2>4, <2>5 DEF up
<1>7. \/ ~Rich(e) \/ Kind(e) \in {"without", "with", "or", "and", "if"}
  BY <1>1 DEF rises
<1>. QED  BY <1>3, <1>4, <1>5, <1>6, <1>7

\* A condition of names that is true stays true.
LEMMA TruthGrows ==
  ASSUME NEW x, NEW S, NEW R, S \subseteq R, NEW e \in Expr, HasNames[e], satisfied(x, S)[e]
  PROVE  satisfied(x, R)[e]
<1>. DEFINE was == satisfied(x, S)
            now == satisfied(x, R)
            G == {d \in Expr : HasNames[d] /\ was[d] => now[d]}
<1>1. ASSUME NEW d \in Expr, Operands(d) \subseteq G PROVE d \in G
  <2>1. SUFFICES ASSUME HasNames[d], was[d] PROVE now[d]  OBVIOUS
  <2>2. CASE ~Rich(d)
    <3>1. /\ was[d] <=> capability_present(x, S, Bare(d))
          /\ now[d] <=> capability_present(x, R, Bare(d))
      BY <2>2, TruthParts
    <3>2. capability_present(x, S, Bare(d)) => capability_present(x, R, Bare(d))
      BY DEF capability_present
    <3>. QED  BY <2>1, <3>1, <3>2
  <2>3. CASE Rich(d)
    <3>1. Kind(d) \in {"and", "or", "with"} /\ \A y \in Operands(d) : HasNames[y]
      BY <2>1, <2>3, HasNamesBelow
    <3>2. \A y \in Operands(d) : was[y] => now[y]  BY <1>1, <3>1
    <3>3. Kind(d) \in {"and", "with"} => ((was[d] <=> \A y \in Operands(d) : was[y])
                                           /\ (now[d] <=> \A y \in Operands(d) : now[y]))
      BY TruthParts
    <3>4. Kind(d) = "or" => ((was[d] <=> \E y \in Operands(d) : was[y])
                              /\ (now[d] <=> \E y \in Operands(d) : now[y]))
      BY TruthParts
    <3>. HIDE DEF was, now
    <3>. QED  BY <2>1, <3>1, <3>2, <3>3, <3>4
  <2>. QED  BY <2>2, <2>3
<1>2. Expr \subseteq G
  <2>. HIDE DEF G
  <2>. QED  BY <1>1, TreeInduction
<1>. QED  BY <1>2

\* It is true by one of its names.
LEMMA TruthNames ==
  ASSUME NEW x, NEW S, NEW e \in Expr, HasNames[e], satisfied(x, S)[e]
  PROVE  \E n \in LeafNames(e) : capability_present(x, S, n)
<1>. DEFINE sat == satisfied(x, S)
            G == {d \in Expr : HasNames[d] /\ sat[d] =>
                                 \E n \in LeafNames(d) : capability_present(x, S, n)}
<1>1. ASSUME NEW d \in Expr, Operands(d) \subseteq G PROVE d \in G
  <2>1. SUFFICES ASSUME HasNames[d], sat[d]
                 PROVE  \E n \in LeafNames(d) : capability_present(x, S, n)
    OBVIOUS
  <2>2. CASE ~Rich(d)
    <3>1. capability_present(x, S, Bare(d))  BY <2>1, <2>2, TruthParts
    <3>2. Leaves[d] = {d}  BY <2>2, LeavesAt
    <3>3. Bare(d) \in LeafNames(d)  BY <3>2 DEF LeafNames
    <3>. QED  BY <3>1, <3>3
  <2>3. CASE Rich(d)
    <3>1. Kind(d) \in {"and", "or", "with"} /\ \A y \in Operands(d) : HasNames[y]
      BY <2>1, <2>3, HasNamesBelow
    <3>2. \E y \in Operands(d) : sat[y]
      <4>1. CASE Kind(d) = "or"  BY <2>1, <4>1, TruthParts
      <4>2. CASE Kind(d) \in {"and", "with"}
        <5>1. node[d].args[1] \in Operands(d)  BY <4>2, FirstNameAt
        <5>2. \A y \in Operands(d) : sat[y]  BY <2>1, <4>2, TruthParts
        <5>. QED  BY <5>1, <5>2
      <4>. QED  BY <3>1, <4>1, <4>2
    <3>3. PICK y \in Operands(d) : sat[y]  BY <3>2
    <3>4. \E n \in LeafNames(y) : capability_present(x, S, n)  BY <1>1, <3>1, <3>3
    <3>5. Leaves[y] \subseteq Leaves[d]
      <4>1. Leaves[d] = UNION {Leaves[z] : z \in Operands(d)}  BY <2>3, LeavesAt
      <4>. QED  BY <3>3, <4>1
    <3>6. LeafNames(y) \subseteq LeafNames(d)  BY <3>5 DEF LeafNames
    <3>. QED  BY <3>4, <3>6
  <2>. QED  BY <2>2, <2>3
<1>2. Expr \subseteq G
  <2>. HIDE DEF G
  <2>. QED  BY <1>1, TreeInduction
<1>. QED  BY <1>2

\* Reading a capability brings one package at most, and opens no choice on an
\* override.
LEMMA ResolveOpens ==
  ASSUME NEW x, NEW e
  PROVE  /\ resolve(x, e).pkgs = {} \/ \E p : resolve(x, e).pkgs = {p}
         /\ \A c \in resolve(x, e).choices : ~Overridden(x, c.expr)
<1>. DEFINE m == Matching(x, e)
            newest == IF node[e].op = "any" THEN {} ELSE NewestOf(x, Bare(e), m, {e})
            One(r) == r.pkgs = {} \/ \E p : r.pkgs = {p}
<1>1. \A p : One(Pull(p)) /\ Pull(p).choices = {}  BY DEF Pull, Nothing
<1>2. \A k, d : One(Complain(k, d)) /\ Complain(k, d).choices = {}  BY DEF Complain, Nothing
<1>3. \A d, A : One(Choose(d, A)) /\ Choose(d, A).choices = {[expr |-> d, alts |-> A]}
  BY DEF Choose, Nothing
<1>4. \A A : One(AnyOf(A)) /\ AnyOf(A).choices = {}  BY <1>1 DEF AnyOf
<1>5. One(pick(x, e, m)) /\ \A c \in pick(x, e, m).choices : c.expr = e
  <2>1. pick(x, e, m) = IF m = {} THEN Complain("unresolved", e)
                        ELSE IF Cardinality(m) = 1 THEN AnyOf(m)
                        ELSE IF Bare(e) \in m THEN Pull(Bare(e))
                        ELSE IF newest # {} THEN AnyOf(newest) ELSE Choose(e, m)
    BY DEF pick, prefer
  <2>. HIDE DEF m, One, newest
  <2>. QED  BY <1>1, <1>2, <1>3, <1>4, <2>1
<1>. HIDE DEF One
<1>6. CASE \E k \in {e, Bare(e)} : resolve(x, e) = Pull(x.overrides[k])
  BY <1>1, <1>6 DEF One
<1>7. CASE ~Overridden(x, e) /\ resolve(x, e) = pick(x, e, m)
  BY <1>5, <1>7 DEF One
<1>. QED  BY <1>6, <1>7 DEF resolve

\* The choices of a range and of an `or` are about the text itself, a range
\* going by its bounds.
LEMMA OrOpens ==
  ASSUME NEW x, NEW sat, NEW e
  PROVE  \A c \in require_or(x, sat, e).choices :
           c.expr = e /\ HasNames[e] /\ ~Overridden(x, e)
<1>1. \A p : Pull(p).choices = {}  BY DEF Pull, Nothing
<1>2. \A k : Complain(k, e).choices = {}  BY DEF Complain, Nothing
<1>3. \A A : Choose(e, A).choices = {[expr |-> e, alts |-> A]}  BY DEF Choose, Nothing
<1>4. \A A : AnyOf(A).choices = {}  BY <1>1 DEF AnyOf
<1>5. Nothing.choices = {}  BY DEF Nothing
<1>6. \A reads, live : \A c \in settle_or(e, reads, live).choices : c.expr = e
  BY <1>3, <1>4 DEF settle_or
<1>7. ASSUME NEW c \in require_or(x, sat, e).choices
      PROVE  c.expr = e /\ HasNames[e] /\ ~Overridden(x, e)
  <2>1. require_or(x, sat, e) # Nothing /\ require_or(x, sat, e) # Complain("rich", e)
        /\ \A p : require_or(x, sat, e) # Pull(p)
    BY <1>1, <1>2, <1>5
  <2>. QED  BY <1>6, <2>1 DEF require_or, alternatives
<1>. QED  BY <1>7

LEMMA WithOpens ==
  ASSUME NEW x, NEW e
  PROVE  \A c \in require_with(x, e).choices : c.expr \in Texts(e) /\ Kind(e) = "with"
<1>1. \A p : Pull(p).choices = {}  BY DEF Pull, Nothing
<1>2. \A k : Complain(k, e).choices = {}  BY DEF Complain, Nothing
<1>3. \A k, A : Choose(k, A).choices = {[expr |-> k, alts |-> A]}  BY DEF Choose, Nothing
<1>4. \A A : AnyOf(A).choices = {}  BY <1>1 DEF AnyOf
<1>8. \A k, m, newest : \A c \in prefer(k, m, newest).choices : c.expr = k
  BY <1>3, <1>4 DEF prefer
<1>9. \A n, fit : \A c \in pick_range(x, e, n, fit).choices : c.expr = joined[e]
  BY <1>1, <1>2, <1>4, <1>8 DEF pick_range
<1>10. \A C : among(x, e, C).choices = {}
  BY <1>1, <1>2, <1>4 DEF among
<1>11. ASSUME NEW c \in require_with(x, e).choices
       PROVE  c.expr \in Texts(e) /\ Kind(e) = "with"
  <2>1. require_with(x, e) # Complain("rich", e) /\ \A C : require_with(x, e) # among(x, e, C)
    BY <1>2, <1>10
  <2>. QED  BY <1>9, <2>1 DEF require_with, resolve_range, Texts
<1>. QED  BY <1>11

\* What such a text reads as: what waits is such a text, what defers brings
\* nothing yet, no choice can be settled by an override, and the last reading
\* is like the others.
LEMMA RisingReads ==
  ASSUME NEW x \in Repositories, NEW S, NEW e \in Expr, Rising(x)[e]
  PROVE  LET r == require(x, S, FALSE)[e]
         IN  /\ \A y \in r.pend : Rising(x)[y]
             /\ r.defer => r.pkgs = {} /\ r.pend = {}
             /\ \A c \in r.choices : ~Overridden(x, c.expr)
             /\ require(x, S, TRUE)[e] = r
<1>. DEFINE f == require(x, S, FALSE)
            g == require(x, S, TRUE)
            up == Rising(x)
            sat == satisfied(x, S)
            Fine(d) == /\ \A y \in f[d].pend : up[y]
                       /\ f[d].defer => f[d].pkgs = {} /\ f[d].pend = {}
                       /\ \A c \in f[d].choices : ~Overridden(x, c.expr)
                       /\ g[d] = f[d]
            G == {d \in Expr : up[d] => Fine(d)}
<1>1. ASSUME NEW d \in Expr, Operands(d) \subseteq G PROVE d \in G
  <2>1. SUFFICES ASSUME up[d] PROVE Fine(d)  OBVIOUS
  <2>k. \/ ~Rich(d) \/ Kind(d) \in {"and", "or", "with", "without", "if"}
    BY <2>1, RisingParts
  <2>2. CASE ~Rich(d)
    <3>1. /\ f[d] = resolve(x, Bare(d)) /\ g[d] = resolve(x, Bare(d))
          /\ f[d].pend = {} /\ f[d].defer = FALSE
      BY <2>2, PlainReadsNow
    <3>2. \A c \in f[d].choices : ~Overridden(x, c.expr)
      <4>1. \A c \in resolve(x, Bare(d)).choices : ~Overridden(x, c.expr)  BY ResolveOpens
      <4>. HIDE DEF f, g
      <4>. QED  BY <3>1, <4>1
    <3>. HIDE DEF f, g, up
    <3>. QED  BY <3>1, <3>2
  <2>3. CASE Kind(d) = "or"
    <3>1. f[d] = require_or(x, sat, d) /\ g[d] = require_or(x, sat, d)
      BY <2>3, RequireParts
    <3>2. Simple(require_or(x, sat, d))  BY RichSimple
    <3>3. \A c \in require_or(x, sat, d).choices : ~Overridden(x, c.expr)
      BY OrOpens
    <3>. HIDE DEF f, g, up, sat
    <3>. QED  BY <3>1, <3>2, <3>3 DEF Simple
  <2>4. CASE Kind(d) \in {"with", "without"}
    <3>1. f[d] = require_with(x, d) /\ g[d] = require_with(x, d)
      BY <2>4, RequireParts
    <3>2. Simple(require_with(x, d))  BY RichSimple
    <3>3. Kind(d) = "with" => \A k \in Texts(d) : ~Overridden(x, k)  BY <2>1, RisingParts
    <3>4. \A c \in require_with(x, d).choices : ~Overridden(x, c.expr)
      BY <3>3, WithOpens
    <3>. HIDE DEF f, g, up, sat
    <3>. QED  BY <3>1, <3>2, <3>4 DEF Simple
  <2>5. CASE Kind(d) = "and"
    <3>1. f[d] = Together(d, f) /\ g[d] = Together(d, g)  BY <2>5, RequireParts
    <3>2. \A y \in Operands(d) : up[y] /\ Fine(y)
      <4>1. \A y \in Operands(d) : up[y]  BY <2>1, <2>5, RisingParts
      <4>. HIDE DEF Fine, up
      <4>. QED  BY <1>1, <4>1
    <3>. HIDE DEF f, g, up, sat
    <3>3. Together(d, g) = Together(d, f)
      <4>1. \A y \in Operands(d) : g[y] = f[y]  BY <3>2
      <4>. QED  BY <4>1 DEF Together
    <3>4. f[d].defer = FALSE
      BY <3>1 DEF Together
    <3>5. f[d].pend = (UNION {f[y].pend : y \in Operands(d)})
                      \cup {y \in Operands(d) : f[y].defer}
      BY <3>1 DEF Together
    <3>6. f[d].choices = UNION {f[y].choices : y \in Operands(d)}
      BY <3>1 DEF Together
    <3>7. \A y \in f[d].pend : up[y]
      <4>1. \A z \in Operands(d) : up[z] /\ \A y \in f[z].pend : up[y]  BY <3>2
      <4>. QED  BY <3>5, <4>1
    <3>8. \A c \in f[d].choices : ~Overridden(x, c.expr)  BY <3>2, <3>6
    <3>. QED  BY <3>1, <3>3, <3>4, <3>7, <3>8
  <2>6. CASE Kind(d) = "if"
    <3>. DEFINE t == node[d]
    <3>1. t.else = NoExpr /\ t.then \in Operands(d) /\ up[t.then]
      BY <2>1, <2>6, RisingParts
    <3>2. Fine(t.then)
      <4>. HIDE DEF Fine, up, t
      <4>. QED  BY <1>1, <3>1
    <3>3. sat[t.cond] => f[d] = f[t.then] /\ g[d] = g[t.then]
      BY <2>6, RequireParts
    <3>4. ~sat[t.cond] => f[d] = Defer /\ g[d] = Defer
      BY <2>6, <3>1, RequireParts
    <3>5. Defer.pend = {} /\ Defer.choices = {} /\ Defer.pkgs = {}
      BY DEF Defer, Nothing
    <3>. HIDE DEF f, g, up, sat, t
    <3>. QED  BY <3>2, <3>3, <3>4, <3>5
  <2>. QED  BY <2>k, <2>2, <2>3, <2>4, <2>5, <2>6
<1>2. Expr \subseteq G
  <2>. HIDE DEF G
  <2>. QED  BY <1>1, TreeInduction
<1>3. Fine(e)
  <2>1. up[e]  OBVIOUS
  <2>. HIDE DEF Fine, up
  <2>. QED  BY <1>2, <2>1
<1>. QED  BY <1>3

\* An `or` that pulls a package in is answered by that package only.
LEMMA OrPulls ==
  ASSUME NEW x \in Repositories, NEW R, NEW S, NEW e \in Expr,
         Kind(e) = "or", HasNames[e], Rising(x)[e], satisfied(x, S)[e]
  PROVE  require_or(x, satisfied(x, R), e).pkgs \subseteq S
<1>. DEFINE reads == {resolve(x, n) : n \in LeafNames(e)}
            live == UNION {r.pkgs : r \in reads}
            got == require_or(x, satisfied(x, R), e)
<1>1. ~Overridden(x, e) /\ \A n \in LeafNames(e) : OneAnswer(x, n)  BY RisingParts
<1>2. got = Nothing \/ got = settle_or(e, reads, live)
  BY <1>1 DEF require_or, alternatives
<1>3. ASSUME Cardinality(live) = 1, \A r \in reads : r.choices = {}
      PROVE  live \subseteq S
  <2>1. IsFiniteSet(live)
    <3>1. [n \in LeafNames(e) |-> resolve(x, n)] \in Surjection(LeafNames(e), reads)
      BY DEF Surjection
    <3>2. IsFiniteSet(reads)
      <4>. HIDE DEF reads
      <4>. QED  BY <3>1, LeafNamesFinite, FS_Surjection
    <3>. DEFINE sets == {r.pkgs : r \in reads}
    <3>3. [r \in reads |-> r.pkgs] \in Surjection(reads, sets)  BY DEF Surjection
    <3>4. \A P \in sets : P = {} \/ \E p : P = {p}
      <4>1. \A n : resolve(x, n).pkgs = {} \/ \E p : resolve(x, n).pkgs = {p}
        BY ResolveOpens
      <4>. QED  BY <4>1
    <3>. HIDE DEF sets, reads
    <3>5. IsFiniteSet(sets)  BY <3>2, <3>3, FS_Surjection
    <3>6. \A P \in sets : IsFiniteSet(P)  BY <3>4, FS_EmptySet, FS_Singleton
    <3>7. IsFiniteSet(UNION sets)  BY <3>5, <3>6, FS_UNION
    <3>. QED  BY <3>7 DEF sets
  <2>2. PICK p : live = {p}
    <3>. HIDE DEF live
    <3>. QED  BY <1>3, <2>1, FS_Singleton
  <2>3. PICK n \in LeafNames(e) : capability_present(x, S, n)  BY TruthNames
  <2>4. resolve(x, n) \in reads  BY <2>3
  <2>5. Answering(x, n) \subseteq resolve(x, n).pkgs
    <3>1. OneAnswer(x, n) /\ resolve(x, n).choices = {}  BY <1>1, <1>3, <2>3, <2>4
    <3>. QED  BY <3>1 DEF OneAnswer
  <2>6. resolve(x, n).pkgs \subseteq live
    <3>. HIDE DEF reads
    <3>. QED  BY <2>4
  <2>7. Answering(x, n) \cap S # {}
    <3>1. CASE Overridden(x, n)  BY <2>3, <3>1 DEF capability_present, Answering
    <3>2. CASE ~Overridden(x, n)  BY <2>3, <3>2 DEF capability_present, Answering
    <3>. QED  BY <3>1, <3>2
  <2>. HIDE DEF live
  <2>. QED  BY <2>2, <2>5, <2>6, <2>7
<1>4. ASSUME NEW p \in got.pkgs PROVE p \in S
  <2>1. Nothing.pkgs = {} /\ Choose(e, LeafNames(e)).pkgs = {}  BY DEF Nothing, Choose
  <2>2. got # Nothing /\ got # Choose(e, LeafNames(e))  BY <1>4, <2>1
  <2>3. /\ Cardinality(live) = 1 /\ \A r \in reads : r.choices = {}
        /\ got = AnyOf(live)
    <3>. HIDE DEF got, live, reads
    <3>. QED  BY <1>2, <2>2 DEF settle_or
  <2>4. live # {}
    <3>. HIDE DEF live
    <3>. QED  BY <2>3, FS_EmptySet
  <2>5. PICK q \in live : got = Pull(q)
    <3>. HIDE DEF live, got
    <3>. QED  BY <2>3, <2>4, PickedFrom
  <2>6. p = q
    <3>1. Pull(q).pkgs = {q}  BY DEF Pull, Nothing
    <3>. HIDE DEF got
    <3>. QED  BY <1>4, <2>5, <3>1
  <2>7. live \subseteq S  BY <1>3, <2>3
  <2>. HIDE DEF live
  <2>. QED  BY <2>5, <2>6, <2>7
<1>. QED  BY <1>4

\* What is demanded of a set: what was demanded of a part of it, and what was
\* left waiting then.
Fed(x, S, e) == require(x, S, FALSE)[e].pkgs \subseteq S
LeftAt(x, R, e) == IF require(x, R, FALSE)[e].defer THEN {e} ELSE require(x, R, FALSE)[e].pend

LEMMA DemandTurns ==
  ASSUME NEW x \in Repositories, NEW S, NEW R, R \subseteq S, NEW e \in Expr, Rising(x)[e]
  PROVE  Fed(x, S, e) <=> /\ require(x, R, FALSE)[e].pkgs \subseteq S
                          /\ \A y \in LeftAt(x, R, e) : Fed(x, S, y)
<1>. DEFINE f == require(x, R, FALSE)
            g == require(x, S, FALSE)
            up == Rising(x)
            was == satisfied(x, R)
            now == satisfied(x, S)
            Swaps(d) == Fed(x, S, d) <=> /\ f[d].pkgs \subseteq S
                                         /\ \A y \in LeftAt(x, R, d) : Fed(x, S, y)
            G == {d \in Expr : up[d] => Swaps(d)}
<1>e. \A d : Fed(x, S, d) <=> g[d].pkgs \subseteq S  BY DEF Fed
<1>l. \A d : LeftAt(x, R, d) = IF f[d].defer THEN {d} ELSE f[d].pend  BY DEF LeftAt
<1>p. \A d \in Expr : up[d] /\ f[d].defer => f[d].pkgs = {} /\ f[d].pend = {}
  BY RisingReads
<1>s. ASSUME NEW d \in Expr, g[d] = f[d], Simple(f[d]) PROVE Swaps(d)
  <2>1. f[d].defer = FALSE /\ f[d].pend = {}  BY <1>s DEF Simple
  <2>. HIDE DEF f, g
  <2>2. LeftAt(x, R, d) = {}  BY <1>l, <2>1
  <2>. QED  BY <1>e, <1>s, <2>2
<1>1. ASSUME NEW d \in Expr, Operands(d) \subseteq G PROVE d \in G
  <2>1. SUFFICES ASSUME up[d] PROVE Swaps(d)  OBVIOUS
  <2>k. \/ ~Rich(d) \/ Kind(d) \in {"and", "or", "with", "without", "if"}
    BY <2>1, RisingParts
  <2>2. CASE f[d].defer
    <3>. HIDE DEF f, g, up
    <3>1. f[d].pkgs = {}  BY <1>p, <2>1, <2>2
    <3>2. LeftAt(x, R, d) = {d}  BY <1>l, <2>2
    <3>. QED  BY <3>1, <3>2
  <2>3. CASE ~Rich(d)
    <3>1. f[d] = resolve(x, Bare(d)) /\ g[d] = resolve(x, Bare(d))
      BY <2>3, PlainReadsNow
    <3>2. Simple(resolve(x, Bare(d)))  BY ResolveSimple
    <3>. HIDE DEF f, g, Swaps
    <3>. QED  BY <1>s, <3>1, <3>2
  <2>4. CASE Kind(d) \in {"with", "without"}
    <3>1. f[d] = require_with(x, d) /\ g[d] = require_with(x, d)
      BY <2>4, RequireParts
    <3>2. Simple(require_with(x, d))  BY RichSimple
    <3>. HIDE DEF f, g, Swaps
    <3>. QED  BY <1>s, <3>1, <3>2
  <2>5. CASE Kind(d) = "or"
    <3>1. f[d] = require_or(x, was, d) /\ g[d] = require_or(x, now, d)
      BY <2>5, RequireParts
    <3>2. Simple(require_or(x, was, d))  BY RichSimple
    <3>3. f[d].defer = FALSE /\ f[d].pend = {}
      <4>. HIDE DEF f, g, was, now
      <4>. QED  BY <3>1, <3>2 DEF Simple
    <3>4. LeftAt(x, R, d) = {}
      <4>. HIDE DEF f
      <4>. QED  BY <1>l, <3>3
    <3>5. (was[d] <=> \E y \in Operands(d) : was[y]) /\ (now[d] <=> \E y \in Operands(d) : now[y])
      BY <2>5, TruthParts
    <3>6. Nothing.pkgs = {} /\ Complain("rich", d).pkgs = {}  BY DEF Nothing, Complain
    <3>7. CASE ~HasNames[d]
      <4>1. /\ f[d] \in {Nothing, Complain("rich", d)}
            /\ g[d] \in {Nothing, Complain("rich", d)}
        <5>. HIDE DEF f, g, was, now
        <5>. QED  BY <3>1, <3>7 DEF require_or
      <4>2. f[d].pkgs = {} /\ g[d].pkgs = {}
        <5>. HIDE DEF f, g
        <5>. QED  BY <3>6, <4>1
      <4>. HIDE DEF f, g
      <4>. QED  BY <1>e, <3>4, <4>2
    <3>8. CASE HasNames[d] /\ now[d]
      <4>1. g[d] = Nothing
        <5>. HIDE DEF f, g, was, now
        <5>. QED  BY <3>1, <3>5, <3>8 DEF require_or
      <4>2. require_or(x, was, d).pkgs \subseteq S  BY <2>1, <2>5, <3>8, OrPulls
      <4>. HIDE DEF f, g, was, now
      <4>. QED  BY <1>e, <3>1, <3>4, <3>6, <4>1, <4>2
    <3>9. CASE HasNames[d] /\ ~now[d]
      <4>1. ~was[d]  BY <3>9, TruthGrows
      <4>2. g[d] = f[d]
        <5>1. \A y \in Operands(d) : ~was[y] /\ ~now[y]  BY <3>5, <3>9, <4>1
        <5>. HIDE DEF f, g, was, now
        <5>. QED  BY <3>1, <5>1 DEF require_or
      <4>. HIDE DEF f, g
      <4>. QED  BY <1>e, <3>4, <4>2
    <3>. QED  BY <3>7, <3>8, <3>9
  <2>6. CASE Kind(d) = "and"
    <3>1. f[d] = Together(d, f) /\ g[d] = Together(d, g)  BY <2>6, RequireParts
    <3>2. \A y \in Operands(d) : y \in Expr /\ up[y] /\ Swaps(y)
      <4>1. \A y \in Operands(d) : up[y] /\ y \in Expr  BY <2>1, <2>6, RisingParts, TreeAssumption
      <4>. HIDE DEF Swaps, up
      <4>. QED  BY <1>1, <4>1
    <3>. HIDE DEF f, g, up, was, now
    <3>3. /\ f[d].defer = FALSE
          /\ f[d].pkgs = UNION {f[y].pkgs : y \in Operands(d)}
          /\ g[d].pkgs = UNION {g[y].pkgs : y \in Operands(d)}
          /\ f[d].pend = (UNION {f[y].pend : y \in Operands(d)})
                            \cup {y \in Operands(d) : f[y].defer}
      BY <3>1 DEF Together
    <3>4. Fed(x, S, d) <=> \A y \in Operands(d) : Fed(x, S, y)
      <4>1. g[d].pkgs \subseteq S <=> \A y \in Operands(d) : g[y].pkgs \subseteq S  BY <3>3
      <4>. QED  BY <1>e, <4>1
    <3>5. f[d].pkgs \subseteq S <=> \A y \in Operands(d) : f[y].pkgs \subseteq S  BY <3>3
    <3>6. LeftAt(x, R, d) = f[d].pend  BY <1>l, <3>3
    <3>7. ASSUME NEW z PROVE z \in f[d].pend <=> \E y \in Operands(d) : z \in LeftAt(x, R, y)
      <4>1. \A y \in Operands(d) : f[y].defer => f[y].pend = {}  BY <1>p, <3>2
      <4>. QED  BY <1>l, <3>3, <4>1
    <3>8. (\A z \in LeftAt(x, R, d) : Fed(x, S, z))
            <=> \A y \in Operands(d) : \A z \in LeftAt(x, R, y) : Fed(x, S, z)
      BY <3>6, <3>7
    <3>9. \A y \in Operands(d) : Swaps(y)  BY <3>2
    <3>. QED  BY <3>4, <3>5, <3>8, <3>9
  <2>7. CASE Kind(d) = "if" /\ ~f[d].defer
    <3>. DEFINE t == node[d]
    <3>1. /\ t.else = NoExpr /\ HasNames[t.cond] /\ t.cond \in Expr
          /\ t.then \in Operands(d) /\ up[t.then]
      BY <2>1, <2>7, RisingParts
    <3>2. Swaps(t.then)
      <4>. HIDE DEF Swaps, up, t
      <4>. QED  BY <1>1, <3>1
    <3>3. /\ was[t.cond] => f[d] = f[t.then]
          /\ ~was[t.cond] => f[d] = Defer
          /\ now[t.cond] => g[d] = g[t.then]
      BY <2>7, <3>1, RequireParts
    <3>4. was[t.cond] => now[t.cond]  BY <3>1, TruthGrows
    <3>5. Defer.defer = TRUE  BY SimpleEffects
    <3>. HIDE DEF f, g, up, was, now, t
    <3>6. f[d] = f[t.then] /\ g[d] = g[t.then]  BY <2>7, <3>3, <3>4, <3>5
    <3>7. LeftAt(x, R, d) = LeftAt(x, R, t.then)  BY <1>l, <2>7, <3>6
    <3>8. Fed(x, S, d) <=> Fed(x, S, t.then)  BY <1>e, <3>6
    <3>. QED  BY <3>2, <3>6, <3>7, <3>8
  <2>. QED  BY <2>k, <2>2, <2>3, <2>4, <2>5, <2>6, <2>7
<1>2. Expr \subseteq G
  <2>. HIDE DEF G
  <2>. QED  BY <1>1, TreeInduction
<1>3. Swaps(e)
  <2>1. up[e]  OBVIOUS
  <2>. HIDE DEF Swaps, up
  <2>. QED  BY <1>2, <2>1
<1>. QED  BY <1>3

\* The same for a reading, early or late, of a text that is asked or that waits.
Meets(S, e) == Read(require(w, S, FALSE), e).pkgs \subseteq S

LEMMA MeetsFed ==
  ASSUME w \in Repositories, NEW S, NEW e \in Expr, Rising(w)[e], Rich(e)
  PROVE  Meets(S, e) <=> Fed(w, S, e)
<1>. DEFINE r == require(w, S, FALSE)[e]
<1>1. r.defer => r.pkgs = {}  BY RisingReads
<1>2. [Nothing EXCEPT !.pend = {e}].pkgs = {}  BY DEF Nothing
<1>3. Read(require(w, S, FALSE), e) = IF r.defer THEN [Nothing EXCEPT !.pend = {e}] ELSE r
  BY DEF Read
<1>4. Fed(w, S, e) <=> r.pkgs \subseteq S  BY DEF Fed
<1>. HIDE DEF r
<1>. QED  BY <1>1, <1>2, <1>3, <1>4 DEF Meets

LEMMA ReadTurns ==
  ASSUME w \in Repositories, NEW S, NEW R, R \subseteq S, NEW final \in BOOLEAN,
         NEW e \in Expr, Rising(w)[e]
  PROVE  LET r == Read(require(w, R, final), e)
         IN  /\ Meets(S, e) <=> r.pkgs \subseteq S /\ \A y \in r.pend : Meets(S, y)
             /\ \A y \in r.pend : Rising(w)[y]
             /\ \A c \in r.choices : ~Overridden(w, c.expr)
<1>. DEFINE r == Read(require(w, R, final), e)
            q == require(w, R, FALSE)[e]
            up == Rising(w)
<1>1. CASE ~Rich(e)
  <2>1. r = resolve(w, e) /\ Read(require(w, S, FALSE), e) = resolve(w, e)
    BY <1>1 DEF Read
  <2>2. Simple(resolve(w, e)) /\ \A c \in resolve(w, e).choices : ~Overridden(w, c.expr)
    BY ResolveSimple, ResolveOpens
  <2>. HIDE DEF r
  <2>3. r.pend = {}  BY <2>1, <2>2 DEF Simple
  <2>4. Meets(S, e) <=> r.pkgs \subseteq S  BY <2>1 DEF Meets
  <2>5. \A c \in r.choices : ~Overridden(w, c.expr)  BY <2>1, <2>2
  <2>. QED  BY <2>3, <2>4, <2>5 DEF r
<1>2. CASE Rich(e)
  <2>1. require(w, R, final)[e] = q
    <3>1. CASE final = TRUE  BY <3>1, RisingReads
    <3>2. CASE final = FALSE  BY <3>2
    <3>. QED  BY <3>1, <3>2
  <2>2. r = IF q.defer THEN [Nothing EXCEPT !.pend = {e}] ELSE q  BY <1>2, <2>1 DEF Read
  <2>3. \A y \in q.pend : y \in Expr /\ Rich(y) /\ up[y]  BY PendDefers, RisingReads
  <2>4. \A c \in q.choices : ~Overridden(w, c.expr)  BY RisingReads
  <2>5. /\ Fed(w, S, e) <=> q.pkgs \subseteq S /\ \A y \in LeftAt(w, R, e) : Fed(w, S, y)
        /\ LeftAt(w, R, e) = IF q.defer THEN {e} ELSE q.pend
    BY DemandTurns DEF LeftAt
  <2>6. \A y \in Expr : Rich(y) /\ up[y] => (Meets(S, y) <=> Fed(w, S, y))  BY MeetsFed
  <2>7. up[e]  OBVIOUS
  <2>8. CASE q.defer
    <3>1. /\ [Nothing EXCEPT !.pend = {e}].pkgs = {} /\ [Nothing EXCEPT !.pend = {e}].pend = {e}
          /\ [Nothing EXCEPT !.pend = {e}].choices = {}
      BY DEF Nothing
    <3>. HIDE DEF r, q, up
    <3>2. r = [Nothing EXCEPT !.pend = {e}]  BY <2>2, <2>8
    <3>3. r.pkgs = {} /\ r.pend = {e} /\ r.choices = {}  BY <3>1, <3>2
    <3>. QED  BY <2>7, <3>3 DEF r, up
  <2>9. CASE ~q.defer
    <3>. HIDE DEF r, q, up
    <3>1. r = q /\ LeftAt(w, R, e) = q.pend  BY <2>2, <2>5, <2>9
    <3>2. Meets(S, e) <=> q.pkgs \subseteq S /\ \A y \in q.pend : Meets(S, y)
      BY <1>2, <2>3, <2>5, <2>6, <2>7, <3>1
    <3>3. (\A y \in r.pend : up[y]) /\ \A c \in r.choices : ~Overridden(w, c.expr)
      BY <2>3, <2>4, <3>1
    <3>. QED  BY <3>1, <3>2, <3>3 DEF r, up
  <2>. QED  BY <2>8, <2>9
<1>. QED  BY <1>1, <1>2

\* What a batch of readings brings is in S, and what it leaves waiting is good there.
Brings(reads, S) == Pulled(reads) \subseteq S /\ \A i \in Waits(reads) : Meets(S, i.expr)

LEMMA BatchParts ==
  ASSUME NEW reads
  PROVE  /\ \A i \in Waits(reads) : \E r \in reads : i.expr \in r.eff.pend
         /\ \A c \in Opened(reads) : \E r \in reads : \E o \in r.eff.choices : c.expr = o.expr
         /\ \A r \in reads : \A y \in r.eff.pend : \E i \in Waits(reads) : i.expr = y
<1>1. \A i \in Waits(reads) : \E r \in reads : i.expr \in r.eff.pend  BY DEF Waits
<1>2. \A r \in reads : \A y \in r.eff.pend : \E i \in Waits(reads) : i.expr = y
  <2>1. ASSUME NEW r \in reads, NEW y \in r.eff.pend
        PROVE  [expr |-> y, who |-> r.who] \in Waits(reads)
    BY DEF Waits
  <2>2. \A y, z : [expr |-> y, who |-> z].expr = y  OBVIOUS
  <2>. QED  BY <2>1, <2>2
<1>3. \A c \in Opened(reads) : \E r \in reads : \E o \in r.eff.choices : c.expr = o.expr
  BY DEF Opened
<1>. QED  BY <1>1, <1>2, <1>3

LEMMA BatchTurns ==
  ASSUME NEW reads, NEW S
  PROVE  Brings(reads, S) <=>
           \A r \in reads : r.eff.pkgs \subseteq S /\ \A y \in r.eff.pend : Meets(S, y)
<1>1. Pulled(reads) \subseteq S <=> \A r \in reads : r.eff.pkgs \subseteq S  BY DEF Pulled
<1>2. \A i \in Waits(reads) : \E r \in reads : i.expr \in r.eff.pend  BY BatchParts
<1>3. \A r \in reads : \A y \in r.eff.pend : \E i \in Waits(reads) : i.expr = y  BY BatchParts
<1>. QED  BY <1>1, <1>2, <1>3 DEF Brings

\* A batch asks only for more, and no override settles what it opens.
Quiet(reads) == /\ \A i \in Waits(reads) : Rising(w)[i.expr]
                /\ \A c \in Opened(reads) : ~Overridden(w, c.expr)

LEMMA QuietBatch ==
  ASSUME NEW reads,
         \A r \in reads : /\ \A y \in r.eff.pend : Rising(w)[y]
                          /\ \A c \in r.eff.choices : ~Overridden(w, c.expr)
  PROVE  Quiet(reads)
<1>. DEFINE up == Rising(w)
<1>1. \A r \in reads : \A y \in r.eff.pend : up[y]  OBVIOUS
<1>. HIDE DEF up
<1>2. \A i \in Waits(reads) : up[i.expr]
  <2>1. \A i \in Waits(reads) : \E r \in reads : i.expr \in r.eff.pend  BY BatchParts
  <2>. QED  BY <1>1, <2>1
<1>3. \A c \in Opened(reads) : ~Overridden(w, c.expr)
  <2>1. \A c \in Opened(reads) : \E r \in reads : \E o \in r.eff.choices : c.expr = o.expr
    BY BatchParts
  <2>. QED  BY <2>1
<1>. QED  BY <1>2, <1>3 DEF Quiet, up

\* The Requires of a package.
LEMMA MemberTurns ==
  ASSUME w \in Repositories, NEW p \in Pkg, asks \in Ask, Growing
  PROVE  /\ \A R : Quiet(ReadRequires(p, R))
         /\ \A S, R : R \subseteq S =>
              (Brings(ReadRequires(p, R), S) <=> Pulled(ReadRequires(p, S)) \subseteq S)
<1>. DEFINE E == asks.requires[p]
<1>1. \A e \in E : e \in Expr /\ Rising(w)[e]  BY DEF Ask, Growing
<1>2. ASSUME NEW R, NEW S, R \subseteq S
      PROVE  /\ Brings(ReadRequires(p, R), S) <=> \A e \in E : Meets(S, e)
             /\ Quiet(ReadRequires(p, R))
  <2>. DEFINE read(e) == Read(require(w, R, FALSE), e)
              reads == ReadRequires(p, R)
  <2>1. \A e \in E : /\ Meets(S, e) <=> /\ read(e).pkgs \subseteq S
                                       /\ \A y \in read(e).pend : Meets(S, y)
                     /\ \A y \in read(e).pend : Rising(w)[y]
                     /\ \A c \in read(e).choices : ~Overridden(w, c.expr)
    BY <1>1, <1>2, ReadTurns
  <2>2. reads = {[who |-> p, eff |-> read(e)] : e \in E}  BY DEF ReadRequires
  <2>. HIDE DEF read, reads, E
  <2>3. \A r \in reads : \E e \in E : r.eff = read(e)  BY <2>2
  <2>4. \A e \in E : \E r \in reads : r.eff = read(e)
    <3>1. \A e \in E : [who |-> p, eff |-> read(e)] \in reads  BY <2>2
    <3>2. \A y : [who |-> p, eff |-> y].eff = y  OBVIOUS
    <3>. QED  BY <3>1, <3>2
  <2>5. Brings(reads, S) <=> \A e \in E : Meets(S, e)
    <3>1. Brings(reads, S) <=>
            \A r \in reads : r.eff.pkgs \subseteq S /\ \A y \in r.eff.pend : Meets(S, y)
      BY BatchTurns
    <3>. QED  BY <2>1, <2>3, <2>4, <3>1
  <2>6. Quiet(reads)
    <3>1. \A r \in reads : /\ \A y \in r.eff.pend : Rising(w)[y]
                           /\ \A c \in r.eff.choices : ~Overridden(w, c.expr)
      BY <2>1, <2>3
    <3>. QED  BY <3>1, QuietBatch
  <2>. QED  BY <2>5, <2>6 DEF reads, E
<1>3. ASSUME NEW S PROVE Pulled(ReadRequires(p, S)) \subseteq S <=> \A e \in E : Meets(S, e)
  <2>1. ReadRequires(p, S) = {[who |-> p, eff |-> Read(require(w, S, FALSE), e)] : e \in E}
    BY DEF ReadRequires
  <2>. DEFINE read(e) == Read(require(w, S, FALSE), e)
              reads == ReadRequires(p, S)
  <2>2. reads = {[who |-> p, eff |-> read(e)] : e \in E}  BY <2>1
  <2>3. \A e \in E : Meets(S, e) <=> read(e).pkgs \subseteq S  BY DEF Meets
  <2>. HIDE DEF read, reads, E
  <2>4. Pulled(reads) \subseteq S <=> \A r \in reads : r.eff.pkgs \subseteq S  BY DEF Pulled
  <2>5. \A e \in E : [who |-> p, eff |-> read(e)] \in reads  BY <2>2
  <2>6. \A y : [who |-> p, eff |-> y].eff = y  OBVIOUS
  <2>7. \A r \in reads : \E e \in E : r.eff = read(e)  BY <2>2
  <2>8. \A e \in E : \E r \in reads : r.eff = read(e)  BY <2>5, <2>6
  <2>9. Pulled(reads) \subseteq S <=> \A e \in E : Meets(S, e)  BY <2>3, <2>4, <2>7, <2>8
  <2>. QED  BY <2>9 DEF reads
<1>4. ASSUME NEW R PROVE Quiet(ReadRequires(p, R))  BY <1>2
<1>5. ASSUME NEW S, NEW R, R \subseteq S
      PROVE  Brings(ReadRequires(p, R), S) <=> Pulled(ReadRequires(p, S)) \subseteq S
  <2>. HIDE DEF E
  <2>. QED  BY <1>2, <1>3, <1>5
<1>. QED  BY <1>4, <1>5

\* What the caller asks for; its capabilities by name.
LEMMA CallerTurns ==
  ASSUME w \in Repositories, asks \in Ask, Growing
  PROVE  /\ \A R : Quiet(ReadCaller(R))
         /\ \A S, R : R \subseteq S =>
              (Brings(ReadCaller(R), S) <=> Pulled(ReadCaller(S)) \subseteq S)
<1>. DEFINE E == asks.extra
            at(R, e) == IF Rich(e) THEN Read(require(w, R, FALSE), e) ELSE resolve(w, Bare(e))
<1>1. \A e \in E : e \in Expr /\ Rising(w)[e]  BY DEF Ask, Growing
<1>2. ASSUME NEW R, NEW S, R \subseteq S
      PROVE  /\ Brings(ReadCaller(R), S) <=> \A e \in E : at(S, e).pkgs \subseteq S
             /\ Quiet(ReadCaller(R))
  <2>. DEFINE reads == ReadCaller(R)
  <2>1. ASSUME NEW e \in E
        PROVE  /\ at(S, e).pkgs \subseteq S <=> /\ at(R, e).pkgs \subseteq S
                                                /\ \A y \in at(R, e).pend : Meets(S, y)
               /\ \A y \in at(R, e).pend : Rising(w)[y]
               /\ \A c \in at(R, e).choices : ~Overridden(w, c.expr)
    <3>1. CASE Rich(e)
      <4>1. LET r == Read(require(w, R, FALSE), e)
            IN  /\ Meets(S, e) <=> r.pkgs \subseteq S /\ \A y \in r.pend : Meets(S, y)
                /\ \A y \in r.pend : Rising(w)[y]
                /\ \A c \in r.choices : ~Overridden(w, c.expr)
        BY <1>1, <1>2, ReadTurns
      <4>2. Meets(S, e) <=> at(S, e).pkgs \subseteq S  BY <3>1 DEF Meets
      <4>3. at(R, e) = Read(require(w, R, FALSE), e)  BY <3>1
      <4>. HIDE DEF at
      <4>. QED  BY <4>1, <4>2, <4>3
    <3>2. CASE ~Rich(e)
      <4>1. at(S, e) = resolve(w, Bare(e)) /\ at(R, e) = resolve(w, Bare(e))  BY <3>2
      <4>2. /\ Simple(resolve(w, Bare(e)))
            /\ \A c \in resolve(w, Bare(e)).choices : ~Overridden(w, c.expr)
        BY ResolveSimple, ResolveOpens
      <4>. HIDE DEF at
      <4>. QED  BY <4>1, <4>2 DEF Simple
    <3>. QED  BY <3>1, <3>2
  <2>2. reads = {[who |-> Src, eff |-> at(R, e)] : e \in E}  BY DEF ReadCaller
  <2>. HIDE DEF at, reads, E
  <2>3. \A r \in reads : \E e \in E : r.eff = at(R, e)  BY <2>2
  <2>4. \A e \in E : \E r \in reads : r.eff = at(R, e)
    <3>1. \A e \in E : [who |-> Src, eff |-> at(R, e)] \in reads  BY <2>2
    <3>2. \A y : [who |-> Src, eff |-> y].eff = y  OBVIOUS
    <3>. QED  BY <3>1, <3>2
  <2>5. Brings(reads, S) <=> \A e \in E : at(S, e).pkgs \subseteq S
    <3>1. Brings(reads, S) <=>
            \A r \in reads : r.eff.pkgs \subseteq S /\ \A y \in r.eff.pend : Meets(S, y)
      BY BatchTurns
    <3>. QED  BY <2>1, <2>3, <2>4, <3>1
  <2>6. Quiet(reads)
    <3>1. \A r \in reads : /\ \A y \in r.eff.pend : Rising(w)[y]
                           /\ \A c \in r.eff.choices : ~Overridden(w, c.expr)
      BY <2>1, <2>3
    <3>. QED  BY <3>1, QuietBatch
  <2>. QED  BY <2>5, <2>6 DEF reads
<1>3. ASSUME NEW S PROVE Pulled(ReadCaller(S)) \subseteq S <=> \A e \in E : at(S, e).pkgs \subseteq S
  <2>1. ReadCaller(S) = {[who |-> Src, eff |-> at(S, e)] : e \in E}  BY DEF ReadCaller
  <2>. DEFINE reads == ReadCaller(S)
  <2>. HIDE DEF at, E, reads
  <2>2. reads = {[who |-> Src, eff |-> at(S, e)] : e \in E}  BY <2>1 DEF reads
  <2>4. Pulled(reads) \subseteq S <=> \A r \in reads : r.eff.pkgs \subseteq S  BY DEF Pulled
  <2>5. \A e \in E : [who |-> Src, eff |-> at(S, e)] \in reads  BY <2>2
  <2>6. \A y : [who |-> Src, eff |-> y].eff = y  OBVIOUS
  <2>7. \A r \in reads : \E e \in E : r.eff = at(S, e)  BY <2>2
  <2>8. \A e \in E : \E r \in reads : r.eff = at(S, e)  BY <2>5, <2>6
  <2>9. Pulled(reads) \subseteq S <=> \A e \in E : at(S, e).pkgs \subseteq S
    BY <2>4, <2>7, <2>8
  <2>. QED  BY <2>9 DEF reads
<1>4. ASSUME NEW R PROVE Quiet(ReadCaller(R))  BY <1>2
<1>5. ASSUME NEW S, NEW R, R \subseteq S
      PROVE  Brings(ReadCaller(R), S) <=> Pulled(ReadCaller(S)) \subseteq S
  <2>. HIDE DEF at, E
  <2>. QED  BY <1>2, <1>3, <1>5
<1>. QED  BY <1>4, <1>5

\* The waiting list, read once more.
LEMMA WaitTurns ==
  ASSUME TypeOK, NEW final \in BOOLEAN, \A i \in pending : Rising(w)[i.expr]
  PROVE  /\ Quiet(Reread(final))
         /\ \A S : seen \subseteq S =>
              (Brings(Reread(final), S) <=> \A i \in pending : Meets(S, i.expr))
<1>. DEFINE read(i) == Read(require(w, seen, final), i.expr)
            reads == Reread(final)
<1>1. \A i \in pending : i.expr \in Expr  BY DEF TypeOK
<1>2. reads = {[who |-> i.who, eff |-> read(i)] : i \in pending}  BY DEF Reread
<1>3. ASSUME NEW S, seen \subseteq S, NEW i \in pending
      PROVE  /\ Meets(S, i.expr) <=> /\ read(i).pkgs \subseteq S
                                    /\ \A y \in read(i).pend : Meets(S, y)
             /\ \A y \in read(i).pend : Rising(w)[y]
             /\ \A c \in read(i).choices : ~Overridden(w, c.expr)
  <2>1. w \in Repositories  BY DEF TypeOK
  <2>2. i.expr \in Expr /\ Rising(w)[i.expr]  BY <1>1
  <2>. DEFINE e == i.expr
  <2>3. e \in Expr /\ Rising(w)[e]  BY <2>2
  <2>. HIDE DEF e
  <2>4. LET r == Read(require(w, seen, final), e)
        IN  /\ Meets(S, e) <=> r.pkgs \subseteq S /\ \A y \in r.pend : Meets(S, y)
            /\ \A y \in r.pend : Rising(w)[y]
            /\ \A c \in r.choices : ~Overridden(w, c.expr)
    BY <1>3, <2>1, <2>3, ReadTurns
  <2>. QED  BY <2>4 DEF e
<1>. HIDE DEF read, reads
<1>4. \A r \in reads : \E i \in pending : r.eff = read(i)  BY <1>2
<1>5. \A i \in pending : \E r \in reads : r.eff = read(i)
  <2>1. \A i \in pending : [who |-> i.who, eff |-> read(i)] \in reads  BY <1>2
  <2>2. \A y, z : [who |-> z, eff |-> y].eff = y  OBVIOUS
  <2>. QED  BY <2>1, <2>2
<1>6. ASSUME NEW S, seen \subseteq S
      PROVE  Brings(reads, S) <=> \A i \in pending : Meets(S, i.expr)
  <2>1. Brings(reads, S) <=>
          \A r \in reads : r.eff.pkgs \subseteq S /\ \A y \in r.eff.pend : Meets(S, y)
    BY BatchTurns
  <2>. QED  BY <1>3, <1>4, <1>5, <1>6, <2>1
<1>7. Quiet(reads)
  <2>1. \A r \in reads : /\ \A y \in r.eff.pend : Rising(w)[y]
                         /\ \A c \in r.eff.choices : ~Overridden(w, c.expr)
    <3>1. \A i \in pending : /\ \A y \in read(i).pend : Rising(w)[y]
                             /\ \A c \in read(i).choices : ~Overridden(w, c.expr)
      BY <1>3
    <3>. QED  BY <1>4, <3>1
  <2>. QED  BY <2>1, QuietBatch
<1>. QED  BY <1>6, <1>7 DEF reads

\* What has been read so far asks of S, and what S then gives.
Bound(S) ==
  /\ seen \cup frontier \subseteq S
  /\ \A i \in pending : Meets(S, i.expr)

Given(S) ==
  /\ asks.roots \subseteq S
  /\ phase # "extra" => Pulled(ReadCaller(S)) \subseteq S
  /\ \A p \in seen : Pulled(ReadRequires(p, S)) \subseteq S

\* Every closed set meets what has been read so far, and a set that meets it is
\* closed as far as the loop has come.
Grown ==
  /\ \A i \in pending : Rising(w)[i.expr]
  /\ \A c \in choices : ~Overridden(w, c.expr)
  /\ \A S \in SUBSET Pkg : (ClosedUnder(S) => Bound(S)) /\ (Bound(S) => Given(S))

GrowInv == Growing => Grown

LEMMA SameAsk ==
  ASSUME UNCHANGED <<w, asks>>
  PROVE  /\ Growing' <=> Growing
         /\ \A S : ClosedUnder(S)' <=> ClosedUnder(S)
         /\ \A S, e : Meets(S, e)' <=> Meets(S, e)
         /\ \A S : Pulled(ReadCaller(S))' = Pulled(ReadCaller(S))
         /\ \A p, S : Pulled(ReadRequires(p, S))' = Pulled(ReadRequires(p, S))
<1>1. Growing' <=> Growing  BY DEF Growing
<1>2. \A S, e : Read(require(w, S, FALSE), e)' = Read(require(w, S, FALSE), e)
  BY DEF Read
<1>3. \A S, e : Meets(S, e)' <=> Meets(S, e)  BY <1>2 DEF Meets
<1>4. \A S : ReadCaller(S)' = ReadCaller(S)  BY DEF ReadCaller, Read
<1>5. \A p, S : ReadRequires(p, S)' = ReadRequires(p, S)  BY DEF ReadRequires, Read
<1>6. \A S : Pulled(ReadCaller(S))' = Pulled(ReadCaller(S))  BY <1>4 DEF Pulled
<1>7. \A p, S : Pulled(ReadRequires(p, S))' = Pulled(ReadRequires(p, S))
  BY <1>5 DEF Pulled
<1>8. \A S : ClosedUnder(S)' <=> ClosedUnder(S)  BY <1>6, <1>7 DEF ClosedUnder
<1>. QED  BY <1>1, <1>3, <1>6, <1>7, <1>8

\* A step keeps Grown when closed sets meet what it reads and those that meet it
\* give what it adds.
LEMMA GrownStays ==
  ASSUME Grown, UNCHANGED <<w, asks>>,
         \A i \in pending' : Rising(w)[i.expr],
         \A c \in choices' : ~Overridden(w, c.expr),
         \A S \in SUBSET Pkg : /\ ClosedUnder(S) /\ Bound(S) => Bound(S)'
                               /\ Bound(S)' => Bound(S)
                               /\ Bound(S)' /\ Given(S) => Given(S)'
  PROVE  Grown'
<1>1. ASSUME NEW S \in SUBSET Pkg
      PROVE  (ClosedUnder(S)' => Bound(S)') /\ (Bound(S)' => Given(S)')
  <2>1. ClosedUnder(S)' <=> ClosedUnder(S)  BY SameAsk
  <2>2. (ClosedUnder(S) => Bound(S)) /\ (Bound(S) => Given(S))  BY DEF Grown
  <2>. QED  BY <2>1, <2>2
<1>2. \A i \in pending' : Rising(w')[i.expr]  OBVIOUS
<1>3. \A c \in choices' : ~Overridden(w', c.expr)  OBVIOUS
<1>. QED  BY <1>1, <1>2, <1>3 DEF Grown

\* A batch joins the lists.
LEMMA BoundMore ==
  ASSUME UNCHANGED w, NEW reads, NEW S,
         seen' \cup frontier' = seen \cup frontier \cup Pulled(reads),
         pending' = pending \cup Waits(reads)
  PROVE  Bound(S)' <=> Bound(S) /\ Brings(reads, S)
<1>1. \A e : Meets(S, e)' <=> Meets(S, e)  BY DEF Meets, Read
<1>2. Bound(S)' <=> /\ seen' \cup frontier' \subseteq S
                    /\ \A i \in pending' : Meets(S, i.expr)'
  BY DEF Bound
<1>. QED  BY <1>1, <1>2 DEF Bound, Brings

LEMMA ExtraGrown == TypeOK /\ Growing /\ Grown /\ ReadExtra => Grown'
<1>. SUFFICES ASSUME TypeOK, Growing, Grown, ReadExtra PROVE Grown'  OBVIOUS
<1>. DEFINE R == ReadCaller({})
<1>1. /\ UNCHANGED <<w, asks, seen>> /\ frontier' = (frontier \cup Pulled(R)) \ {}
      /\ pending' = pending \cup Waits(R) /\ choices' = choices \cup Opened(R)
      /\ w \in Repositories /\ asks \in Ask
  BY DEF ReadExtra, Learn, TypeOK
<1>2. Quiet(R) /\ \A S : Brings(R, S) <=> Pulled(ReadCaller(S)) \subseteq S
  <2>1. \A S : {} \subseteq S  OBVIOUS
  <2>. QED  BY <1>1, <2>1, CallerTurns
<1>. HIDE DEF R
<1>3. ASSUME NEW S \in SUBSET Pkg
      PROVE  /\ ClosedUnder(S) /\ Bound(S) => Bound(S)'
             /\ Bound(S)' => Bound(S)
             /\ Bound(S)' /\ Given(S) => Given(S)'
  <2>1. Bound(S)' <=> Bound(S) /\ Brings(R, S)  BY <1>1, BoundMore
  <2>2. ClosedUnder(S) => Pulled(ReadCaller(S)) \subseteq S  BY DEF ClosedUnder
  <2>3. /\ Pulled(ReadCaller(S))' = Pulled(ReadCaller(S))
        /\ \A p : Pulled(ReadRequires(p, S))' = Pulled(ReadRequires(p, S))
    BY <1>1, SameAsk
  <2>4. Given(S) /\ Pulled(ReadCaller(S)) \subseteq S => Given(S)'
    BY <1>1, <2>3 DEF Given
  <2>. QED  BY <1>2, <2>1, <2>2, <2>4
<1>4. \A i \in pending' : Rising(w)[i.expr]  BY <1>1, <1>2 DEF Quiet, Grown
<1>5. \A c \in choices' : ~Overridden(w, c.expr)  BY <1>1, <1>2 DEF Quiet, Grown
<1>. QED  BY <1>1, <1>3, <1>4, <1>5, GrownStays

LEMMA PopGrown ==
  ASSUME TypeOK, Growing, Grown, NEW p \in Pkg, Pop(p)
  PROVE  Grown'
<1>. DEFINE now == seen \cup {p}
            R == ReadRequires(p, now)
<1>1. /\ UNCHANGED <<w, asks, phase>> /\ seen' = now
      /\ frontier' = (frontier \cup Pulled(R)) \ now
      /\ pending' = pending \cup Waits(R) /\ choices' = choices \cup Opened(R)
      /\ w \in Repositories /\ asks \in Ask /\ p \in frontier
  BY DEF Pop, Learn, TypeOK
<1>2. Quiet(R) /\ \A S : now \subseteq S =>
                    (Brings(R, S) <=> Pulled(ReadRequires(p, S)) \subseteq S)
  BY <1>1, MemberTurns
<1>. HIDE DEF R
<1>3. ASSUME NEW S \in SUBSET Pkg
      PROVE  /\ ClosedUnder(S) /\ Bound(S) => Bound(S)'
             /\ Bound(S)' => Bound(S)
             /\ Bound(S)' /\ Given(S) => Given(S)'
  <2>0. seen' \cup frontier' = seen \cup frontier \cup Pulled(R)  BY <1>1
  <2>1. Bound(S)' <=> Bound(S) /\ Brings(R, S)  BY <1>1, <2>0, BoundMore
  <2>2. Bound(S) => p \in S /\ now \subseteq S  BY <1>1 DEF Bound
  <2>3. ClosedUnder(S) /\ p \in S => Pulled(ReadRequires(p, S)) \subseteq S
    BY DEF ClosedUnder
  <2>4. /\ Pulled(ReadCaller(S))' = Pulled(ReadCaller(S))
        /\ \A q : Pulled(ReadRequires(q, S))' = Pulled(ReadRequires(q, S))
    BY <1>1, SameAsk
  <2>5. Given(S) /\ Pulled(ReadRequires(p, S)) \subseteq S => Given(S)'
    BY <1>1, <2>4 DEF Given
  <2>. HIDE DEF now
  <2>. QED  BY <1>2, <2>1, <2>2, <2>3, <2>5
<1>4. \A i \in pending' : Rising(w)[i.expr]  BY <1>1, <1>2 DEF Quiet, Grown
<1>5. \A c \in choices' : ~Overridden(w, c.expr)  BY <1>1, <1>2 DEF Quiet, Grown
<1>. QED  BY <1>1, <1>3, <1>4, <1>5, GrownStays

\* Reading the waiting list again changes nothing that is asked.
LEMMA RereadGrown ==
  ASSUME TypeOK, Grown, NEW final \in BOOLEAN, phase # "extra",
         Learn(Reread(final), {}, {}, seen), frontier = {}, UNCHANGED <<w, asks, seen>>
  PROVE  Grown'
<1>. DEFINE R == Reread(final)
<1>1. /\ frontier' = Pulled(R) \ seen /\ pending' = Waits(R)
      /\ choices' = choices \cup Opened(R)
  BY DEF Learn
<1>2. \A i \in pending : Rising(w)[i.expr]  BY DEF Grown
<1>3. Quiet(R) /\ \A S : seen \subseteq S => (Brings(R, S) <=> \A i \in pending : Meets(S, i.expr))
  BY <1>2, WaitTurns
<1>. HIDE DEF R
<1>4. ASSUME NEW S \in SUBSET Pkg
      PROVE  /\ ClosedUnder(S) /\ Bound(S) => Bound(S)'
             /\ Bound(S)' => Bound(S)
             /\ Bound(S)' /\ Given(S) => Given(S)'
  <2>1. \A e : Meets(S, e)' <=> Meets(S, e)  BY SameAsk
  <2>2. Bound(S)' <=> /\ seen' \cup frontier' \subseteq S
                      /\ \A i \in pending' : Meets(S, i.expr)'
    BY DEF Bound
  <2>3. Bound(S)' <=> seen \subseteq S /\ Brings(R, S)  BY <1>1, <2>1, <2>2 DEF Brings
  <2>4. Bound(S) <=> seen \subseteq S /\ \A i \in pending : Meets(S, i.expr)  BY DEF Bound
  <2>5. /\ Pulled(ReadCaller(S))' = Pulled(ReadCaller(S))
        /\ \A q : Pulled(ReadRequires(q, S))' = Pulled(ReadRequires(q, S))
    BY SameAsk
  <2>6. Given(S) => Given(S)'  BY <2>5 DEF Given
  <2>. QED  BY <1>3, <2>3, <2>4, <2>6
<1>5. \A i \in pending' : Rising(w)[i.expr]  BY <1>1, <1>3 DEF Quiet
<1>6. \A c \in choices' : ~Overridden(w, c.expr)  BY <1>1, <1>3 DEF Quiet, Grown
<1>. QED  BY <1>4, <1>5, <1>6, GrownStays

\* Nor does a step that reads nothing.
LEMMA QuietGrown ==
  ASSUME Grown, UNCHANGED <<w, asks, seen, frontier, pending>>, choices' \subseteq choices,
         phase # "extra" \/ phase' = "extra"
  PROVE  Grown'
<1>1. ASSUME NEW S \in SUBSET Pkg
      PROVE  /\ ClosedUnder(S) /\ Bound(S) => Bound(S)'
             /\ Bound(S)' => Bound(S)
             /\ Bound(S)' /\ Given(S) => Given(S)'
  <2>1. \A e : Meets(S, e)' <=> Meets(S, e)  BY SameAsk
  <2>2. Bound(S)' <=> /\ seen' \cup frontier' \subseteq S
                      /\ \A i \in pending' : Meets(S, i.expr)'
    BY DEF Bound
  <2>3. Bound(S)' <=> Bound(S)  BY <2>1, <2>2 DEF Bound
  <2>4. /\ Pulled(ReadCaller(S))' = Pulled(ReadCaller(S))
        /\ \A q : Pulled(ReadRequires(q, S))' = Pulled(ReadRequires(q, S))
    BY SameAsk
  <2>5. Given(S) => Given(S)'  BY <2>4 DEF Given
  <2>. QED  BY <2>3, <2>5
<1>2. \A i \in pending' : Rising(w)[i.expr]  BY DEF Grown
<1>3. \A c \in choices' : ~Overridden(w, c.expr)  BY DEF Grown
<1>. QED  BY <1>1, <1>2, <1>3, GrownStays

LEMMA InitGrow == ClosureInit => GrowInv
<1>. SUFFICES ASSUME ClosureInit PROVE Grown  BY DEF GrowInv
<1>1. seen = {} /\ frontier = asks.roots /\ pending = {} /\ choices = {} /\ phase = "extra"
  BY DEF ClosureInit
<1>2. \A S : Bound(S) <=> asks.roots \subseteq S  BY <1>1 DEF Bound
<1>3. \A S : Given(S) <=> asks.roots \subseteq S  BY <1>1 DEF Given
<1>. QED  BY <1>1, <1>2, <1>3 DEF Grown, ClosedUnder

LEMMA NextGrow == TypeOK /\ PlainInv /\ GrowInv /\ [ClosureNext]_closureVars => GrowInv'
<1>0. ASSUME [ClosureNext]_closureVars PROVE UNCHANGED <<w, asks>>
  BY <1>0 DEF ClosureNext, ReadExtra, Pop, RecheckPending, RecheckChoices, CloseChoices,
              SettleUnless, Report, Returned, closureVars
<1>. SUFFICES ASSUME TypeOK, PlainInv, Growing, Grown, [ClosureNext]_closureVars PROVE Grown'
  BY <1>0, SameAsk DEF GrowInv
<1>1. CASE ReadExtra  BY <1>1, ExtraGrown
<1>2. ASSUME NEW p \in Pkg, Pop(p) PROVE Grown'  BY <1>2, PopGrown
<1>3. CASE RecheckPending
  <2>1. /\ Learn(Reread(FALSE), {}, {}, seen) /\ frontier = {} /\ phase # "extra"
        /\ UNCHANGED <<w, asks, seen>>
    BY <1>3 DEF RecheckPending
  <2>. QED  BY <2>1, RereadGrown
<1>4. CASE RecheckChoices
  <2>1. {c \in StillOpen : Overridden(w, c.expr)} = {}  BY DEF StillOpen, Grown
  <2>2. /\ UNCHANGED <<w, asks, seen, pending, frontier>> /\ choices' \subseteq choices
        /\ phase # "extra"
    BY <1>4, <2>1 DEF RecheckChoices, CloseChoices, StillOpen
  <2>. QED  BY <2>2, QuietGrown
<1>5. CASE SettleUnless
  <2>1. /\ Learn(Reread(TRUE), {}, {}, seen) /\ frontier = {} /\ phase # "extra"
        /\ UNCHANGED <<w, asks, seen>>
    BY <1>5 DEF SettleUnless, PlainInv
  <2>. QED  BY <2>1, RereadGrown
<1>6. CASE Report \/ UNCHANGED closureVars
  <2>1. /\ UNCHANGED <<w, asks, seen, frontier, pending, choices>>
        /\ phase # "extra" \/ phase' = "extra"
    BY <1>6 DEF Report, closureVars
  <2>. QED  BY <2>1, QuietGrown
<1>. QED  BY <1>1, <1>2, <1>3, <1>4, <1>5, <1>6 DEF ClosureNext, Returned

\* What still waits at the end asks for nothing: the closure meets all it read.
LEMMA GrownEnds == TypeOK /\ PlainInv /\ WaitInv /\ GrowInv => GrowingOrderIndependent
<1>. SUFFICES ASSUME TypeOK, PlainInv, WaitInv, Grown, Done
              PROVE  /\ ClosedUnder(seen)
                     /\ \A S \in SUBSET Pkg : ClosedUnder(S) => seen \subseteq S
  BY DEF GrowInv, GrowingOrderIndependent
<1>1. frontier = {} /\ seen \in SUBSET Pkg /\ w \in Repositories
  BY DEF PlainInv, Done, TypeOK
<1>2. ASSUME NEW i \in pending PROVE Meets(seen, i.expr)
  <2>. DEFINE e == i.expr
  <2>1. e \in Expr /\ Rising(w)[e] /\ require(w, seen, TRUE)[e].defer
    BY DEF TypeOK, Grown, WaitInv, Done
  <2>. HIDE DEF e
  <2>2. require(w, seen, FALSE)[e].defer
    <3>1. require(w, seen, TRUE)[e] = require(w, seen, FALSE)[e]  BY <1>1, <2>1, RisingReads
    <3>. QED  BY <2>1, <3>1
  <2>3. Rich(e)  BY <1>1, <2>1, <2>2, PlainReadsNow
  <2>4. Read(require(w, seen, FALSE), e) = [Nothing EXCEPT !.pend = {e}]
    BY <2>2, <2>3 DEF Read
  <2>5. [Nothing EXCEPT !.pend = {e}].pkgs = {}  BY DEF Nothing
  <2>6. Meets(seen, e)  BY <2>4, <2>5 DEF Meets
  <2>. QED  BY <2>6 DEF e
<1>3. Bound(seen)  BY <1>1, <1>2 DEF Bound
<1>4. Given(seen)  BY <1>1, <1>3 DEF Grown
<1>5. ClosedUnder(seen)  BY <1>4 DEF Given, ClosedUnder, Done
<1>6. ASSUME NEW S \in SUBSET Pkg, ClosedUnder(S) PROVE seen \subseteq S
  <2>1. Bound(S)  BY <1>6 DEF Grown
  <2>. QED  BY <2>1 DEF Bound
<1>. QED  BY <1>5, <1>6

\* Where every requirement only asks for more as the closure grows, runtime_closure
\* returns the least closed set, in whatever order its worklist is popped.
THEOREM GrowingClosureIsLeast == ClosureSpec => []GrowingOrderIndependent
<1>1. ClosureInit => TypeOK /\ PlainInv /\ WaitInv /\ GrowInv
  BY InitType, InitPlain, InitHand, InitGrow
<1>2. TypeOK /\ PlainInv /\ WaitInv /\ GrowInv /\ [ClosureNext]_closureVars
        => (TypeOK /\ PlainInv /\ WaitInv /\ GrowInv)'
  BY NextType, NextPlain, NextWait, NextGrow
<1>. QED  BY <1>1, <1>2, GrownEnds, PTL DEF ClosureSpec

(***************************************************************************)
(* The order of versions, for versions of any length.                      *)
(***************************************************************************)
Turns == Segments \cup {End}

\* What a comparison meets at a place: a segment of a version, or its end.
LEMMA SegmentKinds ==
  ASSUME NEW a \in Turns
  PROVE  /\ a.val \in Nat
         /\ \/ a = Tilde \/ a = Caret \/ a = End
            \/ a.kind = "digits" \/ a.kind = "letters"
         /\ a = [kind |-> a.kind, val |-> a.val]
BY DEF Turns, Segments, Tilde, Caret, End

\* A turn decides for the side whose segment comes later, and does not decide
\* between equal ones.
LEMMA TurnOrders ==
  ASSUME NEW a \in Turns, NEW b \in Turns, ~(a = End /\ b = End)
  PROVE  /\ turn(a, b) \in {-1, 0, 1}
         /\ turn(a, b) = 1 <=> Before(b, a)
         /\ turn(a, b) = -1 <=> Before(a, b)
         /\ turn(a, b) = 0 <=> a = b
<1>. USE SegmentKinds DEF turn, Before, Class, caret_segment, tilde_segment, run_segment,
         Tilde, Caret, End
<1>1. CASE a = Tilde  BY <1>1
<1>2. CASE a = Caret  BY <1>2
<1>3. CASE a = End  BY <1>3
<1>4. CASE a.kind = "digits"  BY <1>4
<1>5. CASE a.kind = "letters"  BY <1>5
<1>. QED  BY <1>1, <1>2, <1>3, <1>4, <1>5

\* Segments are strictly and totally ordered.
LEMMA BeforeOrder ==
  /\ \A a \in Turns : ~Before(a, a)
  /\ \A a, b \in Turns : Before(a, b) \/ a = b \/ Before(b, a)
  /\ \A a, b, c \in Turns : Before(a, b) /\ Before(b, c) => Before(a, c)
<1>1. \A a \in Turns : Class(a) \in 0..4
  BY SegmentKinds DEF Class, Tilde, Caret, End
<1>2. \A a, b \in Turns : Class(a) = Class(b) => a.kind = b.kind
  BY SegmentKinds DEF Class, Tilde, Caret, End
<1>3. \A a, b \in Turns : a.kind = b.kind /\ a.val = b.val => a = b
  BY SegmentKinds
<1>4. \A a \in Turns : a.val \in Nat  BY SegmentKinds
<1>5. ASSUME NEW a \in Turns, NEW b \in Turns PROVE Before(a, b) \/ a = b \/ Before(b, a)
  BY <1>1, <1>2, <1>3, <1>4 DEF Before
<1>6. ASSUME NEW a \in Turns, NEW b \in Turns, NEW c \in Turns, Before(a, b), Before(b, c)
      PROVE  Before(a, c)
  BY <1>1, <1>4, <1>6 DEF Before
<1>7. \A a \in Turns : ~Before(a, a)  BY <1>1, <1>4 DEF Before
<1>. QED  BY <1>5, <1>6, <1>7

\* Two versions differ at some position of one of them, or are the same.
LEMMA SegmentTypes ==
  ASSUME NEW v \in Seq(Segments), NEW k
  PROVE  Segment(v, k) \in Turns /\ (k \in DOMAIN v <=> Segment(v, k) # End)
<1>1. End \notin Segments  BY DEF End, Segments, Tilde, Caret
<1>2. \A l \in DOMAIN v : v[l] \in Segments  OBVIOUS
<1>. QED  BY <1>1, <1>2 DEF Segment, Turns

Differ(v, x) == {k \in Nat \ {0} : Segment(v, k) # Segment(x, k)}

\* Versions are equal exactly when they agree at every place.
LEMMA SameSegments ==
  ASSUME NEW v \in Seq(Segments), NEW x \in Seq(Segments)
  PROVE  /\ Differ(v, x) = {k \in DOMAIN v \cup DOMAIN x : Segment(v, k) # Segment(x, k)}
         /\ Differ(v, x) \subseteq 1..(Len(v) + Len(x))
         /\ Differ(v, x) = {} => v = x
<1>0. /\ DOMAIN v = 1..Len(v) /\ Len(v) \in Nat
      /\ DOMAIN x = 1..Len(x) /\ Len(x) \in Nat
  OBVIOUS
<1>1. \A k \in Differ(v, x) : k \in DOMAIN v \cup DOMAIN x
  BY DEF Differ, Segment
<1>2. DOMAIN v \cup DOMAIN x \subseteq (Nat \ {0}) \cap (1..(Len(v) + Len(x)))  BY <1>0
<1>3. Differ(v, x) = {k \in DOMAIN v \cup DOMAIN x : Segment(v, k) # Segment(x, k)}
  BY <1>1, <1>2 DEF Differ
<1>4. ASSUME Differ(v, x) = {} PROVE v = x
  <2>1. \A k \in DOMAIN v \cup DOMAIN x : Segment(v, k) = Segment(x, k)  BY <1>3, <1>4
  <2>2. DOMAIN v = DOMAIN x  BY <2>1, SegmentTypes
  <2>3. \A k \in DOMAIN v : v[k] = x[k]  BY <2>1, <2>2 DEF Segment
  <2>4. \A k \in Nat : k \in 1..Len(v) <=> k \in 1..Len(x)  BY <2>2, <1>0
  <2>5. Len(v) \in Nat /\ Len(x) \in Nat  BY <1>0
  <2>. HIDE <1>0
  <2>6. Len(v) = Len(x)
    <3>. DEFINE n == Len(v)
                m == Len(x)
    <3>. HIDE DEF n, m
    <3>1. \A k \in Nat : (1 <= k /\ k <= n) <=> (1 <= k /\ k <= m)
      BY <2>4, <2>5 DEF n, m
    <3>2. n \in Nat /\ m \in Nat  BY <2>5 DEF n, m
    <3>3. n <= m  BY <3>1, <3>2
    <3>4. m <= n  BY <3>1, <3>2
    <3>. QED  BY <3>2, <3>3, <3>4 DEF n, m
  <2>. QED  BY <2>2, <2>3, <2>6
<1>. QED  BY <1>1, <1>2, <1>3, <1>4

\* Of two versions that differ, the first difference says which is older.
LEMMA OlderAt ==
  ASSUME NEW v \in Seq(Segments), NEW x \in Seq(Segments), NEW k \in Nat \ {0},
         Segment(v, k) # Segment(x, k), \A l \in 1..(k - 1) : Segment(v, l) = Segment(x, l)
  PROVE  Older(v, x) <=> Before(Segment(v, k), Segment(x, k))
<1>1. k \in 1..(Len(v) + Len(x))  BY SameSegments DEF Differ
<1>2. ASSUME NEW j \in 1..(Len(v) + Len(x)), Before(Segment(v, j), Segment(x, j)),
             \A l \in 1..(j - 1) : Segment(v, l) = Segment(x, l)
      PROVE  j = k
  <2>1. Segment(v, j) # Segment(x, j)  BY <1>2, BeforeOrder, SegmentTypes
  <2>. QED  BY <2>1, <1>2
<1>. QED  BY <1>1, <1>2 DEF Older

\* Two different versions have a first place where they differ.
LEMMA FirstDifference ==
  ASSUME NEW v \in Seq(Segments), NEW x \in Seq(Segments), v # x
  PROVE  \E k \in Nat \ {0} : /\ Segment(v, k) # Segment(x, k)
                              /\ \A l \in 1..(k - 1) : Segment(v, l) = Segment(x, l)
<1>. DEFINE D == Differ(v, x)
<1>1. D # {} /\ D \in SUBSET Nat  BY SameSegments DEF Differ
<1>2. PICK k \in D : \A l \in D : k <= l  BY <1>1, LeastOf
<1>3. k \in Nat \ {0} /\ Segment(v, k) # Segment(x, k)  BY <1>2 DEF Differ
<1>4. ASSUME NEW l \in 1..(k - 1) PROVE Segment(v, l) = Segment(x, l)
  <2>1. l \in Nat \ {0} /\ ~(k <= l)  BY <1>3
  <2>. QED  BY <2>1, <1>2 DEF Differ
<1>. QED  BY <1>3, <1>4

\* Versions are strictly and totally ordered.
LEMMA OlderOrder ==
  /\ \A v \in Seq(Segments) : ~Older(v, v)
  /\ \A v, x \in Seq(Segments) : Older(v, x) \/ v = x \/ Older(x, v)
  /\ \A v, x, y \in Seq(Segments) : Older(v, x) /\ Older(x, y) => Older(v, y)
<1>1. ASSUME NEW v \in Seq(Segments) PROVE ~Older(v, v)
  BY BeforeOrder, SegmentTypes DEF Older
<1>2. ASSUME NEW v \in Seq(Segments), NEW x \in Seq(Segments)
      PROVE  Older(v, x) \/ v = x \/ Older(x, v)
  <2>1. CASE v # x
    <3>1. PICK k \in Nat \ {0} : /\ Segment(v, k) # Segment(x, k)
                                 /\ \A l \in 1..(k - 1) : Segment(v, l) = Segment(x, l)
      BY <2>1, FirstDifference
    <3>2. \/ Before(Segment(v, k), Segment(x, k)) \/ Before(Segment(x, k), Segment(v, k))
      BY <3>1, BeforeOrder, SegmentTypes
    <3>3. Older(v, x) <=> Before(Segment(v, k), Segment(x, k))  BY <3>1, OlderAt
    <3>4. Older(x, v) <=> Before(Segment(x, k), Segment(v, k))  BY <3>1, OlderAt
    <3>. QED  BY <3>2, <3>3, <3>4
  <2>. QED  BY <2>1
<1>3. ASSUME NEW v \in Seq(Segments), NEW x \in Seq(Segments), NEW y \in Seq(Segments),
             Older(v, x), Older(x, y)
      PROVE  Older(v, y)
  <2>1. PICK k \in 1..(Len(v) + Len(x)) :
          /\ Before(Segment(v, k), Segment(x, k))
          /\ \A l \in 1..(k - 1) : Segment(v, l) = Segment(x, l)
    BY <1>3 DEF Older
  <2>2. PICK j \in 1..(Len(x) + Len(y)) :
          /\ Before(Segment(x, j), Segment(y, j))
          /\ \A l \in 1..(j - 1) : Segment(x, l) = Segment(y, l)
    BY <1>3 DEF Older
  <2>0. Len(v) \in Nat /\ Len(x) \in Nat /\ Len(y) \in Nat  OBVIOUS
  <2>t. \A l : /\ Segment(v, l) \in Turns /\ Segment(x, l) \in Turns
               /\ Segment(y, l) \in Turns
    BY SegmentTypes
  <2>. DEFINE m == IF k <= j THEN k ELSE j
  <2>3. m \in Nat \ {0} /\ m <= k /\ m <= j  BY <2>0
  <2>4. \A l \in 1..(m - 1) : Segment(v, l) = Segment(y, l)  BY <2>1, <2>2, <2>3, <2>0
  <2>5. Before(Segment(v, m), Segment(y, m))
    <3>1. CASE k < j
      <4>1. Segment(x, k) = Segment(y, k)  BY <3>1, <2>2, <2>0
      <4>. QED  BY <4>1, <3>1, <2>1, <2>0
    <3>2. CASE k = j
      BY <3>2, <2>1, <2>2, <2>t, BeforeOrder, <2>0
    <3>3. CASE j < k
      <4>1. Segment(v, j) = Segment(x, j)  BY <3>3, <2>1, <2>0
      <4>2. m = j  BY <3>3, <2>0
      <4>. QED  BY <4>1, <4>2, <2>2
    <3>. QED  BY <3>1, <3>2, <3>3, <2>0
  <2>6. Segment(v, m) # Segment(y, m)  BY <2>5, <2>t, BeforeOrder
  <2>. QED  BY <2>3, <2>4, <2>5, <2>6, OlderAt
<1>. QED  BY <1>1, <1>2, <1>3

\* For versions of any length, rpmvercmp of solve.py answers 1 exactly for the
\* newer of two in the order of Older (the first segment that differs decides,
\* with ~ before the end and ^ after it), and 0 exactly for equal versions.
THEOREM VersionsCompared ==
  ASSUME NEW v \in Seq(Segments), NEW x \in Seq(Segments)
  PROVE  /\ rpmvercmp(v, x) \in {-1, 0, 1}
         /\ rpmvercmp(v, x) = 1 <=> Older(x, v)
         /\ rpmvercmp(v, x) = 0 <=> v = x
<1>. DEFINE deciding == {k \in DOMAIN v \cup DOMAIN x :
                           turn(Segment(v, k), Segment(x, k)) # 0}
            first == CHOOSE k \in deciding : \A l \in deciding : k <= l
<1>t. \A k : Segment(v, k) \in Turns /\ Segment(x, k) \in Turns  BY SegmentTypes
<1>e. \A k \in DOMAIN v \cup DOMAIN x : ~(Segment(v, k) = End /\ Segment(x, k) = End)
  BY SegmentTypes
<1>1. deciding = Differ(v, x)
  <2>1. \A k \in DOMAIN v \cup DOMAIN x :
          turn(Segment(v, k), Segment(x, k)) # 0 <=> Segment(v, k) # Segment(x, k)
    BY <1>t, <1>e, TurnOrders
  <2>. QED  BY <2>1, SameSegments
<1>2. rpmvercmp(v, x) = IF deciding = {} THEN 0
                        ELSE turn(Segment(v, first), Segment(x, first))
  BY DEF rpmvercmp
<1>3. CASE deciding = {}
  <2>1. v = x  BY <1>3, <1>1, SameSegments
  <2>. QED  BY <2>1, <1>2, <1>3, OlderOrder
<1>4. CASE deciding # {}
  <2>0. deciding \in SUBSET Nat  BY <1>1 DEF Differ
  <2>1. first \in deciding /\ \A l \in deciding : first <= l  BY <1>4, <2>0, LeastOf
  <2>. HIDE DEF deciding, first
  <2>2. first \in Nat \ {0} /\ Segment(v, first) # Segment(x, first)
    BY <2>1, <1>1 DEF Differ
  <2>3. ASSUME NEW l \in 1..(first - 1) PROVE Segment(v, l) = Segment(x, l)
    <3>1. l \in Nat \ {0} /\ ~(first <= l)  BY <2>2
    <3>. QED  BY <3>1, <2>1, <1>1 DEF Differ
  <2>4. Older(x, v) <=> Before(Segment(x, first), Segment(v, first))
    BY <2>2, <2>3, OlderAt
  <2>5. v # x  BY <2>2
  <2>6. ~(Segment(v, first) = End /\ Segment(x, first) = End)  BY <2>2
  <2>. QED  BY <2>2, <2>4, <2>5, <2>6, <1>t, <1>2, <1>4, TurnOrders
<1>. QED  BY <1>3, <1>4

\* The epoch, version and release that compare_evr weighs are strictly and
\* totally ordered: "the newest build of a package" is one build, whatever the
\* order the entries of a primary.xml are read in.
THEOREM EvrOrder ==
  /\ \A a \in Triples : ~OlderEvr(a, a)
  /\ \A a, b \in Triples : OlderEvr(a, b) \/ a = b \/ OlderEvr(b, a)
  /\ \A a, b, c \in Triples : OlderEvr(a, b) /\ OlderEvr(b, c) => OlderEvr(a, c)
<1>0. \A a \in Triples : /\ a.epoch \in Nat /\ a.version \in Seq(Segments)
                         /\ a.release \in Seq(Segments)
                         /\ a = [epoch |-> a.epoch, version |-> a.version, release |-> a.release]
  BY DEF Triples
<1>1. \A a \in Triples : ~OlderEvr(a, a)  BY <1>0, OlderOrder DEF OlderEvr
<1>2. ASSUME NEW a \in Triples, NEW b \in Triples
      PROVE  OlderEvr(a, b) \/ a = b \/ OlderEvr(b, a)
  <2>1. a.epoch < b.epoch \/ a.epoch = b.epoch \/ b.epoch < a.epoch  BY <1>0
  <2>2. \/ Older(a.version, b.version) \/ a.version = b.version
        \/ Older(b.version, a.version)
    BY <1>0, OlderOrder
  <2>3. \/ Older(a.release, b.release) \/ a.release = b.release
        \/ Older(b.release, a.release)
    BY <1>0, OlderOrder
  <2>4. a.epoch = b.epoch /\ a.version = b.version /\ a.release = b.release => a = b
    BY <1>0, Zenon
  <2>. QED  BY <2>1, <2>2, <2>3, <2>4 DEF OlderEvr
<1>3. ASSUME NEW a \in Triples, NEW b \in Triples, NEW c \in Triples,
             OlderEvr(a, b), OlderEvr(b, c)
      PROVE  OlderEvr(a, c)
  <2>1. /\ Older(a.version, b.version) /\ Older(b.version, c.version)
             => Older(a.version, c.version)
        /\ Older(a.release, b.release) /\ Older(b.release, c.release)
             => Older(a.release, c.release)
    BY <1>0, OlderOrder
  <2>. QED  BY <1>0, <1>3, <2>1 DEF OlderEvr
<1>. QED  BY <1>1, <1>2, <1>3

\* package_is_newer, by compare_evr, is that order turned round.
LEMMA NewerIsNewer ==
  ASSUME NEW p, NEW q, p.evr \in Triples, q.evr \in Triples
  PROVE  package_is_newer(p, q) <=> OlderEvr(q.evr, p.evr)
<1>. DEFINE a == p.evr
            b == q.evr
<1>0. /\ a.epoch \in Nat /\ a.version \in Seq(Segments) /\ a.release \in Seq(Segments)
      /\ b.epoch \in Nat /\ b.version \in Seq(Segments) /\ b.release \in Seq(Segments)
  BY DEF Triples
<1>. HIDE DEF a, b
<1>1. /\ rpmvercmp(a.version, b.version) \in {-1, 0, 1}
      /\ rpmvercmp(a.version, b.version) = 1 <=> Older(b.version, a.version)
      /\ rpmvercmp(a.version, b.version) = 0 <=> a.version = b.version
      /\ rpmvercmp(a.release, b.release) \in {-1, 0, 1}
      /\ rpmvercmp(a.release, b.release) = 1 <=> Older(b.release, a.release)
  BY <1>0, VersionsCompared
<1>2. a.version = b.version => ~Older(b.version, a.version)  BY <1>0, OlderOrder
<1>3. compare_evr(a, b) > 0 <=> OlderEvr(b, a)
  BY <1>0, <1>1, <1>2 DEF compare_evr, OlderEvr
<1>. QED  BY <1>3 DEF package_is_newer, a, b

(***************************************************************************)
(* merge_packages: what an index keeps of the builds it was shown.         *)
(***************************************************************************)
Typed(S) == \A p \in S : p.evr \in Triples

Newest(index, S) ==
  /\ DOMAIN index = {Key(p) : p \in S}
  /\ \A k \in DOMAIN index : index[k] \in S /\ Key(index[k]) = k
  /\ \A p \in S : ~OlderEvr(index[Key(p)].evr, p.evr)

\* An empty index is right about no build at all.
LEMMA NothingNewest == Newest(Nobody, {})
BY DEF Newest, Nobody

\* Considering one more build, in any order, keeps the newest of each key:
\* the `packages` loop of merge_packages.
LEMMA ConsiderKeeps ==
  ASSUME NEW index, NEW S, NEW p, Typed(S), p.evr \in Triples, Newest(index, S)
  PROVE  Newest(Consider(index, p), S \cup {p})
<1>. DEFINE after == Consider(index, p)
            k == Key(p)
<1>0. /\ DOMAIN index = {Key(q) : q \in S}
      /\ \A j \in DOMAIN index : index[j] \in S /\ Key(index[j]) = j
      /\ \A q \in S : Key(q) \in DOMAIN index /\ ~OlderEvr(index[Key(q)].evr, q.evr)
  BY DEF Newest
<1>t. \A q \in S : q.evr \in Triples  BY DEF Typed
<1>n. k \in DOMAIN index =>
        (package_is_newer(p, index[k]) <=> OlderEvr(index[k].evr, p.evr))
  BY <1>0, <1>t, NewerIsNewer
<1>1. CASE k \notin DOMAIN index \/ package_is_newer(p, index[k])
  <2>1. after = Put(index, p)  BY <1>1 DEF Consider
  <2>2. /\ DOMAIN after = DOMAIN index \cup {k}
        /\ \A j \in DOMAIN after : after[j] = IF j = k THEN p ELSE index[j]
    BY <2>1 DEF Put
  <2>3. ~OlderEvr(p.evr, p.evr)  BY EvrOrder
  <2>4. ASSUME NEW q \in S PROVE ~OlderEvr(after[Key(q)].evr, q.evr)
    <3>1. CASE Key(q) # k  BY <3>1, <2>2, <1>0
    <3>2. CASE Key(q) = k
      <4>1. OlderEvr(index[k].evr, p.evr)  BY <3>2, <1>0, <1>1, <1>n
      <4>2. /\ index[k].evr \in Triples /\ q.evr \in Triples
            /\ ~OlderEvr(index[k].evr, q.evr)
        BY <3>2, <1>0, <1>t
      <4>3. ~OlderEvr(p.evr, q.evr)  BY <4>1, <4>2, EvrOrder
      <4>. QED  BY <4>3, <3>2, <2>2
    <3>. QED  BY <3>1, <3>2
  <2>5. \A j \in DOMAIN after : after[j] \in S \cup {p} /\ Key(after[j]) = j
    BY <1>0, <2>2
  <2>6. DOMAIN after = {Key(q) : q \in S \cup {p}}  BY <1>0, <2>2
  <2>7. \A q \in S \cup {p} : ~OlderEvr(after[Key(q)].evr, q.evr)  BY <2>2, <2>3, <2>4
  <2>. QED  BY <2>5, <2>6, <2>7 DEF Newest
<1>2. CASE k \in DOMAIN index /\ ~package_is_newer(p, index[k])
  <2>1. after = index  BY <1>2 DEF Consider
  <2>2. ~OlderEvr(index[k].evr, p.evr)  BY <1>2, <1>n
  <2>3. DOMAIN after = {Key(q) : q \in S \cup {p}}  BY <1>0, <1>2, <2>1
  <2>4. \A q \in S \cup {p} : ~OlderEvr(after[Key(q)].evr, q.evr)  BY <1>0, <2>1, <2>2
  <2>5. \A j \in DOMAIN after : after[j] \in S \cup {p} /\ Key(after[j]) = j
    BY <1>0, <2>1
  <2>. QED  BY <2>3, <2>4, <2>5 DEF Newest
<1>. QED  BY <1>1, <1>2

\* Laying one repository's index over another's keeps the newest of both.
LEMMA LayerKeeps ==
  ASSUME NEW below, NEW S, NEW above, NEW T, Typed(S), Typed(T),
         Newest(below, S), Newest(above, T)
  PROVE  Newest(Layer(below, above), S \cup T)
<1>. DEFINE after == Layer(below, above)
<1>s. /\ DOMAIN below = {Key(q) : q \in S}
      /\ \A j \in DOMAIN below : below[j] \in S /\ Key(below[j]) = j
      /\ \A q \in S : Key(q) \in DOMAIN below /\ ~OlderEvr(below[Key(q)].evr, q.evr)
  BY DEF Newest
<1>t. /\ DOMAIN above = {Key(q) : q \in T}
      /\ \A j \in DOMAIN above : above[j] \in T /\ Key(above[j]) = j
      /\ \A q \in T : Key(q) \in DOMAIN above /\ ~OlderEvr(above[Key(q)].evr, q.evr)
  BY DEF Newest
<1>y. \A q \in S \cup T : q.evr \in Triples  BY DEF Typed
<1>1. /\ DOMAIN after = DOMAIN below \cup DOMAIN above
      /\ \A j \in DOMAIN after :
           after[j] = IF j \notin DOMAIN above THEN below[j]
                      ELSE IF j \notin DOMAIN below \/ package_is_newer(above[j], below[j])
                      THEN above[j] ELSE below[j]
  BY DEF Layer
<1>n. \A j \in DOMAIN below \cap DOMAIN above :
        package_is_newer(above[j], below[j]) <=> OlderEvr(below[j].evr, above[j].evr)
  BY <1>s, <1>t, <1>y, NewerIsNewer
<1>. HIDE DEF after
<1>2. \A j \in DOMAIN after : after[j] \in S \cup T /\ Key(after[j]) = j
  BY <1>1, <1>s, <1>t
<1>3. ASSUME NEW q \in S \cup T PROVE ~OlderEvr(after[Key(q)].evr, q.evr)
  <2>. DEFINE k == Key(q)
  <2>0. k \in DOMAIN below \cup DOMAIN above  BY <1>s, <1>t
  <2>1. CASE k \notin DOMAIN above
    BY <2>0, <2>1, <1>1, <1>s, <1>t
  <2>2. CASE k \notin DOMAIN below
    BY <2>0, <2>2, <1>1, <1>s, <1>t
  <2>3. CASE k \in DOMAIN below \cap DOMAIN above
    <3>1. below[k].evr \in Triples /\ above[k].evr \in Triples /\ q.evr \in Triples
      BY <2>3, <1>s, <1>t, <1>y
    <3>2. \/ ~OlderEvr(below[k].evr, q.evr)
          \/ ~OlderEvr(above[k].evr, q.evr)
      BY <1>s, <1>t
    <3>3. /\ OlderEvr(below[k].evr, above[k].evr) => after[k] = above[k]
          /\ ~OlderEvr(below[k].evr, above[k].evr) => after[k] = below[k]
      BY <2>3, <1>1, <1>n
    <3>. QED  BY <3>1, <3>2, <3>3, EvrOrder
  <2>. QED  BY <2>0, <2>1, <2>2, <2>3
<1>4. DOMAIN after = {Key(q) : q \in S \cup T}  BY <1>1, <1>s, <1>t
<1>. QED  BY <1>2, <1>3, <1>4 DEF Newest, after

(***************************************************************************)
(* The refresh and the merge.                                              *)
(***************************************************************************)
RunPhases == {"idle", "sync", "compare", "fetch", "write", "stale", "arguments", "open",
              "read", "combine", "producers", "images", "sources", "solve", "again"}
RunType == [phase : RunPhases, offline : BOOLEAN, pass : Nat, at : DOMAIN Repos,
            want : Nat, faults : Nat]

Fetching   == run.phase \in {"compare", "fetch", "write", "stale"}
Refreshing == At("sync") \/ Fetching
Settling   == run.phase \in {"arguments", "open", "read"} \/ Merged

\* While the directories are refreshed, in whatever order upstream pushes and
\* the tool is killed: a whole file is a snapshot upstream served, what is
\* being fetched is one, and a repository passed over may be left out.
RefreshInv ==
  /\ world \in Worlds /\ run \in RunType
  /\ serving \in [DOMAIN Repos -> Nat \ {0}]
  /\ cache \in [DOMAIN Repos -> SUBSET ((Nat \ {0}) \X BOOLEAN)]
  /\ paths \in [DOMAIN Repos -> Nat]
  /\ \A i \in DOMAIN Repos : \A f \in cache[i] :
       f[2] => f[1] <= serving[i] /\ f[1] \in Snapshots(Repos[i])
  /\ Fetching => /\ run.want # 0 /\ run.want <= serving[run.at]
                 /\ run.want \in Snapshots(Here)
  /\ At("stale") => <<run.want, TRUE>> \in cache[run.at]
  /\ At("arguments") \/ At("again") => run.at = 1
  /\ \A i \in DOMAIN Repos :
       (Settling \/ (Refreshing /\ i < run.at)) /\ paths[i] = 0 => Repos[i] \in Optional

\* The repositories read so far, and their entries of a kind.
ReadSoFar == IF Merged THEN DOMAIN Repos
             ELSE IF run.phase \in {"open", "read"} THEN {i \in DOMAIN Repos : i < run.at}
             ELSE {}
Entries(kind, R) ==
  UNION {Builds(Repos[i], paths[i]) : i \in {j \in R : RepoKind[Repos[j]] = kind /\ paths[j] # 0}}

\* What is merged is the newest of each package in the whole files read so
\* far, and `best` the newest in the current one so far.
MergeInv ==
  /\ ~At("idle") => \A kind \in Kinds : Newest(merged[kind], Entries(kind, ReadSoFar))
  /\ \A i \in ReadSoFar : paths[i] # 0 => <<paths[i], TRUE>> \in cache[i]
  /\ At("read") => /\ paths[run.at] # 0 /\ <<paths[run.at], TRUE>> \in cache[run.at]
                   /\ unread \subseteq Builds(Here, paths[run.at])
                   /\ Newest(best, Builds(Here, paths[run.at]) \ unread)
  /\ DOMAIN merged = Kinds

\* The repositories are numbered from one and each is of a known kind.
LEMMA ReposFacts ==
  /\ DOMAIN Repos = 1..Len(Repos) /\ Len(Repos) \in Nat \ {0} /\ 1 \in DOMAIN Repos
  /\ \A i \in DOMAIN Repos : RepoKind[Repos[i]] \in Kinds
<1>1. Repos # <<>> /\ Repos \in Seq(DOMAIN RepoKind)  BY WorldAssumption
<1>2. DOMAIN Repos = 1..Len(Repos) /\ Len(Repos) \in Nat \ {0}  BY <1>1
<1>. QED  BY <1>2, ReposAssumption

\* What a world says of the repositories, at its own level.
LEMMA WorldFacts ==
  ASSUME world \in Worlds, NEW i \in DOMAIN Repos
  PROVE  /\ Snapshots(Repos[i]) \subseteq Nat \ {0}
         /\ \A s \in Snapshots(Repos[i]) :
              /\ IsFiniteSet(Builds(Repos[i], s))
              /\ \A p \in Builds(Repos[i], s) :
                   /\ p.evr \in Triples /\ p.repo = Repos[i]
                   /\ \E k \in DOMAIN Arches : Arches[k] = p.arch
                   /\ p.src # NoSource /\ \A v \in world.variants : v.name # p.src
                   /\ p.requires \subseteq Caps
BY WorldAssumption, ReposAssumption DEF Snapshots, Builds

\* The records the steps make of `run` are of its type.
LEMMA RunMoves ==
  ASSUME run \in RunType
  PROVE  /\ \A ph \in RunPhases :
              /\ GoTo(ph) \in RunType /\ GoTo(ph).phase = ph
              /\ GoTo(ph).at = run.at /\ GoTo(ph).want = run.want
         /\ Idle \in RunType /\ Idle.phase = "idle"
         /\ \/ /\ run.at < Len(Repos) /\ Next_repo.phase = "sync"
               /\ Next_repo.at = run.at + 1
            \/ run.at = Len(Repos) /\ Next_repo.phase = "arguments" /\ Next_repo.at = 1
         /\ Next_repo \in RunType
         /\ \/ /\ run.at < Len(Repos) /\ NextToRead.phase = "open"
               /\ NextToRead.at = run.at + 1
            \/ /\ run.at = Len(Repos) /\ NextToRead.phase = "combine"
               /\ NextToRead.at = run.at
         /\ NextToRead \in RunType
         /\ run.at \in DOMAIN Repos /\ run.at \in Nat
<1>1. /\ DOMAIN Repos = 1..Len(Repos) /\ Len(Repos) \in Nat /\ 1 \in DOMAIN Repos
  BY ReposFacts
<1>2. run.at \in DOMAIN Repos /\ run.at \in Nat /\ run.at <= Len(Repos)
  BY <1>1 DEF RunType
<1>3. ASSUME NEW ph \in RunPhases
      PROVE  /\ GoTo(ph) \in RunType /\ GoTo(ph).phase = ph
             /\ GoTo(ph).at = run.at /\ GoTo(ph).want = run.want
  BY DEF GoTo, RunType
<1>4. Idle \in RunType /\ Idle.phase = "idle"  BY DEF Idle, RunType, RunPhases
<1>5. CASE run.at < Len(Repos)
  <2>1. run.at + 1 \in DOMAIN Repos  BY <1>1, <1>2, <1>5
  <2>2. Next_repo \in RunType /\ Next_repo.phase = "sync" /\ Next_repo.at = run.at + 1
    BY <2>1, <1>5 DEF Next_repo, RunType, RunPhases
  <2>3. NextToRead \in RunType /\ NextToRead.phase = "open" /\ NextToRead.at = run.at + 1
    BY <2>1, <1>5 DEF NextToRead, RunType, RunPhases
  <2>. QED  BY <2>2, <2>3, <1>2, <1>3, <1>4, <1>5
<1>6. CASE run.at = Len(Repos)
  <2>0. ~(run.at < Len(Repos))  BY <1>6, <1>1
  <2>2. Next_repo \in RunType /\ Next_repo.phase = "arguments" /\ Next_repo.at = 1
    BY <2>0, <1>1 DEF Next_repo, RunType, RunPhases
  <2>3. NextToRead \in RunType /\ NextToRead.phase = "combine" /\ NextToRead.at = run.at
    BY <2>0, <1>3 DEF NextToRead, RunPhases
  <2>. QED  BY <2>2, <2>3, <1>2, <1>3, <1>4, <1>6
<1>. QED  BY <1>1, <1>2, <1>5, <1>6

-----------------------------------------------------------------------------
(* RefreshInv, where a step leads. *)

\* It holds before the first run.
LEMMA InitRefresh == Init => RefreshInv
<1>. SUFFICES ASSUME Init PROVE RefreshInv  OBVIOUS
<1>1. world \in Worlds  BY DEF Init
<1>2. run \in RunType
  BY <1>1, ReposFacts, WorldAssumption DEF Init, RunType, RunPhases
<1>3. cache \in [DOMAIN Repos -> SUBSET ((Nat \ {0}) \X BOOLEAN)]
  BY <1>1, WorldAssumption DEF Init
<1>4. \A i \in DOMAIN Repos : \A f \in cache[i] :
        f[2] => f[1] <= serving[i] /\ f[1] \in Snapshots(Repos[i])
  BY <1>1, WorldAssumption DEF Init, Snapshots
<1>. QED
  BY <1>1, <1>2, <1>3, <1>4
     DEF Init, RefreshInv, NoPaths, Fetching, Refreshing, Settling, Merged, At

\* Nothing but the phase moves: most steps of the solve.
LEMMA RefreshStays ==
  ASSUME RefreshInv, UNCHANGED <<world, serving, cache, paths>>, run' \in RunType,
         Settling \/ ~(Settling' \/ Refreshing'), ~Refreshing',
         run'.phase \in {"arguments", "again"} => run'.at = 1
  PROVE  RefreshInv'
BY DEF RefreshInv, Refreshing, Fetching, At, Snapshots, Here

\* The repository is done with: it has a path, or may be left out.
LEMMA RefreshMovesOn ==
  ASSUME RefreshInv, UNCHANGED <<world, serving, cache>>, Refreshing,
         paths' \in [DOMAIN Repos -> Nat],
         \A i \in DOMAIN Repos : i # run.at => paths'[i] = paths[i],
         paths'[run.at] = 0 => Here \in Optional,
         run' \in RunType, run'.phase = Next_repo.phase, run'.at = Next_repo.at
  PROVE  RefreshInv'
<1>0. run \in RunType /\ world \in Worlds  BY DEF RefreshInv
<1>1. /\ ~Fetching' /\ ~At("stale")' /\ (At("arguments") \/ At("again") => run.at = 1)'
  BY <1>0, RunMoves DEF Fetching, At
<1>2. ASSUME NEW i \in DOMAIN Repos, Settling' \/ (Refreshing' /\ i < run'.at), paths'[i] = 0
      PROVE  Repos[i] \in Optional
  <2>1. i <= run.at
    <3>1. DOMAIN Repos = 1..Len(Repos) /\ Len(Repos) \in Nat  BY ReposFacts
    <3>. QED  BY <1>0, <1>2, <3>1, RunMoves DEF Settling, Refreshing, Fetching, At, Merged
  <2>2. CASE i = run.at  BY <2>2, <1>2 DEF Here
  <2>3. CASE i # run.at
    <3>1. i < run.at  BY <2>1, <2>3, <1>0, RunMoves, ReposFacts
    <3>. QED  BY <3>1, <2>3, <1>2 DEF RefreshInv
  <2>. QED  BY <2>2, <2>3
<1>. QED  BY <1>1, <1>2 DEF RefreshInv, Snapshots

\* Only the phase and what is wanted move within a repository.
LEMMA RefreshGoesOn ==
  ASSUME RefreshInv, UNCHANGED <<world, serving, paths>>, Refreshing,
         run' \in RunType, run'.at = run.at,
         cache' \in [DOMAIN Repos -> SUBSET ((Nat \ {0}) \X BOOLEAN)],
         \A i \in DOMAIN Repos : \A f \in cache'[i] :
           f[2] => f[1] <= serving[i] /\ f[1] \in Snapshots(Repos[i]),
         Fetching',
         run'.want # 0 /\ run'.want <= serving[run.at] /\ run'.want \in Snapshots(Here),
         run'.phase = "stale" => <<run'.want, TRUE>> \in cache'[run.at]
  PROVE  RefreshInv'
BY DEF RefreshInv, Refreshing, Fetching, At, Snapshots, Here, Settling, Merged

\* A run that ends leaves the files and what upstream serves.
LEMMA RefreshIdles ==
  ASSUME RefreshInv, UNCHANGED <<world, serving, cache>>, run' \in RunType,
         run'.phase = "idle", paths' \in [DOMAIN Repos -> Nat]
  PROVE  RefreshInv'
BY DEF RefreshInv, Refreshing, Fetching, At, Snapshots, Here, Settling, Merged

\* A run starts at the first repository, with no path taken.
LEMMA StartRefresh ==
  ASSUME RefreshInv, NEW offline \in BOOLEAN, Start(offline) PROVE RefreshInv'
<1>1. run \in RunType  BY DEF RefreshInv
<1>2. run' \in RunType /\ run'.phase = "sync" /\ run'.at = 1
  BY <1>1, ReposFacts DEF Start, RunType, RunPhases
<1>3. paths' \in [DOMAIN Repos -> Nat]  BY DEF Start, NoPaths
<1>4. \A i \in DOMAIN Repos : ~(i < 1)  BY ReposFacts
<1>. QED
  BY <1>2, <1>3, <1>4
     DEF RefreshInv, Start, syncVars, Refreshing, Fetching, Settling, Merged, At, Snapshots

\* What repomd.xml names is a snapshot upstream has served.
LEMMA ReadRepomdRefresh == RefreshInv /\ ReadRepomd => RefreshInv'
<1>. SUFFICES ASSUME RefreshInv, ReadRepomd PROVE RefreshInv'  OBVIOUS
<1>0. /\ run \in RunType /\ world \in Worlds /\ run.at \in DOMAIN Repos
      /\ serving \in [DOMAIN Repos -> Nat \ {0}] /\ paths \in [DOMAIN Repos -> Nat]
  BY RunMoves DEF RefreshInv
<1>u. UNCHANGED <<world, serving, cache, paths>> /\ Refreshing
  BY DEF ReadRepomd, syncVars, Refreshing
<1>1. CASE /\ serving[run.at] \in Snapshots(Here)
           /\ run' = [run EXCEPT !.phase = "compare", !.want = serving[run.at]]
  <2>1. /\ run' \in RunType /\ run'.phase = "compare" /\ run'.at = run.at
        /\ run'.want = serving[run.at] /\ serving[run.at] \in Nat \ {0}
    BY <1>0, <1>1 DEF RunType, RunPhases
  <2>2. /\ cache' \in [DOMAIN Repos -> SUBSET ((Nat \ {0}) \X BOOLEAN)]
        /\ \A i \in DOMAIN Repos : \A f \in cache'[i] :
             f[2] => f[1] <= serving[i] /\ f[1] \in Snapshots(Repos[i])
        /\ run'.want <= serving[run.at]
    BY <2>1, <1>u DEF RefreshInv
  <2>. QED  BY <1>1, <1>u, <2>1, <2>2, RefreshGoesOn DEF Fetching
<1>2. CASE run'.phase = "idle" /\ run' \in RunType
  BY <1>0, <1>2, <1>u, RefreshIdles
<1>3. CASE /\ run' \in RunType /\ run'.phase = Next_repo.phase /\ run'.at = Next_repo.at
           /\ Here \in Optional
  BY <1>0, <1>3, <1>u, RefreshMovesOn
<1>4. \/ /\ serving[run.at] \in Snapshots(Here)
         /\ run' = [run EXCEPT !.phase = "compare", !.want = serving[run.at]]
      \/ run'.phase = "idle" /\ run' \in RunType
      \/ /\ run' \in RunType /\ run'.phase = Next_repo.phase /\ run'.at = Next_repo.at
         /\ Here \in Optional
  <2>1. Idle \in RunType /\ Idle.phase = "idle" /\ Next_repo \in RunType
    BY <1>0, RunMoves
  <2>2. CASE serving[run.at] \notin Snapshots(Here) /\ LeaveOut
    BY <2>1, <2>2 DEF LeaveOut
  <2>3. CASE Fault /\ Here \in Optional /\ run' = [Next_repo EXCEPT !.faults = run.faults - 1]
    <3>1. run.faults - 1 \in Nat  BY <1>0, <2>3 DEF Fault, RunType
    <3>. QED  BY <2>1, <2>3, <3>1 DEF RunType
  <2>4. CASE Fault /\ run' = [Idle EXCEPT !.faults = run.faults - 1]
    <3>1. run.faults - 1 \in Nat  BY <1>0, <2>4 DEF Fault, RunType
    <3>. QED  BY <2>1, <2>4, <3>1 DEF RunType
  <2>. QED  BY <2>2, <2>3, <2>4 DEF ReadRepomd
<1>. QED  BY <1>1, <1>2, <1>3, <1>4

\* Taking a snapshot, whichever file says so.
LEMMA TakeRefresh ==
  ASSUME RefreshInv, UNCHANGED <<world, serving, cache>>, Refreshing,
         NEW s \in Nat \ {0}, Take(s)
  PROVE  RefreshInv'
<1>0. run \in RunType /\ paths \in [DOMAIN Repos -> Nat] /\ run.at \in DOMAIN Repos
  BY RunMoves DEF RefreshInv
<1>1. /\ paths' \in [DOMAIN Repos -> Nat] /\ paths'[run.at] = s
      /\ \A i \in DOMAIN Repos : i # run.at => paths'[i] = paths[i]
  BY <1>0 DEF Take
<1>2. run' = Next_repo /\ run' \in RunType  BY <1>0, RunMoves DEF Take
<1>. QED  BY <1>1, <1>2, RefreshMovesOn

\* A whole file that matches is what upstream was seen to serve.
LEMMA CompareRefresh == RefreshInv /\ Compare => RefreshInv'
<1>. SUFFICES ASSUME RefreshInv, Compare PROVE RefreshInv'  OBVIOUS
<1>0. run \in RunType /\ Fetching /\ Refreshing /\ run.want \in Nat \ {0}
  BY DEF RefreshInv, Compare, At, Fetching, Refreshing, RunType
<1>u. UNCHANGED <<world, serving, cache>>  BY DEF Compare, syncVars
<1>1. CASE Take(run.want)  BY <1>0, <1>1, <1>u, TakeRefresh
<1>2. CASE run' = GoTo("fetch") /\ UNCHANGED paths
  <2>1. /\ run' \in RunType /\ run'.phase = "fetch" /\ run'.at = run.at
        /\ run'.want = run.want
    BY <1>0, <1>2, RunMoves DEF RunPhases
  <2>. QED  BY <1>0, <1>2, <1>u, <2>1 DEF RefreshInv, Fetching, Refreshing, At, Snapshots,
                                           Here, Settling, Merged
<1>. QED  BY <1>1, <1>2 DEF Compare

\* A fetch brings the wanted snapshot, or the run stops, or it passes over
\* an optional repository.
LEMMA FetchRefresh == RefreshInv /\ Fetch => RefreshInv'
<1>. SUFFICES ASSUME RefreshInv, Fetch PROVE RefreshInv'  OBVIOUS
<1>0. /\ run \in RunType /\ Fetching /\ Refreshing /\ run.at \in DOMAIN Repos
      /\ run.want \in Nat \ {0} /\ run.want <= serving[run.at] /\ run.want \in Snapshots(Here)
      /\ cache \in [DOMAIN Repos -> SUBSET ((Nat \ {0}) \X BOOLEAN)]
  BY RunMoves DEF RefreshInv, Fetch, At, Fetching, Refreshing, RunType
<1>u. UNCHANGED <<world, serving, paths>>  BY DEF Fetch
<1>1. CASE /\ cache' = [cache EXCEPT ![run.at] = Others(run.want) \cup {<<run.want, FALSE>>}]
           /\ run' = GoTo("write")
  <2>1. /\ run' \in RunType /\ run'.phase = "write" /\ run'.at = run.at
        /\ run'.want = run.want
    BY <1>0, <1>1, RunMoves DEF RunPhases
  <2>2. Others(run.want) \subseteq cache[run.at]  BY DEF Others
  <2>t. <<run.want, FALSE>> \in (Nat \ {0}) \X BOOLEAN  BY <1>0
  <2>k. Others(run.want) \cup {<<run.want, FALSE>>} \in SUBSET ((Nat \ {0}) \X BOOLEAN)
    BY <1>0, <2>2, <2>t
  <2>3. cache' \in [DOMAIN Repos -> SUBSET ((Nat \ {0}) \X BOOLEAN)]
    BY <1>0, <1>1, <2>k
  <2>4. ASSUME NEW i \in DOMAIN Repos, NEW f \in cache'[i], f[2]
        PROVE  f[1] <= serving[i] /\ f[1] \in Snapshots(Repos[i])
    <3>z. <<run.want, FALSE>>[2] = FALSE  OBVIOUS
    <3>0. f # <<run.want, FALSE>>  BY <2>4, <3>z, Zenon
    <3>1. f \in cache[i]  BY <2>4, <1>0, <1>1, <2>2, <3>0
    <3>. QED  BY <3>1, <2>4 DEF RefreshInv
  <2>. QED  BY <1>0, <1>u, <2>1, <2>3, <2>4, RefreshGoesOn DEF Fetching
<1>2. CASE Fault /\ run' = [Idle EXCEPT !.faults = run.faults - 1] /\ UNCHANGED cache
  <2>1. run.faults - 1 \in Nat  BY <1>0, <1>2 DEF Fault, RunType
  <2>2. run' \in RunType /\ run'.phase = "idle"  BY <1>0, <1>2, <2>1, RunMoves DEF RunType
  <2>. QED  BY <1>2, <1>u, <2>2, RefreshIdles DEF RefreshInv
<1>. QED  BY <1>1, <1>2 DEF Fetch

\* What is written is the wanted snapshot, whole or torn.
LEMMA WriteRefresh == RefreshInv /\ Write => RefreshInv'
<1>. SUFFICES ASSUME RefreshInv, Write PROVE RefreshInv'  OBVIOUS
<1>0. /\ run \in RunType /\ Fetching /\ Refreshing /\ run.at \in DOMAIN Repos
      /\ run.want \in Nat \ {0} /\ run.want <= serving[run.at] /\ run.want \in Snapshots(Here)
      /\ cache \in [DOMAIN Repos -> SUBSET ((Nat \ {0}) \X BOOLEAN)]
  BY RunMoves DEF RefreshInv, Write, At, Fetching, Refreshing, RunType
<1>u. UNCHANGED <<world, serving, paths>>  BY DEF Write
<1>1. /\ cache' = [cache EXCEPT ![run.at] = Others(run.want) \cup {<<run.want, TRUE>>}]
      /\ run' = GoTo("stale")
  BY DEF Write
<1>2. /\ run' \in RunType /\ run'.phase = "stale" /\ run'.at = run.at
      /\ run'.want = run.want
  BY <1>0, <1>1, RunMoves DEF RunPhases
<1>3. Others(run.want) \subseteq cache[run.at]  BY DEF Others
<1>4. /\ cache' \in [DOMAIN Repos -> SUBSET ((Nat \ {0}) \X BOOLEAN)]
      /\ <<run.want, TRUE>> \in cache'[run.at]
  <2>t. <<run.want, TRUE>> \in (Nat \ {0}) \X BOOLEAN  BY <1>0
  <2>k. Others(run.want) \cup {<<run.want, TRUE>>} \in SUBSET ((Nat \ {0}) \X BOOLEAN)
    BY <1>0, <1>3, <2>t
  <2>. QED  BY <1>0, <1>1, <2>k
<1>5. ASSUME NEW i \in DOMAIN Repos, NEW f \in cache'[i], f[2]
      PROVE  f[1] <= serving[i] /\ f[1] \in Snapshots(Repos[i])
  <2>1. f \in cache[i] \/ (i = run.at /\ f = <<run.want, TRUE>>)  BY <1>0, <1>1, <1>3
  <2>2. CASE f \in cache[i]  BY <2>2, <1>5 DEF RefreshInv
  <2>3. CASE i = run.at /\ f = <<run.want, TRUE>>  BY <2>3, <1>0 DEF Here
  <2>. QED  BY <2>1, <2>2, <2>3
<1>. QED  BY <1>0, <1>u, <1>2, <1>4, <1>5, RefreshGoesOn DEF Fetching

\* Removing other files leaves the one the path is taken of.
LEMMA RemoveStaleRefresh == RefreshInv /\ RemoveStale => RefreshInv'
<1>. SUFFICES ASSUME RefreshInv, RemoveStale PROVE RefreshInv'  OBVIOUS
<1>0. /\ run \in RunType /\ Fetching /\ Refreshing /\ run.at \in DOMAIN Repos
      /\ run.want \in Nat \ {0} /\ run.want <= serving[run.at] /\ run.want \in Snapshots(Here)
      /\ cache \in [DOMAIN Repos -> SUBSET ((Nat \ {0}) \X BOOLEAN)]
      /\ <<run.want, TRUE>> \in cache[run.at]
  BY RunMoves DEF RefreshInv, RemoveStale, At, Fetching, Refreshing, RunType
<1>u. UNCHANGED <<world, serving>>  BY DEF RemoveStale
<1>1. CASE Take(run.want) /\ UNCHANGED cache  BY <1>0, <1>1, <1>u, TakeRefresh
<1>2. CASE /\ \E f \in Others(run.want) : cache' = [cache EXCEPT ![run.at] = cache[run.at] \ {f}]
           /\ UNCHANGED <<run, paths>>
  <2>1. PICK g \in Others(run.want) : cache' = [cache EXCEPT ![run.at] = cache[run.at] \ {g}]
    BY <1>2
  <2>2. g[1] # run.want  BY DEF Others
  <2>3. \A i \in DOMAIN Repos : cache'[i] \subseteq cache[i]  BY <1>0, <2>1
  <2>4. cache' \in [DOMAIN Repos -> SUBSET ((Nat \ {0}) \X BOOLEAN)]
    BY <1>0, <2>1
  <2>z. <<run.want, TRUE>>[1] = run.want  OBVIOUS
  <2>6. g # <<run.want, TRUE>>  BY <2>2, <2>z, Zenon
  <2>5. <<run.want, TRUE>> \in cache'[run.at]  BY <1>0, <2>1, <2>6
  <2>. QED  BY <1>0, <1>2, <1>u, <2>3, <2>4, <2>5, RefreshGoesOn DEF RefreshInv, Fetching
<1>. QED  BY <1>1, <1>2 DEF RemoveStale

\* Without the network, a file that is there is taken, torn or whole.
LEMMA UseLocalRefresh == RefreshInv /\ UseLocal => RefreshInv'
<1>. SUFFICES ASSUME RefreshInv, UseLocal PROVE RefreshInv'  OBVIOUS
<1>0. /\ run \in RunType /\ Refreshing /\ run.at \in DOMAIN Repos
      /\ cache \in [DOMAIN Repos -> SUBSET ((Nat \ {0}) \X BOOLEAN)]
      /\ paths \in [DOMAIN Repos -> Nat]
  BY RunMoves DEF RefreshInv, UseLocal, Refreshing
<1>u. UNCHANGED <<world, serving, cache>>  BY DEF UseLocal, syncVars
<1>1. CASE LeaveOut /\ UNCHANGED paths
  <2>1. CASE Here \in Optional /\ run' = Next_repo
    BY <1>0, <1>u, <1>1, <2>1, RunMoves, RefreshMovesOn
  <2>2. CASE run' = Idle  BY <1>0, <1>u, <1>1, <2>2, RunMoves, RefreshIdles
  <2>. QED  BY <1>1, <2>1, <2>2 DEF LeaveOut
<1>2. CASE \E f \in cache[run.at] : Take(f[1])
  <2>1. PICK f \in cache[run.at] : Take(f[1])  BY <1>2
  <2>2. f[1] \in Nat \ {0}  BY <1>0
  <2>. QED  BY <1>0, <1>u, <2>1, <2>2, TakeRefresh
<1>. QED  BY <1>1, <1>2 DEF UseLocal

\* Upstream moves on while a run reads it; old snapshots stay valid.
LEMMA PushRefresh ==
  ASSUME RefreshInv, NEW i \in DOMAIN Repos, Push(i) PROVE RefreshInv'
<1>0. /\ run \in RunType /\ serving \in [DOMAIN Repos -> Nat \ {0}] /\ run.at \in DOMAIN Repos
      /\ cache \in [DOMAIN Repos -> SUBSET ((Nat \ {0}) \X BOOLEAN)]
  BY RunMoves DEF RefreshInv
<1>1. run.faults - 1 \in Nat  BY <1>0 DEF Push, RunType
<1>2. /\ run' \in RunType /\ run'.phase = run.phase /\ run'.at = run.at
      /\ run'.want = run.want
  BY <1>0, <1>1 DEF Push, RunType
<1>3. /\ serving' \in [DOMAIN Repos -> Nat \ {0}]
      /\ \A j \in DOMAIN Repos : serving[j] <= serving'[j]
  BY <1>0 DEF Push
<1>4. UNCHANGED <<world, cache, paths>>  BY DEF Push
<1>5. ASSUME NEW j \in DOMAIN Repos, NEW f \in cache[j], f[2]
      PROVE  f[1] <= serving'[j] /\ f[1] \in Snapshots(Repos[j])
  <2>1. f[1] <= serving[j] /\ f[1] \in Snapshots(Repos[j])  BY <1>5 DEF RefreshInv
  <2>2. f[1] \in Nat /\ serving[j] \in Nat /\ serving'[j] \in Nat  BY <1>0, <1>3
  <2>. QED  BY <2>1, <2>2, <1>3
<1>6. Fetching' => run'.want <= serving'[run'.at]
  <2>1. run.want \in Nat /\ serving[run.at] \in Nat /\ serving'[run.at] \in Nat
    BY <1>0, <1>3 DEF RunType
  <2>. QED  BY <1>0, <1>2, <1>3, <2>1 DEF RefreshInv, Fetching
<1>. QED  BY <1>2, <1>3, <1>4, <1>5, <1>6 DEF RefreshInv, Fetching, Refreshing, Settling,
                                              Merged, At, Snapshots, Here

\* A killed refresh leaves its files behind.
LEMMA KillRefresh == RefreshInv /\ Kill => RefreshInv'
<1>. SUFFICES ASSUME RefreshInv, Kill PROVE RefreshInv'  OBVIOUS
<1>0. run \in RunType /\ paths \in [DOMAIN Repos -> Nat]  BY DEF RefreshInv
<1>1. run.faults - 1 \in Nat  BY <1>0 DEF Kill, RunType
<1>2. run' \in RunType /\ run'.phase = "idle"  BY <1>0, <1>1, RunMoves DEF Kill, RunType
<1>. QED  BY <1>0, <1>2, RefreshIdles DEF Kill, syncVars

\* Reading and merging leave the directories alone.
LEMMA ParseRefresh == RefreshInv /\ Parse => RefreshInv'
<1>. SUFFICES ASSUME RefreshInv, Parse PROVE RefreshInv'  OBVIOUS
<1>0. run \in RunType /\ world \in Worlds  BY DEF RefreshInv
<1>1. UNCHANGED <<world, serving, cache, paths>>
  BY DEF Parse, Arguments, Open, ReadEntry, LayerRepo, syncVars
<1>2. Settling  BY DEF Parse, Arguments, Open, ReadEntry, LayerRepo, Settling, At
<1>3. run' \in {run, Idle, GoTo("open"), GoTo("read"), NextToRead}
  BY DEF Parse, Arguments, Open, ReadEntry, LayerRepo
<1>4. run' \in RunType  BY <1>0, <1>3, RunMoves DEF RunPhases
<1>5. ~Refreshing' /\ run'.phase \notin {"arguments", "again"}
  <2>0. run.phase # "again"  BY DEF Parse, Arguments, Open, ReadEntry, LayerRepo, At
  <2>1. \/ run'.phase \in {"idle", "open", "read", "combine"}
        \/ run'.phase = run.phase /\ run.phase # "arguments"
    BY <1>0, <1>3, RunMoves
       DEF RunPhases, Parse, Arguments, Open, ReadEntry, LayerRepo, At
  <2>. QED  BY <2>0, <2>1, <1>2 DEF Refreshing, Fetching, At, Settling, Merged
<1>. QED  BY <1>1, <1>2, <1>4, <1>5, RefreshStays

\* So do the steps after the merge.
LEMMA SolveRefresh == RefreshInv /\ Solve => RefreshInv'
<1>. SUFFICES ASSUME RefreshInv, Solve PROVE RefreshInv'  OBVIOUS
<1>0. run \in RunType /\ world \in Worlds  BY DEF RefreshInv
<1>1. CASE Again
  <2>1. run' \in RunType /\ run'.phase = "sync" /\ run'.at = run.at
    BY <1>0, <1>1, RunMoves DEF Again, RunPhases
  <2>2. paths' \in [DOMAIN Repos -> Nat] /\ UNCHANGED <<world, serving, cache>>
    BY <1>1 DEF Again, NoPaths, syncVars
  <2>3. run.at = 1 /\ \A i \in DOMAIN Repos : ~(i < 1)
    BY <1>1, ReposFacts DEF RefreshInv, Again, At
  <2>. QED
    BY <2>1, <2>2, <2>3 DEF RefreshInv, Fetching, Refreshing, Settling, Merged, At, Snapshots
<1>2. CASE Combine \/ Producers \/ Images \/ Sources \/ Emit
  <2>1. UNCHANGED <<world, serving, cache, paths>>
    BY <1>2 DEF Combine, Producers, Images, Sources, Emit, syncVars
  <2>2. Settling
    BY <1>2 DEF Combine, Producers, Images, Sources, Emit, Settling, Merged, At
  <2>3. \/ run' \in {Idle, GoTo("producers"), GoTo("images"), GoTo("sources"), GoTo("solve")}
        \/ run' = [run EXCEPT !.phase = "again", !.pass = 2, !.at = 1]
    BY <1>2 DEF Combine, Producers, Images, Sources, Emit
  <2>4. /\ run' \in RunType
        /\ \/ run'.phase \in {"idle", "producers", "images", "sources", "solve"}
           \/ run'.phase = "again" /\ run'.at = 1
    <3>1. CASE run' = [run EXCEPT !.phase = "again", !.pass = 2, !.at = 1]
      BY <1>0, <3>1, ReposFacts DEF RunType, RunPhases
    <3>. QED  BY <1>0, <2>3, <3>1, RunMoves DEF RunPhases
  <2>. QED  BY <2>1, <2>2, <2>4, RefreshStays DEF Refreshing, Fetching, At
<1>. QED  BY <1>1, <1>2 DEF Solve

\* Every step keeps it.
LEMMA NextRefresh == RefreshInv /\ [Next]_vars => RefreshInv'
<1>1. RefreshInv /\ UNCHANGED vars => RefreshInv'
  BY DEF RefreshInv, vars, syncVars, Fetching, Refreshing, Settling, Merged, At, Snapshots,
         Here
<1>. QED
  BY <1>1, StartRefresh, ReadRepomdRefresh, CompareRefresh, FetchRefresh, WriteRefresh,
     RemoveStaleRefresh, UseLocalRefresh, PushRefresh, KillRefresh, ParseRefresh, SolveRefresh
     DEF Next, Sync

(* MergeInv, action by action. *)

\* What a step leaves of the entries read: those of repositories whose paths
\* it keeps.
LEMMA EntriesKept ==
  ASSUME UNCHANGED world, NEW R, \A i \in R : paths'[i] = paths[i]
  PROVE  \A kind : Entries(kind, R)' = Entries(kind, R')
BY DEF Entries, Builds

\* Every entry read has a version that can be compared.
LEMMA EntriesTyped ==
  ASSUME RefreshInv, NEW R \in SUBSET (DOMAIN Repos), NEW kind,
         \A i \in R : paths[i] # 0 => <<paths[i], TRUE>> \in cache[i]
  PROVE  Typed(Entries(kind, R))
<1>1. ASSUME NEW i \in R, paths[i] # 0 PROVE paths[i] \in Snapshots(Repos[i])
  <2>1. <<paths[i], TRUE>> \in cache[i] /\ i \in DOMAIN Repos  BY <1>1
  <2>2. <<paths[i], TRUE>>[2] = TRUE /\ <<paths[i], TRUE>>[1] = paths[i]  OBVIOUS
  <2>. QED  BY <2>1, <2>2 DEF RefreshInv
<1>2. world \in Worlds  BY DEF RefreshInv
<1>3. ASSUME NEW i \in R, paths[i] # 0 PROVE Typed(Builds(Repos[i], paths[i]))
  BY <1>1, <1>2, <1>3, WorldFacts DEF Typed
<1>. QED  BY <1>3 DEF Entries, Typed

\* What is read is of the repositories there are.
LEMMA ReadSoFarIn == ReadSoFar \in SUBSET (DOMAIN Repos)
BY DEF ReadSoFar

\* It holds before the first run.
LEMMA InitMerge == Init => MergeInv
<1>. SUFFICES ASSUME Init PROVE MergeInv  OBVIOUS
<1>1. At("idle") /\ ~At("read") /\ ReadSoFar = {}
  BY DEF Init, At, ReadSoFar, Merged
<1>. QED  BY <1>1 DEF Init, MergeInv

\* The lists are empty again.
LEMMA MergeFromNothing ==
  ASSUME merged' = [k \in Kinds |-> Nobody], run'.phase = "sync"
  PROVE  MergeInv'
<1>1. ReadSoFar' = {} /\ ~At("read")'  BY DEF ReadSoFar, Merged, At
<1>2. \A kind : Entries(kind, ReadSoFar)' = {}  BY <1>1 DEF Entries
<1>. QED  BY <1>1, <1>2, NothingNewest DEF MergeInv

\* Nothing has been read while the directories are refreshed.
LEMMA MergeUnread ==
  ASSUME MergeInv, UNCHANGED merged, ReadSoFar = {}, ~At("idle"),
         run'.phase \in {"idle", "sync", "compare", "fetch", "write", "stale", "arguments"}
  PROVE  MergeInv'
<1>1. ReadSoFar' = {} /\ ~At("read")'  BY DEF ReadSoFar, Merged, At
<1>2. \A kind : Entries(kind, ReadSoFar) = {}  BY DEF Entries
<1>3. \A kind : Entries(kind, ReadSoFar)' = {}  BY <1>1 DEF Entries
<1>. QED  BY <1>1, <1>2, <1>3 DEF MergeInv

\* Where a step of the refresh leads.
LEMMA SyncPhases ==
  RefreshInv /\ Sync =>
    /\ Refreshing
    /\ run'.phase \in {"idle", "sync", "compare", "fetch", "write", "stale", "arguments"}
<1>. HAVE RefreshInv /\ Sync
<1>0. run \in RunType  BY DEF RefreshInv
<1>r. Refreshing
  BY DEF Sync, ReadRepomd, Compare, Fetch, Write, RemoveStale, UseLocal, Refreshing, Fetching, At
<1>. SUFFICES run'.phase \in {"idle", "sync", "compare", "fetch", "write", "stale", "arguments"}
  BY <1>r
<1>1. /\ Next_repo.phase \in {"sync", "arguments"} /\ Idle.phase = "idle"
      /\ GoTo("fetch").phase = "fetch" /\ GoTo("write").phase = "write"
      /\ GoTo("stale").phase = "stale" /\ Next_repo \in RunType /\ Idle \in RunType
  BY <1>0, RunMoves DEF RunPhases
<1>2. LeaveOut => run'.phase \in {"sync", "arguments", "idle"}  BY <1>1 DEF LeaveOut
<1>3. \A s : Take(s) => run'.phase \in {"sync", "arguments"}  BY <1>1 DEF Take
<1>4. CASE ReadRepomd
  <2>1. CASE run' = [run EXCEPT !.phase = "compare", !.want = serving[run.at]]
    BY <1>0, <2>1 DEF RunType
  <2>2. CASE run' = [Next_repo EXCEPT !.faults = run.faults - 1]
    BY <1>1, <2>2 DEF RunType
  <2>3. CASE run' = [Idle EXCEPT !.faults = run.faults - 1]
    BY <1>1, <2>3 DEF RunType
  <2>. QED  BY <1>2, <1>4, <2>1, <2>2, <2>3 DEF ReadRepomd
<1>5. CASE Compare  BY <1>1, <1>3, <1>5 DEF Compare
<1>6. CASE Fetch
  <2>1. CASE run' = [Idle EXCEPT !.faults = run.faults - 1]
    BY <1>1, <2>1 DEF RunType
  <2>. QED  BY <1>1, <1>6, <2>1 DEF Fetch
<1>7. CASE Write  BY <1>1, <1>7 DEF Write
<1>8. CASE RemoveStale  BY <1>r, <1>3, <1>8 DEF RemoveStale, At
<1>9. CASE UseLocal  BY <1>2, <1>3, <1>9 DEF UseLocal
<1>. QED  BY <1>r, <1>4, <1>5, <1>6, <1>7, <1>8, <1>9 DEF Sync

\* The refresh merges nothing.
LEMMA SyncMerge == RefreshInv /\ MergeInv /\ Sync => MergeInv'
<1>. SUFFICES ASSUME RefreshInv, MergeInv, Sync PROVE MergeInv'  OBVIOUS
<1>1. UNCHANGED merged
  BY DEF Sync, ReadRepomd, Compare, Fetch, Write, RemoveStale, UseLocal, mergeVars
<1>2. /\ Refreshing
      /\ run'.phase \in {"idle", "sync", "compare", "fetch", "write", "stale", "arguments"}
  BY SyncPhases
<1>3. ReadSoFar = {} /\ ~At("idle")  BY <1>2 DEF Refreshing, Fetching, At, ReadSoFar, Merged
<1>. QED  BY <1>1, <1>2, <1>3, MergeUnread

\* A step that reads nothing and moves no path.
LEMMA MergeStays ==
  ASSUME MergeInv, UNCHANGED <<world, paths, cache, merged>>, ~At("idle"),
         At("idle")' \/ ReadSoFar' = ReadSoFar,
         At("idle")' => ReadSoFar' = {},
         ~At("read")' \/ (At("read") /\ UNCHANGED <<unread, best>> /\ run'.at = run.at)
  PROVE  MergeInv'
<1>1. CASE At("idle")'  BY <1>1 DEF MergeInv, At
<1>2. CASE ~At("idle")'
  <2>1. ReadSoFar' = ReadSoFar  BY <1>2
  <2>2. \A kind : Entries(kind, ReadSoFar)' = Entries(kind, ReadSoFar)
    BY <2>1 DEF Entries, Builds
  <2>. QED  BY <2>1, <2>2 DEF MergeInv, At, Builds, Here
<1>. QED  BY <1>1, <1>2

\* Upstream's moves merge nothing.
LEMMA PushMerge ==
  ASSUME RefreshInv, MergeInv, NEW i \in DOMAIN Repos, Push(i) PROVE MergeInv'
<1>1. run'.phase = run.phase /\ run'.at = run.at /\ ~At("idle")
  BY DEF RefreshInv, RunType, Push
<1>2. ReadSoFar' = ReadSoFar  BY <1>1 DEF ReadSoFar, Merged
<1>. QED  BY <1>1, <1>2, MergeStays DEF Push, mergeVars, At

\* A killed run has merged nothing.
LEMMA KillMerge == RefreshInv /\ MergeInv /\ Kill => MergeInv'
<1>. SUFFICES ASSUME RefreshInv, MergeInv, Kill PROVE MergeInv'  OBVIOUS
<1>0. run \in RunType  BY DEF RefreshInv
<1>1. run'.phase = "idle"
  <2>1. Idle \in RunType /\ Idle.phase = "idle"  BY <1>0, RunMoves
  <2>. QED  BY <2>1 DEF Kill, RunType
<1>2. /\ UNCHANGED merged /\ ReadSoFar = {} /\ ~At("idle")
  BY DEF Kill, mergeVars, ReadSoFar, Merged, At
<1>. QED  BY <1>1, <1>2, MergeUnread

\* The current repository is done with, its entries being Done.
LEMMA ReadMovesOn ==
  ASSUME RefreshInv, run.phase \in {"open", "read"}, run' = NextToRead,
         UNCHANGED <<world, paths>>
  PROVE  /\ ~At("idle")' /\ ~At("read")' /\ ReadSoFar' = ReadSoFar \cup {run.at}
         /\ \A kind : Entries(kind, ReadSoFar)' =
              Entries(kind, ReadSoFar) \cup
                (IF RepoKind[Here] = kind /\ paths[run.at] # 0
                 THEN Builds(Here, paths[run.at]) ELSE {})
<1>0. run \in RunType  BY DEF RefreshInv
<1>1. DOMAIN Repos = 1..Len(Repos) /\ Len(Repos) \in Nat  BY ReposFacts
<1>2. \/ run.at < Len(Repos) /\ run'.phase = "open" /\ run'.at = run.at + 1
      \/ run.at = Len(Repos) /\ run'.phase = "combine"
  BY <1>0, RunMoves
<1>3. ReadSoFar = {i \in DOMAIN Repos : i < run.at} /\ run.at \in DOMAIN Repos
  BY <1>0, RunMoves DEF ReadSoFar, Merged
<1>4. ReadSoFar' = {i \in DOMAIN Repos : i <= run.at}
  <2>1. CASE run.at < Len(Repos) /\ run'.phase = "open" /\ run'.at = run.at + 1
    <3>1. ReadSoFar' = {i \in DOMAIN Repos : i < run.at + 1}
      BY <2>1 DEF ReadSoFar, Merged
    <3>. QED  BY <3>1, <1>1, <1>3
  <2>2. CASE run.at = Len(Repos) /\ run'.phase = "combine"
    <3>1. ReadSoFar' = DOMAIN Repos  BY <2>2 DEF ReadSoFar, Merged
    <3>. QED  BY <3>1, <2>2, <1>1
  <2>. QED  BY <1>2, <2>1, <2>2
<1>5. ReadSoFar' = ReadSoFar \cup {run.at}  BY <1>1, <1>3, <1>4
<1>6. ASSUME NEW kind
      PROVE  Entries(kind, ReadSoFar)' =
               Entries(kind, ReadSoFar) \cup
                 (IF RepoKind[Here] = kind /\ paths[run.at] # 0
                  THEN Builds(Here, paths[run.at]) ELSE {})
  <2>1. Entries(kind, ReadSoFar)' = Entries(kind, ReadSoFar \cup {run.at})
    BY <1>5 DEF Entries, Builds
  <2>. HIDE <1>5
  <2>2. Entries(kind, ReadSoFar \cup {run.at}) = Entries(kind, ReadSoFar) \cup Entries(kind, {run.at})
    BY DEF Entries
  <2>3. Entries(kind, {run.at}) = IF RepoKind[Here] = kind /\ paths[run.at] # 0
                                  THEN Builds(Here, paths[run.at]) ELSE {}
    BY DEF Entries, Here
  <2>. QED  BY <2>1, <2>2, <2>3
<1>7. ~At("idle")' /\ ~At("read")'  BY <1>2 DEF At
<1>. QED  BY <1>5, <1>6, <1>7

\* Checking the arguments merges nothing.
LEMMA ArgumentsMerge == RefreshInv /\ MergeInv /\ Arguments => MergeInv'
<1>. SUFFICES ASSUME RefreshInv, MergeInv, Arguments PROVE MergeInv'  OBVIOUS
<1>0. run \in RunType /\ run.at = 1  BY DEF RefreshInv, Arguments, At
<1>1. \/ run'.phase = "idle"
      \/ run'.phase = "open" /\ run'.at = 1
  BY <1>0, RunMoves DEF Arguments, RunPhases
<1>2. ReadSoFar' = {}
  <2>1. \A i \in DOMAIN Repos : ~(i < 1)  BY ReposFacts
  <2>. QED  BY <1>1, <2>1 DEF ReadSoFar, Merged
<1>3. ReadSoFar = {}  BY DEF Arguments, At, ReadSoFar, Merged
<1>. QED  BY <1>1, <1>2, <1>3, MergeStays DEF Arguments, mergeVars, syncVars, At

\* A file is opened whole, or the run stops, or the repository is passed over.
LEMMA OpenMerge == RefreshInv /\ MergeInv /\ Open => MergeInv'
<1>. SUFFICES ASSUME RefreshInv, MergeInv, Open PROVE MergeInv'  OBVIOUS
<1>0. run \in RunType /\ run.at \in DOMAIN Repos /\ world \in Worlds
  BY RunMoves DEF RefreshInv
<1>u. UNCHANGED <<world, paths, cache, merged>> /\ At("open")  BY DEF Open, syncVars
<1>1. CASE paths[run.at] = 0 /\ run' = NextToRead
  <2>1. /\ ~At("idle")' /\ ~At("read")' /\ ReadSoFar' = ReadSoFar \cup {run.at}
        /\ \A kind : Entries(kind, ReadSoFar)' = Entries(kind, ReadSoFar)
    BY <1>1, <1>u, ReadMovesOn DEF At
  <2>. QED  BY <1>1, <1>u, <2>1 DEF MergeInv, At
<1>2. CASE run' = Idle
  <2>1. run'.phase = "idle"  BY <1>0, <1>2, RunMoves
  <2>2. ReadSoFar' = {}  BY <2>1 DEF ReadSoFar, Merged
  <2>. QED  BY <1>u, <2>1, <2>2, MergeStays DEF At
<1>3. CASE /\ paths[run.at] # 0 /\ ~Torn(run.at) /\ run' = GoTo("read")
           /\ unread' = Builds(Here, paths[run.at]) /\ best' = Nobody
  <2>1. run'.phase = "read" /\ run'.at = run.at  BY <1>0, <1>3, RunMoves DEF RunPhases
  <2>2. ReadSoFar' = ReadSoFar  BY <1>u, <2>1 DEF ReadSoFar, Merged, At
  <2>3. \A kind : Entries(kind, ReadSoFar)' = Entries(kind, ReadSoFar)
    BY <1>u, <2>2 DEF Entries, Builds
  <2>4. Builds(Here, paths[run.at])' = Builds(Here, paths[run.at])
    BY <1>u, <2>1 DEF Builds, Here
  <2>5. Builds(Here, paths[run.at])' \ unread' = {}  BY <2>4, <1>3
  <2>6. Newest(best, Builds(Here, paths[run.at]) \ unread)'
    BY <2>5, <1>3, NothingNewest
  <2>7. <<paths[run.at], TRUE>> \in cache[run.at]  BY <1>3 DEF Torn
  <2>. QED  BY <1>u, <1>3, <2>1, <2>2, <2>3, <2>4, <2>6, <2>7 DEF MergeInv, At
<1>. QED  BY <1>1, <1>2, <1>3 DEF Open

\* One entry of the open file is considered.
LEMMA ReadEntryMerge ==
  ASSUME RefreshInv, MergeInv, NEW p \in unread, ReadEntry(p) PROVE MergeInv'
<1>0. /\ run \in RunType /\ run.at \in DOMAIN Repos /\ world \in Worlds /\ At("read")
      /\ paths[run.at] # 0 /\ <<paths[run.at], TRUE>> \in cache[run.at]
      /\ unread \subseteq Builds(Here, paths[run.at])
      /\ Newest(best, Builds(Here, paths[run.at]) \ unread)
  BY RunMoves DEF RefreshInv, MergeInv, ReadEntry
<1>u. /\ UNCHANGED <<world, run, paths, cache, merged>>
      /\ unread' = unread \ {p} /\ best' = Consider(best, p)
  BY DEF ReadEntry, syncVars
<1>1. ReadSoFar' = ReadSoFar  BY <1>u DEF ReadSoFar, Merged
<1>2. \A kind : Entries(kind, ReadSoFar)' = Entries(kind, ReadSoFar)
  BY <1>u, <1>1 DEF Entries, Builds
<1>3. Typed(Builds(Here, paths[run.at]))
  <2>1. Entries(RepoKind[Here], {run.at}) = Builds(Here, paths[run.at])
    BY <1>0 DEF Entries, Here
  <2>2. Typed(Entries(RepoKind[Here], {run.at}))  BY <1>0, EntriesTyped
  <2>. QED  BY <2>1, <2>2
<1>4. PICK all : all = Builds(Here, paths[run.at])  OBVIOUS
<1>5. Builds(Here, paths[run.at])' = all  BY <1>u, <1>4 DEF Builds, Here
<1>6. all \ unread' = (all \ unread) \cup {p}  BY <1>u, <1>0, <1>4
<1>7. Newest(best', (all \ unread) \cup {p})
  <2>1. Typed(all \ unread) /\ p.evr \in Triples  BY <1>0, <1>3, <1>4 DEF Typed
  <2>. QED  BY <2>1, <1>0, <1>4, <1>u, ConsiderKeeps
<1>8. Newest(best, Builds(Here, paths[run.at]) \ unread)'  BY <1>5, <1>6, <1>7
<1>9. unread' \subseteq all  BY <1>u, <1>0, <1>4
<1>. QED  BY <1>0, <1>u, <1>1, <1>2, <1>5, <1>8, <1>9 DEF MergeInv, At

\* A repository read to its end is laid over the list of its kind.
LEMMA LayerRepoMerge == RefreshInv /\ MergeInv /\ LayerRepo => MergeInv'
<1>. SUFFICES ASSUME RefreshInv, MergeInv, LayerRepo PROVE MergeInv'  OBVIOUS
<1>0. /\ run \in RunType /\ run.at \in DOMAIN Repos /\ world \in Worlds /\ At("read")
      /\ paths[run.at] # 0 /\ <<paths[run.at], TRUE>> \in cache[run.at]
      /\ unread = {} /\ Newest(best, Builds(Here, paths[run.at]) \ unread)
      /\ RepoKind[Here] \in Kinds
  BY RunMoves, ReposFacts DEF RefreshInv, MergeInv, LayerRepo, Here
<1>u. /\ UNCHANGED <<world, paths, cache>> /\ run' = NextToRead
      /\ merged' = [merged EXCEPT ![RepoKind[Here]] = Layer(merged[RepoKind[Here]], best)]
  BY DEF LayerRepo, syncVars
<1>1. Newest(best, Builds(Here, paths[run.at]))
  <2>1. Builds(Here, paths[run.at]) \ unread = Builds(Here, paths[run.at])  BY <1>0
  <2>. QED  BY <1>0, <2>1
<1>2. Typed(Builds(Here, paths[run.at]))
  <2>1. Entries(RepoKind[Here], {run.at}) = Builds(Here, paths[run.at])
    BY <1>0 DEF Entries, Here
  <2>2. Typed(Entries(RepoKind[Here], {run.at}))  BY <1>0, EntriesTyped
  <2>. QED  BY <2>1, <2>2
<1>3. /\ ~At("idle")' /\ ~At("read")' /\ ReadSoFar' = ReadSoFar \cup {run.at}
      /\ \A kind : Entries(kind, ReadSoFar)' =
           Entries(kind, ReadSoFar) \cup
             (IF RepoKind[Here] = kind THEN Builds(Here, paths[run.at]) ELSE {})
  BY <1>0, <1>u, ReadMovesOn DEF At
<1>4. ASSUME NEW kind \in Kinds PROVE Newest(merged'[kind], Entries(kind, ReadSoFar)')
  <2>0. Newest(merged[kind], Entries(kind, ReadSoFar)) /\ DOMAIN merged = Kinds
    BY <1>0 DEF MergeInv, At
  <2>1. CASE kind # RepoKind[Here]  BY <2>0, <2>1, <1>u, <1>3
  <2>2. CASE kind = RepoKind[Here]
    <3>1. merged'[kind] = Layer(merged[kind], best)  BY <2>0, <2>2, <1>u, <1>0
    <3>2. Typed(Entries(kind, ReadSoFar))  BY EntriesTyped, ReadSoFarIn DEF MergeInv
    <3>3. Newest(Layer(merged[kind], best),
                 Entries(kind, ReadSoFar) \cup Builds(Here, paths[run.at]))
      BY <2>0, <3>2, <1>1, <1>2, LayerKeeps
    <3>. QED  BY <2>2, <3>1, <3>3, <1>3
  <2>. QED  BY <2>1, <2>2
<1>5. DOMAIN merged' = Kinds  BY <1>u DEF MergeInv
<1>6. \A i \in ReadSoFar' : paths'[i] # 0 => <<paths'[i], TRUE>> \in cache'[i]
  BY <1>0, <1>u, <1>3 DEF MergeInv
<1>. QED  BY <1>3, <1>4, <1>5, <1>6 DEF MergeInv

\* The solve leaves what was merged.
LEMMA SolveMerge == RefreshInv /\ MergeInv /\ Solve => MergeInv'
<1>. SUFFICES ASSUME RefreshInv, MergeInv, Solve PROVE MergeInv'  OBVIOUS
<1>0. run \in RunType  BY DEF RefreshInv
<1>1. CASE Again
  <2>1. run'.phase = "sync"  BY <1>0, <1>1, RunMoves DEF Again, RunPhases
  <2>. QED  BY <1>1, <2>1, MergeFromNothing DEF Again
<1>2. CASE Combine \/ Producers \/ Images \/ Sources \/ Emit
  <2>1. UNCHANGED <<world, cache, paths, merged>> /\ Merged /\ ~At("idle")
    BY <1>2 DEF Combine, Producers, Images, Sources, Emit, syncVars, mergeVars, Merged, At
  <2>3. \/ run' \in {Idle, GoTo("producers"), GoTo("images"), GoTo("sources"), GoTo("solve")}
        \/ run' = [run EXCEPT !.phase = "again", !.pass = 2, !.at = 1]
    BY <1>2 DEF Combine, Producers, Images, Sources, Emit
  <2>4. run'.phase \in {"idle", "producers", "images", "sources", "solve", "again"}
    <3>1. CASE run' = [run EXCEPT !.phase = "again", !.pass = 2, !.at = 1]
      BY <1>0, <3>1 DEF RunType
    <3>. QED  BY <1>0, <2>3, <3>1, RunMoves DEF RunPhases
  <2>5. \/ At("idle")' /\ ReadSoFar' = {}
        \/ ~At("idle")' /\ ReadSoFar' = ReadSoFar
    BY <2>1, <2>4 DEF ReadSoFar, Merged, At
  <2>6. ~At("read")'  BY <2>4 DEF At
  <2>. QED  BY <2>1, <2>5, <2>6, MergeStays
<1>. QED  BY <1>1, <1>2 DEF Solve

\* Every step keeps it.
LEMMA NextMerge == RefreshInv /\ MergeInv /\ [Next]_vars => MergeInv'
<1>1. ASSUME MergeInv, UNCHANGED vars PROVE MergeInv'
  <2>1. ReadSoFar' = ReadSoFar  BY <1>1 DEF vars, ReadSoFar, Merged
  <2>2. \A kind : Entries(kind, ReadSoFar)' = Entries(kind, ReadSoFar)
    BY <1>1, <2>1 DEF Entries, Builds, vars
  <2>. QED  BY <1>1, <2>1, <2>2 DEF MergeInv, vars, syncVars, mergeVars, At, Builds, Here
<1>2. ASSUME RefreshInv, MergeInv, NEW offline \in BOOLEAN, Start(offline) PROVE MergeInv'
  <2>1. run'.phase = "sync"  BY <1>2 DEF RefreshInv, RunType, Start
  <2>. QED  BY <1>2, <2>1, MergeFromNothing DEF Start
<1>. QED
  BY <1>1, <1>2, SyncMerge, PushMerge, KillMerge, ArgumentsMerge, OpenMerge, ReadEntryMerge,
     LayerRepoMerge, SolveMerge DEF Next, Parse

\* Merged lists of whole files hold the newest of each package.
LEMMA MergedIsNewest == RefreshInv /\ MergeInv => NewestOfWhole
<1>. SUFFICES ASSUME RefreshInv, MergeInv PROVE NewestOfWhole  OBVIOUS
<1>1. ASSUME Merged, NEW kind \in Kinds
      PROVE  /\ DOMAIN merged[kind] = {Key(p) : p \in Served(kind)}
             /\ \A p \in Served(kind) : ~OlderEvr(merged[kind][Key(p)].evr, p.evr)
  <2>1. ReadSoFar = DOMAIN Repos /\ ~At("idle")  BY <1>1 DEF ReadSoFar, Merged, At
  <2>2. Entries(kind, ReadSoFar) = Served(kind)  BY <2>1 DEF Entries, Served
  <2>. QED  BY <2>1, <2>2 DEF MergeInv, Newest
<1>2. ASSUME At("combine"), NEW i \in DOMAIN Repos, paths[i] # 0
      PROVE  /\ paths[i] <= serving[i] /\ <<paths[i], TRUE>> \in cache[i]
             /\ \A p \in Builds(Repos[i], paths[i]) :
                  Key(p) \in DOMAIN merged[RepoKind[Repos[i]]]
  <2>0. Merged  BY <1>2 DEF Merged, At
  <2>1. ReadSoFar = DOMAIN Repos  BY <2>0 DEF ReadSoFar
  <2>2. <<paths[i], TRUE>> \in cache[i]  BY <1>2, <2>1 DEF MergeInv
  <2>3. paths[i] <= serving[i]
    <3>1. <<paths[i], TRUE>>[2] = TRUE /\ <<paths[i], TRUE>>[1] = paths[i]  OBVIOUS
    <3>. QED  BY <2>2, <3>1 DEF RefreshInv
  <2>4. \A p \in Builds(Repos[i], paths[i]) : p \in Served(RepoKind[Repos[i]])
    BY <1>2 DEF Served
  <2>5. RepoKind[Repos[i]] \in Kinds  BY ReposFacts
  <2>. QED  BY <2>0, <2>2, <2>3, <2>4, <2>5, <1>1
<1>3. ASSUME At("combine"), NEW i \in DOMAIN Repos, paths[i] = 0 PROVE Repos[i] \in Optional
  BY <1>3 DEF RefreshInv, Settling, Merged, At
<1>. QED  BY <1>1, <1>2, <1>3 DEF NewestOfWhole

\* Once the lists are merged, each has exactly the packages that the snapshots
\* taken of its kind's repositories list, none in a build older than another one
\* listed; only whole files were read, and only an optional repository is
\* missing: sync_repo, parse_primary, package_is_newer and merge_packages,
\* whatever upstream pushes and wherever a refresh is killed.
THEOREM SolveReadsTheNewestOfWhole == Spec => []NewestOfWhole
<1>1. Spec => [](RefreshInv /\ MergeInv)
  BY InitRefresh, InitMerge, NextRefresh, NextMerge, PTL DEF Spec
<1>. QED  BY <1>1, MergedIsNewest, PTL

(***************************************************************************)
(* build_universe: the winner of a name and the answers to a capability.   *)
(***************************************************************************)

\* A finite set has a first element in any strict total order.
LEMMA FirstOfFinite ==
  ASSUME NEW S, IsFiniteSet(S), S # {}, NEW R,
         \A a, b \in S : a # b => <<a, b>> \in R \/ <<b, a>> \in R,
         \A a, b, c \in S : <<a, b>> \in R /\ <<b, c>> \in R => <<a, c>> \in R
  PROVE  \E m \in S : \A o \in S \ {m} : <<m, o>> \in R
<1>. DEFINE HasFirst(T) == \E m \in T : \A o \in T \ {m} : <<m, o>> \in R
            bad == {n \in Nat : \E T \in SUBSET S : /\ T # {} /\ Cardinality(T) = n
                                                   /\ ~HasFirst(T)}
            n == CHOOSE k \in bad : \A l \in bad : k <= l
<1>1. ASSUME bad # {} PROVE FALSE
  <2>1. bad \in SUBSET Nat  OBVIOUS
  <2>2. n \in bad /\ \A l \in bad : n <= l  BY <1>1, <2>1, LeastOf
  <2>. HIDE DEF n
  <2>3. PICK T \in SUBSET S : T # {} /\ Cardinality(T) = n /\ ~HasFirst(T)  BY <2>2
  <2>4. IsFiniteSet(T)  BY FS_Subset
  <2>5. PICK a \in T : TRUE  BY <2>3
  <2>. DEFINE U == T \ {a}
  <2>6. IsFiniteSet(U) /\ Cardinality(U) = n - 1
    <3>1. /\ IsFiniteSet(T \ {a})
          /\ Cardinality(T \ {a}) = IF a \in T THEN Cardinality(T) - 1 ELSE Cardinality(T)
      BY <2>4, FS_RemoveElement, Zenon
    <3>2. Cardinality(T) = n /\ a \in T  BY <2>3, <2>5
    <3>. HIDE DEF bad, HasFirst
    <3>. QED  BY <3>1, <3>2
  <2>7. U # {}  BY <2>3
  <2>8. n \in Nat /\ Cardinality(U) \in Nat  BY <2>2, <2>6, FS_CardinalityType
  <2>9. HasFirst(U)
    <3>1. n - 1 \in Nat /\ ~(n <= n - 1)  BY <2>6, <2>8
    <3>2. n - 1 \notin bad  BY <2>2, <3>1
    <3>3. U \in SUBSET S /\ n - 1 \in Nat  BY <3>1
    <3>. HIDE DEF U, HasFirst
    <3>. QED  BY <2>6, <2>7, <3>2, <3>3
  <2>10. PICK m \in U : \A o \in U \ {m} : <<m, o>> \in R  BY <2>9
  <2>11. CASE <<m, a>> \in R  BY <2>3, <2>10, <2>11
  <2>12. CASE <<a, m>> \in R
    <3>1. \A o \in T \ {a} : <<a, o>> \in R  BY <2>10, <2>12
    <3>. QED  BY <2>3, <3>1
  <2>. QED  BY <2>10, <2>11, <2>12
<1>2. Cardinality(S) \in Nat  BY FS_CardinalityType
<1>. QED  BY <1>1, <1>2

\* Places in the string order are strictly ordered.
LEMMA ArchOrder ==
  /\ \A a : ~ArchFirst(a, a)
  /\ \A a, b, c : ArchFirst(a, b) /\ ArchFirst(b, c) => ArchFirst(a, c)
  /\ \A i, j \in DOMAIN Arches :
       Arches[i] # Arches[j] => ArchFirst(Arches[i], Arches[j]) \/ ArchFirst(Arches[j], Arches[i])
<1>1. \A i, j \in DOMAIN Arches : Arches[i] = Arches[j] => i = j  BY WorldAssumption
<1>2. DOMAIN Arches \subseteq Nat  BY WorldAssumption
<1>3. \A a : ~ArchFirst(a, a)  BY <1>1, <1>2 DEF ArchFirst
<1>4. ASSUME NEW a, NEW b, NEW c, ArchFirst(a, b), ArchFirst(b, c) PROVE ArchFirst(a, c)
  <2>1. PICK i, j \in DOMAIN Arches : i < j /\ Arches[i] = a /\ Arches[j] = b
    BY <1>4 DEF ArchFirst
  <2>2. PICK k, l \in DOMAIN Arches : k < l /\ Arches[k] = b /\ Arches[l] = c
    BY <1>4 DEF ArchFirst
  <2>3. j = k  BY <1>1, <2>1, <2>2
  <2>4. i < l  BY <1>2, <2>1, <2>2, <2>3
  <2>. QED  BY <2>1, <2>2, <2>4 DEF ArchFirst
<1>5. ASSUME NEW i \in DOMAIN Arches, NEW j \in DOMAIN Arches, Arches[i] # Arches[j]
      PROVE  ArchFirst(Arches[i], Arches[j]) \/ ArchFirst(Arches[j], Arches[i])
  <2>1. i < j \/ j < i  BY <1>2, <1>5
  <2>. QED  BY <2>1 DEF ArchFirst
<1>. QED  BY <1>3, <1>4, <1>5

\* A build whose version and architecture can be compared.
Comparable(p) == p.evr \in Triples /\ \E k \in DOMAIN Arches : Arches[k] = p.arch

\* p wins its name over o.
Beats(p, o) == better(p, o) \/ (~better(o, p) /\ ArchFirst(p.arch, o.arch))

\* The builds of a name are strictly ordered, totally where their
\* architectures differ.
LEMMA BeatsOrder ==
  /\ \A a, b : Comparable(a) /\ Comparable(b) => ~(Beats(a, b) /\ Beats(b, a))
  /\ \A a, b : Comparable(a) /\ Comparable(b) /\ a.arch # b.arch => Beats(a, b) \/ Beats(b, a)
  /\ \A a, b, c : Comparable(a) /\ Comparable(b) /\ Comparable(c) =>
       (Beats(a, b) /\ Beats(b, c) => Beats(a, c))
<1>. DEFINE Rank(a) == _arch_rank(a.arch)
<1>r. \A a : Rank(a) \in Nat  BY DEF _arch_rank
<1>f. \A a : Fallback(a) \in BOOLEAN  BY DEF Fallback
<1>b. \A a, b : Comparable(a) /\ Comparable(b) =>
        (better(a, b) <=>
           \/ ~Fallback(a) /\ Fallback(b)
           \/ Fallback(a) = Fallback(b) /\ Rank(a) < Rank(b)
           \/ Fallback(a) = Fallback(b) /\ Rank(a) = Rank(b) /\ OlderEvr(b.evr, a.evr))
  BY <1>r, <1>f, NewerIsNewer DEF better, Comparable
<1>. HIDE DEF Rank
<1>1. ASSUME NEW a, NEW b, Comparable(a), Comparable(b)
      PROVE  Beats(a, b) <=>
               \/ ~Fallback(a) /\ Fallback(b)
               \/ Fallback(a) = Fallback(b) /\ Rank(a) < Rank(b)
               \/ Fallback(a) = Fallback(b) /\ Rank(a) = Rank(b) /\ OlderEvr(b.evr, a.evr)
               \/ /\ Fallback(a) = Fallback(b) /\ Rank(a) = Rank(b) /\ a.evr = b.evr
                  /\ ArchFirst(a.arch, b.arch)
  <2>1. a.evr \in Triples /\ b.evr \in Triples  BY <1>1 DEF Comparable
  <2>2. /\ OlderEvr(a.evr, b.evr) \/ a.evr = b.evr \/ OlderEvr(b.evr, a.evr)
        /\ ~(OlderEvr(a.evr, b.evr) /\ OlderEvr(b.evr, a.evr))
        /\ a.evr = b.evr => ~OlderEvr(a.evr, b.evr) /\ ~OlderEvr(b.evr, a.evr)
    BY <2>1, EvrOrder
  <2>. QED  BY <1>1, <1>r, <1>f, <1>b, <2>2 DEF Beats
<1>2. ASSUME NEW a, NEW b, Comparable(a), Comparable(b) PROVE ~(Beats(a, b) /\ Beats(b, a))
  <2>1. a.evr \in Triples /\ b.evr \in Triples  BY <1>2 DEF Comparable
  <2>2. /\ ~(OlderEvr(a.evr, b.evr) /\ OlderEvr(b.evr, a.evr))
        /\ a.evr = b.evr => ~OlderEvr(a.evr, b.evr) /\ ~OlderEvr(b.evr, a.evr)
    BY <2>1, EvrOrder
  <2>3. ~(ArchFirst(a.arch, b.arch) /\ ArchFirst(b.arch, a.arch))  BY ArchOrder
  <2>. QED  BY <1>1, <1>2, <1>r, <1>f, <2>2, <2>3
<1>3. ASSUME NEW a, NEW b, Comparable(a), Comparable(b), a.arch # b.arch
      PROVE  Beats(a, b) \/ Beats(b, a)
  <2>1. a.evr \in Triples /\ b.evr \in Triples  BY <1>3 DEF Comparable
  <2>2. OlderEvr(a.evr, b.evr) \/ a.evr = b.evr \/ OlderEvr(b.evr, a.evr)
    BY <2>1, EvrOrder
  <2>3. ArchFirst(a.arch, b.arch) \/ ArchFirst(b.arch, a.arch)
    BY <1>3, ArchOrder DEF Comparable
  <2>. QED  BY <1>1, <1>3, <1>r, <1>f, <2>2, <2>3
<1>4. ASSUME NEW a, NEW b, NEW c, Comparable(a), Comparable(b), Comparable(c),
             Beats(a, b), Beats(b, c)
      PROVE  Beats(a, c)
  <2>1. a.evr \in Triples /\ b.evr \in Triples /\ c.evr \in Triples
    BY <1>4 DEF Comparable
  <2>2. OlderEvr(c.evr, b.evr) /\ OlderEvr(b.evr, a.evr) => OlderEvr(c.evr, a.evr)
    BY <2>1, EvrOrder
  <2>3. ArchFirst(a.arch, b.arch) /\ ArchFirst(b.arch, c.arch) => ArchFirst(a.arch, c.arch)
    BY ArchOrder
  <2>. QED  BY <1>1, <1>4, <1>r, <1>f, <2>2, <2>3
<1>5. \A a, b : Comparable(a) /\ Comparable(b) => ~(Beats(a, b) /\ Beats(b, a))
  BY <1>2
<1>6. \A a, b : Comparable(a) /\ Comparable(b) /\ a.arch # b.arch
                => Beats(a, b) \/ Beats(b, a)
  BY <1>3
<1>. QED  BY <1>4, <1>5, <1>6

\* One build has a name and an architecture, and each can be compared.
Distinct(pkgs) == /\ IsFiniteSet(pkgs)
                  /\ \A p \in pkgs : Comparable(p)
                  /\ \A p, q \in pkgs : Key(p) = Key(q) => p = q

\* Collapse finds, for each name, the build no other of the name beats.
LEMMA TheWinner ==
  ASSUME NEW pkgs, Distinct(pkgs), NEW n \in {p.name : p \in pkgs}
  PROVE  /\ Collapse(pkgs)[n] \in pkgs /\ Collapse(pkgs)[n].name = n
         /\ \A o \in pkgs : o.name = n /\ o # Collapse(pkgs)[n] => Beats(Collapse(pkgs)[n], o)
<1>. DEFINE S == {p \in pkgs : p.name = n}
            R == {t \in S \X S : Beats(t[1], t[2])}
<1>1. IsFiniteSet(S) /\ S # {}
  <2>1. IsFiniteSet(pkgs) /\ S \in SUBSET pkgs  BY DEF Distinct
  <2>. QED  BY <2>1, FS_Subset
<1>2. \A a \in S : Comparable(a)  BY DEF Distinct
<1>3. \A a, b \in S : a # b => a.arch # b.arch  BY DEF Distinct, Key
<1>4. \A a, b \in S : <<a, b>> \in R <=> Beats(a, b)  OBVIOUS
<1>. HIDE DEF R
<1>5. \A a, b \in S : a # b => <<a, b>> \in R \/ <<b, a>> \in R
  BY <1>2, <1>3, <1>4, BeatsOrder
<1>6. \A a, b, c \in S : <<a, b>> \in R /\ <<b, c>> \in R => <<a, c>> \in R
  BY <1>2, <1>4, BeatsOrder
<1>. HIDE DEF S
<1>7. \E m \in S : \A o \in S \ {m} : <<m, o>> \in R
  BY <1>1, <1>5, <1>6, FirstOfFinite
<1>8. \E m \in S : \A o \in S \ {m} : Beats(m, o)  BY <1>4, <1>7
<1>9. Winner(S) \in S /\ \A o \in S \ {Winner(S)} : Beats(Winner(S), o)
  BY <1>8, Zenon DEF Winner, Beats
<1>10. Collapse(pkgs)[n] = Winner(S)  BY DEF Collapse, S
<1>. QED  BY <1>9, <1>10 DEF S

\* There is no other.
LEMMA OnlyWinner ==
  ASSUME NEW pkgs, Distinct(pkgs), NEW p \in pkgs,
         \A o \in pkgs : o.name = p.name /\ o # p => Beats(p, o)
  PROVE  Collapse(pkgs)[p.name] = p
<1>1. p.name \in {q.name : q \in pkgs}  OBVIOUS
<1>. DEFINE won == Collapse(pkgs)[p.name]
<1>2. won \in pkgs /\ won.name = p.name /\ (p # won => Beats(won, p))
  BY <1>1, TheWinner
<1>3. Comparable(won) /\ Comparable(p)  BY <1>2 DEF Distinct
<1>. HIDE DEF won
<1>4. won = p  BY <1>2, <1>3, BeatsOrder
<1>. QED  BY <1>4 DEF won

\* What a merged list is: one build of each name and architecture.
LEMMA ListDistinct ==
  ASSUME NEW index, NEW S, Newest(index, S), IsFiniteSet(S), \A p \in S : Comparable(p)
  PROVE  Distinct(List(index)) /\ List(index) \subseteq S
<1>1. List(index) \subseteq S  BY DEF Newest, List
<1>2. IsFiniteSet(List(index))  BY <1>1, FS_Subset
<1>3. \A p, q \in List(index) : Key(p) = Key(q) => p = q  BY DEF Newest, List
<1>. QED  BY <1>1, <1>2, <1>3 DEF Distinct

\* The two universes of this solve before any correction.
Combined == build_universe(merge_fallback_packages(List(merged["binary"]),
                                                   List(merged["buildroot"])),
                           List(merged["source"]))
Composed == build_universe(List(merged["binary"]), List(merged["source"]))

\* Both were corrected by one probe; the sources a variant adds are beside that.
Corrected(probe) ==
  /\ compose = apply_probed_producers(Composed, probe)
  /\ LET of == apply_probed_producers(Combined, probe)
     IN  /\ {"index", "provides", "source_of", "subpackages", "sources"} \subseteq DOMAIN universe
         /\ universe.index = of.index /\ universe.provides = of.provides
         /\ universe.source_of = of.source_of /\ universe.subpackages = of.subpackages

\* The universes are those of the merged lists, whatever step of the solve is next.
UniverseInv ==
  /\ At("producers") => universe = Combined /\ compose = Composed
  /\ Indexed => Corrected(Nobody) \/ Corrected(world.probe)

\* The merged lists the universes are made of.
LEMMA MergedLists ==
  ASSUME RefreshInv, MergeInv, Merged, NEW kind \in Kinds
  PROVE  /\ Distinct(List(merged[kind]))
         /\ \A p \in List(merged[kind]) :
              /\ Fallback(p) <=> kind = "buildroot"
              /\ p.src # NoSource /\ \A v \in world.variants : v.name # p.src
              /\ p.requires \subseteq Caps
<1>. DEFINE J == {j \in DOMAIN Repos : RepoKind[Repos[j]] = kind /\ paths[j] # 0}
            T == {Builds(Repos[i], paths[i]) : i \in J}
            S == UNION T
<1>0. ReadSoFar = DOMAIN Repos /\ ~At("idle")  BY DEF ReadSoFar, Merged, At
<1>1. Newest(merged[kind], S)  BY <1>0 DEF MergeInv, Entries
<1>2. ASSUME NEW i \in J PROVE paths[i] \in Snapshots(Repos[i])
  <2>1. <<paths[i], TRUE>> \in cache[i]  BY <1>0, <1>2 DEF MergeInv
  <2>2. <<paths[i], TRUE>>[2] = TRUE /\ <<paths[i], TRUE>>[1] = paths[i]  OBVIOUS
  <2>. QED  BY <2>1, <2>2 DEF RefreshInv
<1>w. world \in Worlds  BY DEF RefreshInv
<1>3. \A i \in J : IsFiniteSet(Builds(Repos[i], paths[i]))  BY <1>2, <1>w, WorldFacts
<1>4. ASSUME NEW p \in S
      PROVE  /\ Comparable(p)
             /\ Fallback(p) <=> kind = "buildroot"
             /\ p.src # NoSource /\ \A v \in world.variants : v.name # p.src
             /\ p.requires \subseteq Caps
  <2>1. PICK i \in J : p \in Builds(Repos[i], paths[i])  OBVIOUS
  <2>2. /\ p.evr \in Triples /\ p.repo = Repos[i] /\ \E k \in DOMAIN Arches : Arches[k] = p.arch
        /\ p.src # NoSource /\ \A v \in world.variants : v.name # p.src
        /\ p.requires \subseteq Caps
    BY <2>1, <1>2, <1>w, WorldFacts
  <2>3. i \in DOMAIN Repos /\ RepoKind[Repos[i]] = kind /\ Repos[i] \in DOMAIN RepoKind
    BY ReposAssumption
  <2>4. Fallback(p) <=> kind = "buildroot"
    BY <2>1, <2>2, <2>3, ReposAssumption DEF Fallback
  <2>. QED  BY <2>2, <2>4 DEF Comparable
<1>5. IsFiniteSet(S)
  <2>1. IsFiniteSet(J)
    <3>1. DOMAIN Repos = 1..Len(Repos) /\ Len(Repos) \in Nat /\ 1 \in Int /\ Len(Repos) \in Int
      BY ReposFacts
    <3>2. IsFiniteSet(DOMAIN Repos)  BY <3>1, FS_Interval
    <3>. QED  BY <3>2, FS_Subset
  <2>2. [i \in J |-> Builds(Repos[i], paths[i])] \in Surjection(J, T)  BY DEF Surjection
  <2>3. IsFiniteSet(T)  BY <2>1, <2>2, FS_Surjection
  <2>4. \A X \in T : IsFiniteSet(X)  BY <1>3
  <2>. HIDE DEF T, J
  <2>. QED  BY <2>3, <2>4, FS_UNION
<1>. HIDE DEF S
<1>6. \A p \in S : Comparable(p)  BY <1>4
<1>7. Distinct(List(merged[kind])) /\ List(merged[kind]) \subseteq S
  BY <1>1, <1>5, <1>6, ListDistinct
<1>. QED  BY <1>4, <1>7

\* The builds of the combined universe: those of the build tags only where the
\* release has none of that name and architecture.
LEMMA CombinedList ==
  ASSUME NEW pkgs, NEW fallback, Distinct(pkgs), Distinct(fallback)
  PROVE  Distinct(merge_fallback_packages(pkgs, fallback))
<1>. DEFINE extra == {f \in fallback : \A p \in pkgs : Key(p) # Key(f)}
<1>1. IsFiniteSet(extra)
  <2>1. extra \in SUBSET fallback /\ IsFiniteSet(fallback)  BY DEF Distinct
  <2>. QED  BY <2>1, FS_Subset
<1>2. IsFiniteSet(pkgs \cup extra)  BY <1>1, FS_Union DEF Distinct
<1>3. merge_fallback_packages(pkgs, fallback) = pkgs \cup extra
  BY DEF merge_fallback_packages
<1>4. \A p \in pkgs \cup extra : Comparable(p)  BY DEF Distinct
<1>5. \A p, q \in pkgs \cup extra : Key(p) = Key(q) => p = q  BY DEF Distinct
<1>. QED  BY <1>2, <1>3, <1>4, <1>5 DEF Distinct

(* What build_universe makes of a list. *)

IndexedBy(u, won, foreign) ==
  /\ DOMAIN u.index = {Plain(n) : n \in DOMAIN won} \cup {Key(f) : f \in foreign}
  /\ \A n \in DOMAIN won : u.index[Plain(n)] = won[n]
  /\ \A f \in foreign : u.index[Key(f)] = f
  /\ \A n : Len(Plain(n)) = 1 /\ Plain(n)[1] = n
  /\ \A f : Len(Key(f)) = 2

\* build_universe indexes each winner by its name and each other build by
\* its name and architecture.
LEMMA UniverseIndex ==
  ASSUME NEW pkgs, NEW sources, Distinct(pkgs)
  PROVE  IndexedBy(build_universe(pkgs, sources), Collapse(pkgs),
                   Foreign(pkgs, Collapse(pkgs)))
<1>. SUFFICES ASSUME NEW u, NEW won, NEW foreign, u = build_universe(pkgs, sources),
                     won = Collapse(pkgs), foreign = Foreign(pkgs, won)
              PROVE  IndexedBy(u, won, foreign)
  OBVIOUS
<1>1. \A n : Len(Plain(n)) = 1 /\ Plain(n)[1] = n  BY DEF Plain
<1>2. \A f : Len(Key(f)) = 2  BY DEF Key
<1>3. foreign \subseteq pkgs  BY DEF Foreign
<1>5. u.index = Index(won, foreign)  BY DEF build_universe, Assemble
<1>6. DOMAIN u.index = {Plain(n) : n \in DOMAIN won} \cup {Key(f) : f \in foreign}
  BY <1>5 DEF Index
<1>7. \A n \in DOMAIN won : u.index[Plain(n)] = won[n]  BY <1>1, <1>5 DEF Index
<1>8. ASSUME NEW f \in foreign PROVE u.index[Key(f)] = f
  <2>1. \A g \in foreign : Key(g) = Key(f) => g = f  BY <1>3 DEF Distinct
  <2>2. u.index[Key(f)] = CHOOSE g \in foreign : Key(g) = Key(f)  BY <1>2, <1>5 DEF Index
  <2>. QED  BY <2>1, <2>2
<1>. QED  BY <1>1, <1>2, <1>6, <1>7, <1>8 DEF IndexedBy

\* What CapabilityHonest asks of one universe.
Honest(u) ==
  \A c \in Caps :
    /\ \A p \in u.provides[c] : c \in Offers(u.index[p])
    /\ u.provides[c] = {} => \A p \in DOMAIN u.index : c \notin Offers(u.index[p])
    /\ (\E p \in u.provides[c] : Len(p) = 1) => \A p \in u.provides[c] : Len(p) = 1

\* The first architecture that answers, where one does.
LEMMA FirstForeignAnswers ==
  ASSUME NEW foreign, NEW c, \A f \in foreign : Comparable(f)
  PROVE  /\ \A p \in FirstForeign(foreign, c) :
              \E f \in foreign : p = Key(f) /\ c \in Offers(f)
         /\ FirstForeign(foreign, c) = {} => \A f \in foreign : c \notin Offers(f)
<1>. DEFINE with == {i \in DOMAIN Arches : ForeignOf(foreign, Arches[i], c) # {}}
            first == CHOOSE i \in with : \A j \in with : i <= j
<1>1. FirstForeign(foreign, c) = IF with = {} THEN {} ELSE ForeignOf(foreign, Arches[first], c)
  BY DEF FirstForeign
<1>2. \A arch : \A p \in ForeignOf(foreign, arch, c) :
        \E f \in foreign : p = Key(f) /\ c \in Offers(f)
  BY DEF ForeignOf, arch_qualified, Key
<1>3. with # {} => first \in with
  <2>1. with \in SUBSET Nat  BY WorldAssumption
  <2>. QED  BY <2>1, LeastOf
<1>4. with # {} => FirstForeign(foreign, c) # {}  BY <1>1, <1>3
<1>5. ASSUME NEW f \in foreign, c \in Offers(f) PROVE with # {}
  <2>1. PICK k \in DOMAIN Arches : Arches[k] = f.arch  BY DEF Comparable
  <2>2. arch_qualified(f.name, f.arch) \in ForeignOf(foreign, f.arch, c)
    BY <1>5 DEF ForeignOf
  <2>. QED  BY <2>1, <2>2
<1>. HIDE DEF with, first
<1>. QED  BY <1>1, <1>2, <1>4, <1>5

\* Its capabilities are answered by builds of its index that provide them.
LEMMA AnswersHonest ==
  ASSUME NEW pkgs, NEW sources, Distinct(pkgs)
  PROVE  Honest(build_universe(pkgs, sources))
<1>. SUFFICES ASSUME NEW u, NEW won, NEW foreign, u = build_universe(pkgs, sources),
                     won = Collapse(pkgs), foreign = Foreign(pkgs, won)
              PROVE  Honest(u)
  OBVIOUS
<1>1. IndexedBy(u, won, foreign)  BY UniverseIndex
<1>f. foreign \subseteq pkgs  BY DEF Foreign
<1>2. \A c \in Caps : u.provides[c] = IF Natives(won, c) # {} THEN Natives(won, c)
                                     ELSE FirstForeign(foreign, c)
  BY DEF build_universe, Assemble, Answers
<1>3. \A f \in foreign : Comparable(f)  BY <1>f DEF Distinct
<1>4. SUFFICES ASSUME NEW c \in Caps
      PROVE  /\ \A p \in u.provides[c] : c \in Offers(u.index[p])
             /\ u.provides[c] = {} => \A p \in DOMAIN u.index : c \notin Offers(u.index[p])
             /\ (\E p \in u.provides[c] : Len(p) = 1) => \A p \in u.provides[c] : Len(p) = 1
  BY DEF Honest
<1>5. \A p : p \in Natives(won, c) <=> \E n \in DOMAIN won : p = Plain(n) /\ c \in Offers(won[n])
  BY DEF Natives
<1>6. /\ \A p \in FirstForeign(foreign, c) : \E f \in foreign : p = Key(f) /\ c \in Offers(f)
      /\ FirstForeign(foreign, c) = {} => \A f \in foreign : c \notin Offers(f)
  BY <1>3, FirstForeignAnswers
<1>7. CASE Natives(won, c) # {}  BY <1>1, <1>2, <1>5, <1>7 DEF IndexedBy
<1>8. CASE Natives(won, c) = {}
  <2>1. u.provides[c] = FirstForeign(foreign, c)  BY <1>2, <1>8
  <2>2. \A n \in DOMAIN won : c \notin Offers(won[n])  BY <1>5, <1>8
  <2>3. \A p \in u.provides[c] : c \in Offers(u.index[p]) /\ Len(p) = 2
    BY <2>1, <1>1, <1>6 DEF IndexedBy
  <2>4. ASSUME u.provides[c] = {}, NEW p \in DOMAIN u.index PROVE c \notin Offers(u.index[p])
    BY <2>1, <2>2, <2>4, <1>1, <1>6 DEF IndexedBy
  <2>. QED  BY <2>3, <2>4
<1>. QED  BY <1>7, <1>8

\* What a correction by probe reports does to a universe: nothing to the index
\* and the answers; a package keeps its maker unless that one was probed and
\* does not make it.
Keeps(won, probe, n) == ~(/\ won[n].src \in DOMAIN probe /\ probe[won[n].src] # {}
                          /\ Plain(n) \notin probe[won[n].src])
MadeBy(u, won, probe) ==
  /\ DOMAIN u.source_of = {Plain(n) : n \in {m \in DOMAIN won : Keeps(won, probe, m)}}
  /\ \A n \in DOMAIN won : Keeps(won, probe, n) =>
       /\ u.source_of[Plain(n)] = won[n].src
       /\ Plain(n) \in Subpackages(u, won[n].src)

\* apply_probed_producers changes who makes a package and nothing else.
LEMMA CorrectedUniverse ==
  ASSUME NEW pkgs, NEW sources, NEW probe, NEW base, base = build_universe(pkgs, sources)
  PROVE  /\ apply_probed_producers(base, probe).index = base.index
         /\ apply_probed_producers(base, probe).provides = base.provides
         /\ MadeBy(apply_probed_producers(base, probe), Collapse(pkgs), probe)
<1>. DEFINE gone == Unmade(base, probe)
<1>. SUFFICES ASSUME NEW u, NEW won, u = apply_probed_producers(base, probe),
                     won = Collapse(pkgs)
              PROVE  u.index = base.index /\ u.provides = base.provides /\ MadeBy(u, won, probe)
  OBVIOUS
<1>0. \A n : Plain(n)[1] = n  BY DEF Plain
<1>1. /\ base.source_of = [p \in {Plain(n) : n \in DOMAIN won} |-> won[p[1]].src]
      /\ base.subpackages = [s \in {won[n].src : n \in DOMAIN won} |->
                               {Plain(n) : n \in {m \in DOMAIN won : won[m].src = s}}]
      /\ base = [index |-> base.index, provides |-> base.provides,
                 source_of |-> base.source_of, foreign_of |-> base.foreign_of,
                 subpackages |-> base.subpackages, sources |-> base.sources]
  BY DEF build_universe, Assemble
<1>2. /\ u.index = base.index /\ u.provides = base.provides
      /\ u.source_of = [p \in DOMAIN base.source_of \ gone |-> base.source_of[p]]
      /\ u.subpackages = [s \in DOMAIN base.subpackages |-> base.subpackages[s] \ gone]
  <2>. HIDE DEF gone
  <2>. QED  BY <1>1 DEF apply_probed_producers, Without, gone
<1>3. /\ DOMAIN base.source_of = {Plain(n) : n \in DOMAIN won}
      /\ DOMAIN base.subpackages = {won[n].src : n \in DOMAIN won}
      /\ \A n \in DOMAIN won : base.source_of[Plain(n)] = won[n].src
      /\ \A n \in DOMAIN won : Plain(n) \in base.subpackages[won[n].src]
      /\ \A s \in DOMAIN base.subpackages, n \in DOMAIN won :
           Plain(n) \in base.subpackages[s] => s = won[n].src
  BY <1>0, <1>1
<1>4. \A n \in DOMAIN won : Plain(n) \in gone <=> ~Keeps(won, probe, n)
  BY <1>3 DEF gone, Unmade, Keeps
<1>. HIDE DEF gone
<1>5. DOMAIN u.source_of = {Plain(n) : n \in {m \in DOMAIN won : Keeps(won, probe, m)}}
  BY <1>2, <1>3, <1>4
<1>6. ASSUME NEW n \in DOMAIN won, Keeps(won, probe, n)
      PROVE  u.source_of[Plain(n)] = won[n].src /\ Plain(n) \in Subpackages(u, won[n].src)
  <2>1. Plain(n) \notin gone  BY <1>4, <1>6
  <2>2. u.source_of[Plain(n)] = won[n].src  BY <2>1, <1>2, <1>3
  <2>3. /\ won[n].src \in DOMAIN u.subpackages
        /\ Plain(n) \in u.subpackages[won[n].src]
    BY <2>1, <1>2, <1>3
  <2>. QED  BY <2>2, <2>3 DEF Subpackages
<1>. QED  BY <1>2, <1>5, <1>6 DEF MadeBy

(* UniverseInv, action by action. *)

\* Before the universes are there, a run reads and merges.
EarlyPhases == {"idle", "sync", "compare", "fetch", "write", "stale", "arguments", "open",
                "read", "combine"}

EarlyStep == \/ \E offline \in BOOLEAN : Start(offline)
             \/ Sync \/ Kill \/ Parse \/ Again

\* These steps lead to such a phase, or are a refresh, and leave the world and
\* the lockfile.
LEMMA EarlySteps ==
  RefreshInv /\ EarlyStep => run'.phase \in EarlyPhases /\ UNCHANGED <<world, lock>>
<1>. SUFFICES ASSUME RefreshInv, EarlyStep
              PROVE  run'.phase \in EarlyPhases /\ UNCHANGED <<world, lock>>
  OBVIOUS
<1>0. run \in RunType  BY DEF RefreshInv
<1>1. CASE \E offline \in BOOLEAN : Start(offline)
  BY <1>0, <1>1 DEF Start, RunType, EarlyPhases
<1>2. CASE Sync
  <2>1. UNCHANGED <<world, lock>>
    BY <1>2 DEF Sync, ReadRepomd, Compare, Fetch, Write, RemoveStale, UseLocal
  <2>. QED  BY <1>2, <2>1, SyncPhases DEF EarlyPhases
<1>3. CASE Kill
  <2>1. Idle \in RunType /\ Idle.phase = "idle"  BY <1>0, RunMoves
  <2>. QED  BY <1>3, <2>1 DEF Kill, RunType, EarlyPhases
<1>4. CASE Parse
  <2>1. run' \in {run, Idle, GoTo("open"), GoTo("read"), NextToRead}
    BY <1>4 DEF Parse, Arguments, Open, ReadEntry, LayerRepo
  <2>2. run.phase \in {"arguments", "open", "read"} /\ UNCHANGED <<world, lock>>
    BY <1>4 DEF Parse, Arguments, Open, ReadEntry, LayerRepo, At
  <2>. QED  BY <1>0, <2>1, <2>2, RunMoves DEF RunPhases, EarlyPhases
<1>5. CASE Again
  BY <1>0, <1>5, RunMoves DEF Again, RunPhases, EarlyPhases
<1>. QED  BY <1>1, <1>2, <1>3, <1>4, <1>5 DEF EarlyStep

\* It holds before the first run.
LEMMA InitUniverse == Init => UniverseInv
BY DEF Init, UniverseInv, At, Indexed

\* It asks nothing before there are universes.
LEMMA EarlyUniverse == run'.phase \in EarlyPhases => UniverseInv'
BY DEF EarlyPhases, UniverseInv, At, Indexed

\* The universes are kept, but for what a source adds.
LEMMA UniverseStays ==
  ASSUME UniverseInv, UNCHANGED <<world, merged, compose>>,
         DOMAIN universe' = DOMAIN universe,
         universe'.index = universe.index, universe'.provides = universe.provides,
         universe'.source_of = universe.source_of,
         universe'.subpackages = universe.subpackages,
         At("producers")' => At("producers") /\ UNCHANGED universe,
         Indexed' => Indexed
  PROVE  UniverseInv'
BY DEF UniverseInv, Corrected, Combined, Composed

\* Producers corrects both universes by the same probe, or neither.
LEMMA ProducersUniverse == RefreshInv /\ UniverseInv /\ Producers => UniverseInv'
<1>. SUFFICES ASSUME RefreshInv, UniverseInv, Producers PROVE UniverseInv'  OBVIOUS
<1>0. run \in RunType  BY DEF RefreshInv
<1>1. run'.phase = "images"  BY <1>0, RunMoves DEF Producers, RunPhases
<1>2. universe = Combined /\ compose = Composed  BY DEF Producers, UniverseInv
<1>3. UNCHANGED <<world, merged>>  BY DEF Producers, mergeVars
<1>4. Reports \in {Nobody, world.probe}  BY DEF Reports
<1>5. /\ universe' = apply_probed_producers(Combined, Reports)
      /\ compose' = apply_probed_producers(Composed, Reports)
  BY <1>2 DEF Producers
<1>6. DOMAIN universe' = {"index", "provides", "source_of", "foreign_of", "subpackages",
                          "sources"}
  <2>1. DOMAIN Combined = {"index", "provides", "source_of", "foreign_of", "subpackages",
                           "sources"}
    BY DEF Combined, build_universe, Assemble
  <2>. QED  BY <1>5, <2>1 DEF apply_probed_producers, Without
<1>7. Combined' = Combined /\ Composed' = Composed  BY <1>3 DEF Combined, Composed
<1>8. Corrected(Nobody)' \/ Corrected(world.probe)'
  <2>1. CASE Reports = Nobody  BY <1>3, <1>5, <1>6, <1>7, <2>1 DEF Corrected
  <2>2. CASE Reports = world.probe  BY <1>3, <1>5, <1>6, <1>7, <2>2 DEF Corrected
  <2>. QED  BY <1>4, <2>1, <2>2
<1>. QED  BY <1>1, <1>8 DEF UniverseInv, At

\* The other steps of the solve leave the two universes.
LEMMA SolveUniverse ==
  RefreshInv /\ UniverseInv /\ (Combine \/ Images \/ Sources \/ Emit) => UniverseInv'
<1>. SUFFICES ASSUME RefreshInv, UniverseInv, Combine \/ Images \/ Sources \/ Emit
              PROVE  UniverseInv'
  OBVIOUS
<1>0. run \in RunType  BY DEF RefreshInv
<1>1. CASE Combine
  <2>1. run'.phase = "producers"  BY <1>0, <1>1, RunMoves DEF Combine, RunPhases
  <2>2. (universe = Combined /\ compose = Composed)'
    BY <1>1 DEF Combine, Combined, Composed, mergeVars
  <2>. QED  BY <2>1, <2>2 DEF UniverseInv, At, Indexed
<1>2. CASE Images \/ Sources \/ Emit
  <2>1. UNCHANGED <<world, merged, compose>> /\ Indexed
    BY <1>2 DEF Images, Sources, Emit, mergeVars, solveVars, Indexed, At
  <2>2. run'.phase # "producers"
    <3>1. \/ run' \in {Idle, GoTo("sources"), GoTo("solve")}
          \/ run' = [run EXCEPT !.phase = "again", !.pass = 2, !.at = 1]
      BY <1>2 DEF Images, Sources, Emit
    <3>2. CASE run' = [run EXCEPT !.phase = "again", !.pass = 2, !.at = 1]
      BY <1>0, <3>2 DEF RunType
    <3>. QED  BY <1>0, <3>1, <3>2, RunMoves DEF RunPhases
  <2>3. \/ universe' = universe
        \/ \E name, of : universe' = WithSource(universe, name, of)
    BY <1>2, Zenon DEF Images, Sources, Emit, solveVars
  <2>4. {"index", "provides", "source_of", "subpackages", "sources"} \subseteq DOMAIN universe
    BY <2>1 DEF UniverseInv, Corrected
  <2>5. /\ DOMAIN universe' = DOMAIN universe
        /\ universe'.index = universe.index /\ universe'.provides = universe.provides
        /\ universe'.source_of = universe.source_of
        /\ universe'.subpackages = universe.subpackages
    BY <2>3, <2>4 DEF WithSource
  <2>. QED  BY <2>1, <2>2, <2>5, UniverseStays DEF At
<1>. QED  BY <1>1, <1>2

\* Every step keeps it.
LEMMA NextUniverse == RefreshInv /\ UniverseInv /\ [Next]_vars => UniverseInv'
<1>. SUFFICES ASSUME RefreshInv, UniverseInv, [Next]_vars PROVE UniverseInv'  OBVIOUS
<1>1. CASE UNCHANGED vars
  BY <1>1, UniverseStays DEF vars, mergeVars, solveVars, At, Indexed
<1>2. CASE EarlyStep
  BY <1>2, EarlySteps, EarlyUniverse
<1>3. ASSUME NEW i \in DOMAIN Repos, Push(i) PROVE UniverseInv'
  <2>1. run'.phase = run.phase  BY <1>3 DEF Push, RefreshInv, RunType
  <2>. QED  BY <1>3, <2>1, UniverseStays DEF Push, mergeVars, solveVars, At, Indexed
<1>. QED  BY <1>1, <1>2, <1>3, ProducersUniverse, SolveUniverse DEF Next, Solve, EarlyStep

(* What the two universes hold, once they are corrected. *)

\* The builds of the release, and those with the build tags' added.
Release == List(merged["binary"])
WithTags == merge_fallback_packages(Release, List(merged["buildroot"]))

\* The lists are finite, tell their builds apart, and tags' builds are
\* fallbacks only.
LEMMA UniverseLists ==
  ASSUME RefreshInv, MergeInv, Merged
  PROVE  /\ Distinct(Release) /\ Distinct(WithTags)
         /\ \A p \in Release : /\ ~Fallback(p) /\ p.src # NoSource
                               /\ \A v \in world.variants : v.name # p.src
         /\ \A p \in WithTags : Fallback(p) <=> p \notin Release
         /\ Release \subseteq WithTags
         /\ \A p \in WithTags : p.requires \subseteq Caps
<1>0. "binary" \in Kinds /\ "buildroot" \in Kinds /\ "binary" # "buildroot"  BY DEF Kinds
<1>1. /\ Distinct(Release)
      /\ \A p \in Release : /\ ~Fallback(p) /\ p.src # NoSource
                            /\ p.requires \subseteq Caps
                            /\ \A v \in world.variants : v.name # p.src
  BY <1>0, MergedLists DEF Release
<1>2. /\ Distinct(List(merged["buildroot"]))
      /\ \A p \in List(merged["buildroot"]) : Fallback(p) /\ p.requires \subseteq Caps
  BY <1>0, MergedLists
<1>3. Distinct(WithTags)  BY <1>1, <1>2, CombinedList DEF WithTags
<1>4. /\ Release \subseteq WithTags
      /\ \A p \in WithTags : p \in Release \/ p \in List(merged["buildroot"])
  BY DEF WithTags, merge_fallback_packages
<1>. QED  BY <1>1, <1>2, <1>3, <1>4

\* The winner of a name in the release wins it in the combined universe, and
\* what wins there is from a build tag only where the release has no such name.
LEMMA SameWinner ==
  ASSUME RefreshInv, MergeInv, Merged
  PROVE  /\ \A n \in DOMAIN Collapse(Release) :
              /\ n \in DOMAIN Collapse(WithTags)
              /\ Collapse(WithTags)[n] = Collapse(Release)[n]
         /\ \A n \in DOMAIN Collapse(WithTags) :
              ~Fallback(Collapse(WithTags)[n]) => n \in DOMAIN Collapse(Release)
         /\ \A n \in DOMAIN Collapse(Release) : Collapse(Release)[n] \in Release
<1>0. /\ DOMAIN Collapse(Release) = {p.name : p \in Release}
      /\ DOMAIN Collapse(WithTags) = {p.name : p \in WithTags}
  BY DEF Collapse
<1>1. /\ Distinct(Release) /\ Distinct(WithTags) /\ Release \subseteq WithTags
      /\ \A p \in Release : ~Fallback(p)
      /\ \A p \in WithTags : Fallback(p) <=> p \notin Release
  BY UniverseLists
<1>2. ASSUME NEW n \in DOMAIN Collapse(Release)
      PROVE  /\ n \in DOMAIN Collapse(WithTags) /\ Collapse(Release)[n] \in Release
             /\ Collapse(WithTags)[n] = Collapse(Release)[n]
  <2>1. PICK p : p = Collapse(Release)[n]  OBVIOUS
  <2>2. /\ p \in Release /\ p.name = n
        /\ \A o \in Release : o.name = n /\ o # p => Beats(p, o)
    BY <1>0, <1>1, <1>2, <2>1, TheWinner
  <2>3. ASSUME NEW o \in WithTags, o.name = p.name, o # p PROVE Beats(p, o)
    <3>1. CASE o \in Release  BY <2>2, <2>3, <3>1
    <3>2. CASE o \notin Release
      <4>1. Fallback(o) /\ ~Fallback(p)  BY <1>1, <2>2, <3>2
      <4>. QED  BY <4>1 DEF Beats, better
    <3>. QED  BY <3>1, <3>2
  <2>4. Collapse(WithTags)[p.name] = p  BY <1>1, <2>2, <2>3, OnlyWinner
  <2>. QED  BY <1>0, <1>1, <2>1, <2>2, <2>4
<1>3. ASSUME NEW n \in DOMAIN Collapse(WithTags), ~Fallback(Collapse(WithTags)[n])
      PROVE  n \in DOMAIN Collapse(Release)
  <2>1. Collapse(WithTags)[n] \in WithTags /\ Collapse(WithTags)[n].name = n
    BY <1>0, <1>1, TheWinner
  <2>. QED  BY <1>0, <1>1, <1>3, <2>1
<1>. QED  BY <1>2, <1>3

\* The corrected universes, in terms of the merged lists and of one probe.
LEMMA CorrectedBoth ==
  ASSUME RefreshInv, MergeInv, UniverseInv, Indexed
  PROVE  \E probe :
           /\ Honest(universe) /\ Honest(compose)
           /\ IndexedBy(universe, Collapse(WithTags), Foreign(WithTags, Collapse(WithTags)))
           /\ IndexedBy(compose, Collapse(Release), Foreign(Release, Collapse(Release)))
           /\ MadeBy(universe, Collapse(WithTags), probe)
           /\ MadeBy(compose, Collapse(Release), probe)
<1>0. Merged  BY DEF Indexed, Merged
<1>1. Distinct(Release) /\ Distinct(WithTags)  BY <1>0, UniverseLists
<1>2. PICK probe : Corrected(probe)  BY DEF UniverseInv
<1>. DEFINE of == apply_probed_producers(Combined, probe)
            sources == List(merged["source"])
<1>3. Combined = build_universe(WithTags, sources) /\ Composed = build_universe(Release, sources)
  BY DEF Combined, Composed, WithTags, Release
<1>4. /\ compose = apply_probed_producers(Composed, probe)
      /\ universe.index = of.index /\ universe.provides = of.provides
      /\ universe.source_of = of.source_of /\ universe.subpackages = of.subpackages
  BY <1>2 DEF Corrected
<1>5. /\ of.index = Combined.index /\ of.provides = Combined.provides
      /\ MadeBy(of, Collapse(WithTags), probe)
  BY <1>3, CorrectedUniverse
<1>6. /\ compose.index = Composed.index /\ compose.provides = Composed.provides
      /\ MadeBy(compose, Collapse(Release), probe)
  BY <1>3, <1>4, CorrectedUniverse
<1>. HIDE DEF of
<1>7. /\ Honest(Combined) /\ Honest(Composed)
      /\ IndexedBy(Combined, Collapse(WithTags), Foreign(WithTags, Collapse(WithTags)))
      /\ IndexedBy(Composed, Collapse(Release), Foreign(Release, Collapse(Release)))
  BY <1>1, <1>3, AnswersHonest, UniverseIndex
<1>8. Honest(universe) /\ Honest(compose)  BY <1>4, <1>5, <1>6, <1>7 DEF Honest
<1>9. /\ IndexedBy(universe, Collapse(WithTags), Foreign(WithTags, Collapse(WithTags)))
      /\ IndexedBy(compose, Collapse(Release), Foreign(Release, Collapse(Release)))
  BY <1>4, <1>5, <1>6, <1>7 DEF IndexedBy
<1>10. MadeBy(universe, Collapse(WithTags), probe)
  BY <1>4, <1>5 DEF MadeBy, Subpackages
<1>. QED  BY <1>6, <1>8, <1>9, <1>10

\* The property follows from the two corrected universes.
LEMMA AnswersAreHonest == RefreshInv /\ MergeInv /\ UniverseInv => CapabilityHonest
BY CorrectedBoth DEF CapabilityHonest, Honest

\* A build of the release wins in the larger universe, too, and is corrected
\* alike.
LEMMA CorrectedAgree == RefreshInv /\ MergeInv /\ UniverseInv => UniversesAgree
<1>. SUFFICES ASSUME RefreshInv, MergeInv, UniverseInv, Indexed
              PROVE  /\ \A p \in DOMAIN compose.index :
                          /\ ~Fallback(compose.index[p])
                          /\ Len(p) = 1 => universe.index[p] = compose.index[p]
                     /\ \A p \in DOMAIN compose.source_of \cup DOMAIN universe.source_of :
                          ~Fallback(universe.index[p]) =>
                            /\ p \in DOMAIN compose.source_of \cap DOMAIN universe.source_of
                            /\ universe.source_of[p] = compose.source_of[p]
  BY DEF UniversesAgree
<1>0. Merged  BY DEF Indexed, Merged
<1>. DEFINE small == Collapse(Release)
            large == Collapse(WithTags)
            others == Foreign(Release, small)
<1>1. PICK probe :
        /\ IndexedBy(universe, large, Foreign(WithTags, large))
        /\ IndexedBy(compose, small, others)
        /\ MadeBy(universe, large, probe)
        /\ MadeBy(compose, small, probe)
  BY CorrectedBoth
<1>2. /\ \A n \in DOMAIN small : n \in DOMAIN large /\ large[n] = small[n]
      /\ \A n \in DOMAIN large : ~Fallback(large[n]) => n \in DOMAIN small
      /\ \A n \in DOMAIN small : small[n] \in Release
  BY <1>0, SameWinner
<1>3. \A p \in Release : ~Fallback(p)  BY <1>0, UniverseLists
<1>4. others \subseteq Release  BY DEF Foreign
<1>. HIDE DEF small, large, others
<1>5. ASSUME NEW p \in DOMAIN compose.index
      PROVE  /\ ~Fallback(compose.index[p])
             /\ Len(p) = 1 => universe.index[p] = compose.index[p]
  <2>1. CASE \E n \in DOMAIN small : p = Plain(n)
    BY <2>1, <1>1, <1>2, <1>3 DEF IndexedBy
  <2>2. CASE \E f \in others : p = Key(f)
    BY <2>2, <1>1, <1>3, <1>4 DEF IndexedBy
  <2>. QED  BY <2>1, <2>2, <1>1 DEF IndexedBy
<1>6. ASSUME NEW p \in DOMAIN compose.source_of \cup DOMAIN universe.source_of,
             ~Fallback(universe.index[p])
      PROVE  /\ p \in DOMAIN compose.source_of \cap DOMAIN universe.source_of
             /\ universe.source_of[p] = compose.source_of[p]
  <2>1. PICK n \in DOMAIN small \cup DOMAIN large :
          /\ p = Plain(n)
          /\ \/ n \in DOMAIN small /\ Keeps(small, probe, n)
             \/ n \in DOMAIN large /\ Keeps(large, probe, n)
    BY <1>1 DEF MadeBy
  <2>2. n \in DOMAIN large /\ universe.index[p] = large[n]
    BY <2>1, <1>1, <1>2 DEF IndexedBy
  <2>3. n \in DOMAIN small /\ large[n] = small[n]  BY <2>2, <1>2, <1>6
  <2>4. Keeps(small, probe, n) /\ Keeps(large, probe, n)  BY <2>1, <2>3 DEF Keeps
  <2>. QED  BY <2>1, <2>2, <2>3, <2>4, <1>1 DEF MadeBy
<1>. QED  BY <1>5, <1>6

\* What the solve's universes answer for a capability is a build of their index
\* that provides it: build_universe and apply_probed_producers.
THEOREM SolveAnswersHonestly == Spec => []CapabilityHonest
<1>1. Spec => [](RefreshInv /\ MergeInv /\ UniverseInv)
  BY InitRefresh, InitMerge, InitUniverse, NextRefresh, NextMerge, NextUniverse, PTL DEF Spec
<1>. QED  BY <1>1, AnswersAreHonest, PTL

\* The compose universe never holds a build tag's package, and where it knows a
\* package the larger universe of the build graph takes the same build and names
\* the same maker: merge_fallback_packages, build_universe and
\* apply_probed_producers.
THEOREM SolveUniversesAgree == Spec => []UniversesAgree
<1>1. Spec => [](RefreshInv /\ MergeInv /\ UniverseInv)
  BY InitRefresh, InitMerge, InitUniverse, NextRefresh, NextMerge, NextUniverse, PTL DEF Spec
<1>. QED  BY <1>1, CorrectedAgree, PTL

(* The build list and the lockfile. *)

\* The arguments were let through, and where the image's sources are built the
\* build list is theirs, without the prebuilt ones.
SelectInv ==
  /\ run.phase \in {"open", "read"} \/ (Merged /\ ~At("again")) => arguments_fit
  /\ At("solve") /\ world.select =>
       /\ Derivable(images.members, compose.source_of, world.prebuilt)
       /\ \E had \in SUBSET world.variants :
            build = world.explicit
                      \cup source_build_set(images.members, compose.source_of, world.prebuilt)
                      \cup {v.name : v \in had}

\* Once it is written, a lockfile's policy stays the one its payload gives, and
\* every rpm of the payload is built or excused, not both.
MadeOrExcused ==
  world.select =>
    \A pin \in lock.payload :
      (pin.build.src \in DOMAIN lock.built) # \E e \in lock.policy.exceptions :
         e.package = pin.name /\ e.source \in {NoSource, pin.build.src}
LockInv == lock # Nobody => validate_lock_source_policy /\ MadeOrExcused

\* They hold before the first run.
LEMMA InitSelect == Init => SelectInv /\ LockInv
BY DEF Init, SelectInv, Merged, At, LockInv

\* Nothing the list was made of changes.
LEMMA SelectStays ==
  ASSUME SelectInv, UNCHANGED <<world, compose, images, build>>,
         run'.phase \in {"open", "read"} \/ (Merged' /\ ~At("again")') => arguments_fit,
         At("solve")' => At("solve")
  PROVE  SelectInv'
BY DEF SelectInv, arguments_fit

\* Before the universes are there, the arguments are checked and kept.
LEMMA EarlySelect == RefreshInv /\ SelectInv /\ EarlyStep => SelectInv'
<1>. SUFFICES ASSUME RefreshInv, SelectInv, EarlyStep PROVE SelectInv'  OBVIOUS
<1>0. run'.phase \in EarlyPhases /\ UNCHANGED world  BY EarlySteps
<1>1. ~At("solve")'  BY <1>0 DEF EarlyPhases, At
<1>2. run'.phase \in {"open", "read", "combine"} => arguments_fit
  <2>0. run \in RunType  BY DEF RefreshInv
  <2>1. CASE Parse
    <3>1. CASE Arguments
      <4>1. Idle.phase = "idle"  BY <2>0, RunMoves
      <4>. QED  BY <3>1, <4>1 DEF Arguments
    <3>2. CASE Open \/ (\E pkg \in unread : ReadEntry(pkg)) \/ LayerRepo
      BY <3>2 DEF Open, ReadEntry, LayerRepo, At, SelectInv
    <3>. QED  BY <2>1, <3>1, <3>2 DEF Parse
  <2>2. CASE Sync  BY <2>2, SyncPhases
  <2>3. CASE Kill
    <3>1. Idle \in RunType /\ Idle.phase = "idle"  BY <2>0, RunMoves
    <3>. QED  BY <2>3, <3>1 DEF Kill, RunType
  <2>4. CASE Again  BY <2>0, <2>4, RunMoves DEF Again, RunPhases
  <2>5. CASE \E offline \in BOOLEAN : Start(offline)  BY <2>0, <2>5 DEF Start, RunType
  <2>. QED  BY <2>1, <2>2, <2>3, <2>4, <2>5 DEF EarlyStep
<1>3. arguments_fit' = arguments_fit  BY <1>0 DEF arguments_fit
<1>. QED  BY <1>0, <1>1, <1>2, <1>3 DEF SelectInv, EarlyPhases, Merged, At

\* Sources makes the build list of the image it was given, or of an argument
\* let through.
LEMMA SolveSelect ==
  RefreshInv /\ SelectInv /\ (Combine \/ Producers \/ Images \/ Sources \/ Emit) => SelectInv'
<1>. SUFFICES ASSUME RefreshInv, SelectInv, Combine \/ Producers \/ Images \/ Sources \/ Emit
              PROVE  SelectInv'
  OBVIOUS
<1>0. run \in RunType  BY DEF RefreshInv
<1>1. arguments_fit /\ UNCHANGED world
  BY DEF Combine, Producers, Images, Sources, Emit, At, Merged, SelectInv
<1>2. arguments_fit'  BY <1>1 DEF arguments_fit
<1>3. CASE Sources /\ At("solve")'
  <2>1. /\ UNCHANGED <<compose, images>>
        /\ world.select => Derivable(images.members, compose.source_of, world.prebuilt)
        /\ build' = world.explicit
                \cup (IF world.select
                      THEN source_build_set(images.members, compose.source_of, world.prebuilt)
                      ELSE {})
                \cup {v.name : v \in Declared}
    <3>1. Idle.phase = "idle"  BY <1>0, RunMoves
    <3>. QED  BY <1>3, <3>1 DEF Sources, At
  <2>2. Declared \in SUBSET world.variants  BY DEF Declared
  <2>. HIDE DEF Declared
  <2>3. world.select =>
          \E had \in SUBSET world.variants :
            build' = world.explicit
                       \cup source_build_set(images.members, compose.source_of, world.prebuilt)
                       \cup {v.name : v \in had}
    BY <2>1, <2>2
  <2>. QED  BY <1>1, <1>2, <2>1, <2>3 DEF SelectInv
<1>4. CASE ~At("solve")'  BY <1>2, <1>4 DEF SelectInv
<1>5. CASE Combine \/ Producers \/ Images \/ Emit
  <2>1. run'.phase # "solve"
    <3>1. \/ run' \in {Idle, GoTo("producers"), GoTo("images"), GoTo("sources")}
          \/ run' = [run EXCEPT !.phase = "again", !.pass = 2, !.at = 1]
      BY <1>5 DEF Combine, Producers, Images, Emit
    <3>2. CASE run' = [run EXCEPT !.phase = "again", !.pass = 2, !.at = 1]
      BY <1>0, <3>2 DEF RunType
    <3>. QED  BY <1>0, <3>1, <3>2, RunMoves DEF RunPhases
  <2>. QED  BY <1>4, <2>1 DEF At
<1>. QED  BY <1>3, <1>4, <1>5

\* Every step keeps it.
LEMMA NextSelect == RefreshInv /\ SelectInv /\ [Next]_vars => SelectInv'
<1>. SUFFICES ASSUME RefreshInv, SelectInv, [Next]_vars PROVE SelectInv'  OBVIOUS
<1>1. CASE UNCHANGED vars
  BY <1>1, SelectStays DEF vars, solveVars, At, Merged, SelectInv
<1>2. CASE EarlyStep
  BY <1>2, EarlySelect
<1>3. ASSUME NEW i \in DOMAIN Repos, Push(i) PROVE SelectInv'
  <2>1. run'.phase = run.phase  BY <1>3 DEF Push, RefreshInv, RunType
  <2>. QED  BY <1>3, <2>1, SelectStays DEF Push, solveVars, At, Merged, SelectInv
<1>. QED  BY <1>1, <1>2, <1>3, SolveSelect DEF Next, Solve, EarlyStep

(* What the payload's packages are made by. *)

\* Where the image's sources are built, each of its rpms is made by the source
\* its build names, in both universes alike.
LEMMA PayloadMakers ==
  ASSUME RefreshInv, MergeInv, UniverseInv, SelectInv, At("solve"), world.select,
         NEW p \in images.members
  PROVE  /\ p \in DOMAIN compose.source_of
         /\ compose.source_of[p] = compose.index[p].src
         /\ compose.index[p].src # NoSource
         /\ \A v \in world.variants : v.name # compose.index[p].src
         /\ p \in Subpackages(universe, compose.index[p].src)
<1>0. Merged /\ Indexed  BY DEF At, Merged, Indexed
<1>. DEFINE small == Collapse(Release)
            large == Collapse(WithTags)
<1>1. PICK probe :
        /\ IndexedBy(compose, small, Foreign(Release, small))
        /\ MadeBy(universe, large, probe)
        /\ MadeBy(compose, small, probe)
  BY <1>0, CorrectedBoth
<1>2. p \in DOMAIN compose.source_of  BY DEF SelectInv, Derivable, Unattributed
<1>3. /\ \A n \in DOMAIN small : n \in DOMAIN large /\ large[n] = small[n]
      /\ \A n \in DOMAIN small : small[n] \in Release
  BY <1>0, SameWinner
<1>4. \A q \in Release : q.src # NoSource /\ \A v \in world.variants : v.name # q.src
  BY <1>0, UniverseLists
<1>. HIDE DEF small, large
<1>5. PICK n \in DOMAIN small : p = Plain(n) /\ Keeps(small, probe, n)
  BY <1>1, <1>2 DEF MadeBy
<1>6. compose.source_of[p] = small[n].src /\ compose.index[p] = small[n]
  BY <1>1, <1>5 DEF MadeBy, IndexedBy
<1>7. p \in Subpackages(universe, small[n].src)
  <2>1. n \in DOMAIN large /\ large[n] = small[n]  BY <1>3
  <2>2. Keeps(large, probe, n)  BY <1>5, <2>1 DEF Keeps
  <2>. QED  BY <1>1, <1>5, <2>1, <2>2 DEF MadeBy
<1>. QED  BY <1>2, <1>3, <1>4, <1>5, <1>6, <1>7

\* So each rpm of the image is in the build list of its source or prebuilt.
LEMMA PayloadIsMade ==
  RefreshInv /\ MergeInv /\ UniverseInv /\ SelectInv =>
    (At("solve") /\ world.select =>
       \A p \in images.members :
         \E s \in build \cup world.prebuilt : p \in Subpackages(universe, s))
<1>. SUFFICES ASSUME RefreshInv, MergeInv, UniverseInv, SelectInv, At("solve"), world.select,
                     NEW p \in images.members
              PROVE  \E s \in build \cup world.prebuilt : p \in Subpackages(universe, s)
  OBVIOUS
<1>. DEFINE s == compose.index[p].src
<1>1. p \in DOMAIN compose.source_of /\ compose.source_of[p] = s
      /\ p \in Subpackages(universe, s)
  BY PayloadMakers
<1>2. s \in build \cup world.prebuilt
  BY <1>1 DEF SelectInv, source_build_set, Makers
<1>. QED  BY <1>1, <1>2

\* The recorded packages and makers of the image.
Payload == {pin_binary(compose, p) : p \in images.members}
Makes(payload) == rpm_source_policy_inputs(payload, build).producers

\* The policy counts a source among the producers exactly when it is built.
LEMMA ProducersAreBuilt ==
  ASSUME RefreshInv, MergeInv, UniverseInv, SelectInv, At("solve"), world.select,
         NEW p \in images.members
  PROVE  compose.index[p].src \in Makes(Payload) <=> compose.index[p].src \in build
<1>. DEFINE s == compose.index[p].src
            SpecOf(t) == IF \E v \in world.variants : v.name = t
                         THEN (CHOOSE v \in world.variants : v.name = t).source ELSE t
<1>1. /\ p \in DOMAIN compose.source_of /\ compose.source_of[p] = s
      /\ \A v \in world.variants : v.name # s
  BY PayloadMakers
<1>2. Makes(Payload) = {SpecOf(t) : t \in build} \ world.prebuilt
  BY DEF Makes, rpm_source_policy_inputs
<1>3. arguments_fit  BY DEF SelectInv, Merged, At
<1>4. PICK had \in SUBSET world.variants :
        build = world.explicit
                  \cup source_build_set(images.members, compose.source_of, world.prebuilt)
                  \cup {v.name : v \in had}
  BY DEF SelectInv
<1>5. s \in source_build_set(images.members, compose.source_of, world.prebuilt)
        <=> s \notin world.prebuilt
  BY <1>1 DEF source_build_set, Makers
<1>. HIDE DEF s
<1>6. ASSUME s \in build PROVE s \in Makes(Payload)
  <2>1. SpecOf(s) = s  BY <1>1
  <2>2. s \notin world.prebuilt  BY <1>1, <1>3, <1>4, <1>5, <1>6 DEF arguments_fit
  <2>. QED  BY <1>2, <1>6, <2>1, <2>2
<1>7. ASSUME s \in Makes(Payload) PROVE s \in build
  BY <1>2, <1>4, <1>5, <1>7
<1>. QED  BY <1>6, <1>7 DEF s

\* The lockfile written is one its own validation accepts.
LEMMA EmitLock ==
  ASSUME RefreshInv, MergeInv, UniverseInv, SelectInv, At("solve"), UNCHANGED world,
         lock' = emit_lockfile, world.select => source_policy # None
  PROVE  LockInv'
<1>. DEFINE of == rpm_source_policy_inputs(Payload, build)
            pol == build_source_policy(of.images, of.producers, world.exceptions)
<1>1. /\ lock'.policy = source_policy /\ lock'.payload = Payload
      /\ DOMAIN lock'.built = build
  BY DEF emit_lockfile, Payload
<1>2. CASE ~world.select
  <2>1. lock'.policy = None  BY <1>1, <1>2 DEF source_policy
  <2>. QED  BY <1>2, <2>1 DEF LockInv, validate_lock_source_policy, MadeOrExcused
<1>3. CASE world.select
  <2>1. lock'.policy = pol /\ pol # None
    BY <1>1, <1>3 DEF source_policy, Payload
  <2>2. /\ \A n \in DOMAIN of.images : Covered(of.images[n], of.producers, world.exceptions)
        /\ pol = [refused |-> FALSE, exceptions |-> world.exceptions,
                  image_sets |-> DOMAIN of.images,
                  summary |-> [n \in DOMAIN of.images |-> Counts(of.images[n], of.producers)]]
    <3>. HIDE DEF of
    <3>. QED  BY <2>1 DEF build_source_policy
  <2>3. of.images = [n \in {"image"} |-> {[package |-> pin.name, source |-> pin.source] :
                                             pin \in Payload}]
    BY DEF rpm_source_policy_inputs
  <2>4. validate_source_policy(pol, of.images, of.producers)
    <3>1. pol.image_sets = {"image"} /\ pol.exceptions = world.exceptions /\ DOMAIN of.images = {"image"}
      BY <2>2, <2>3
    <3>2. [n \in pol.image_sets |-> of.images[n]] = of.images  BY <2>3, <3>1
    <3>. HIDE DEF of
    <3>. QED  BY <3>1, <3>2 DEF validate_source_policy
  <2>5. validate_lock_source_policy'
    <3>1. (rpm_source_policy_inputs(lock.payload, DOMAIN lock.built))' = of
      BY <1>1 DEF rpm_source_policy_inputs
    <3>. HIDE DEF of, pol
    <3>. QED  BY <2>1, <2>4, <3>1 DEF validate_lock_source_policy
  <2>6. ASSUME NEW pin \in Payload
        PROVE  (pin.build.src \in build) # \E e \in world.exceptions :
                  e.package = pin.name /\ e.source \in {NoSource, pin.build.src}
    <3>1. PICK p \in images.members : pin = pin_binary(compose, p)  BY DEF Payload
    <3>2. /\ p \in DOMAIN compose.source_of
          /\ compose.source_of[p] = compose.index[p].src
          /\ compose.index[p].src # NoSource
      BY <1>3, PayloadMakers
    <3>3. pin.name = p /\ pin.build = compose.index[p] /\ pin.source = pin.build.src
      BY <3>1, <3>2 DEF pin_binary, pin_source
    <3>4. pin.build.src \in of.producers <=> pin.build.src \in build
      BY <1>3, <3>3, ProducersAreBuilt DEF Makes
    <3>. DEFINE shown == [package |-> pin.name, source |-> pin.source]
    <3>5. shown \in of.images["image"]  BY <2>3
    <3>6. IF Producible(shown, of.producers)
          THEN \A e \in world.exceptions : e.package # shown.package
          ELSE \E e \in world.exceptions : Excuses(e, shown)
      <4>1. Covered(of.images["image"], of.producers, world.exceptions)  BY <2>2, <2>3
      <4>. HIDE DEF of, shown
      <4>. QED  BY <4>1, <3>5 DEF Covered
    <3>7. shown.package = pin.name /\ shown.source = pin.build.src  BY <3>3
    <3>. HIDE DEF shown, of
    <3>8. Producible(shown, of.producers) <=> pin.build.src \in build
      BY <3>2, <3>3, <3>4, <3>7 DEF Producible
    <3>. QED  BY <3>6, <3>7, <3>8 DEF Excuses
  <2>7. MadeOrExcused'
    <3>1. lock'.policy.exceptions = world.exceptions  BY <2>1, <2>2
    <3>. QED  BY <1>1, <2>6, <3>1 DEF MadeOrExcused
  <2>. QED  BY <2>5, <2>7 DEF LockInv
<1>. QED  BY <1>2, <1>3

\* A lockfile that stays, stays so.
LEMMA LockStays ==
  ASSUME LockInv, UNCHANGED <<world, lock>> PROVE LockInv'
<1>1. (rpm_source_policy_inputs(lock.payload, DOMAIN lock.built))'
         = rpm_source_policy_inputs(lock.payload, DOMAIN lock.built)
  BY DEF rpm_source_policy_inputs
<1>2. validate_lock_source_policy' = validate_lock_source_policy
  BY <1>1 DEF validate_lock_source_policy
<1>3. MadeOrExcused' = MadeOrExcused  BY DEF MadeOrExcused
<1>. QED  BY <1>2, <1>3 DEF LockInv

\* Every step keeps it.
LEMMA NextLock ==
  RefreshInv /\ MergeInv /\ UniverseInv /\ SelectInv /\ LockInv /\ [Next]_vars => LockInv'
<1>. SUFFICES ASSUME RefreshInv, MergeInv, UniverseInv, SelectInv, LockInv, [Next]_vars
              PROVE  LockInv'
  OBVIOUS
<1>1. CASE UNCHANGED vars  BY <1>1, LockStays DEF vars
<1>2. CASE EarlyStep  BY <1>2, EarlySteps, LockStays
<1>3. CASE \E i \in DOMAIN Repos : Push(i)  BY <1>3, LockStays DEF Push
<1>4. CASE Combine \/ Producers \/ Images \/ Sources
  BY <1>4, LockStays DEF Combine, Producers, Images, Sources
<1>5. CASE Emit
  <2>1. CASE UNCHANGED lock  BY <1>5, <2>1, LockStays DEF Emit
  <2>2. CASE ~UNCHANGED lock
    <3>1. /\ lock' = emit_lockfile /\ (world.select => source_policy # None)
          /\ At("solve") /\ UNCHANGED world
      BY <1>5, <2>2 DEF Emit
    <3>. QED  BY <3>1, EmitLock
  <2>. QED  BY <2>1, <2>2
<1>6. Next => \/ EarlyStep \/ (\E i \in DOMAIN Repos : Push(i))
              \/ (Combine \/ Producers \/ Images \/ Sources) \/ Emit
  BY DEF Next, Solve, EarlyStep
<1>. QED  BY <1>1, <1>2, <1>3, <1>4, <1>5, <1>6

\* The property follows from what is on the way to the lockfile and in it.
LEMMA AccountedNow ==
  RefreshInv /\ MergeInv /\ UniverseInv /\ SelectInv /\ LockInv => PayloadAccounted
<1>. SUFFICES ASSUME RefreshInv, MergeInv, UniverseInv, SelectInv, LockInv
              PROVE  PayloadAccounted
  OBVIOUS
<1>1. At("solve") /\ world.select =>
        \A p \in images.members :
          \E s \in build \cup world.prebuilt : p \in Subpackages(universe, s)
  BY PayloadIsMade
<1>. QED  BY <1>1 DEF PayloadAccounted, LockInv, MadeOrExcused

\* Where the image's sources are built, each rpm of the image is made by a source
\* on the build list or a prebuilt one, and each one of a written lockfile is
\* built or excused, not both: source_build_set, source_policy and
\* validate_lock_source_policy.
THEOREM SolveAccountsForThePayload == Spec => []PayloadAccounted
<1>1. Spec => [](RefreshInv /\ MergeInv /\ UniverseInv /\ SelectInv /\ LockInv)
  BY InitRefresh, InitMerge, InitUniverse, InitSelect, NextRefresh, NextMerge, NextUniverse,
     NextSelect, NextLock, PTL DEF Spec
<1>. QED  BY <1>1, AccountedNow, PTL

-----------------------------------------------------------------------------
(***************************************************************************)
(* runtime_closure over plain capabilities: what the worklist ends with.   *)
(***************************************************************************)

\* One round of the worklist, and the first n of them.
Round(u, o, S) == S \cup UNION {Resolved(u, o, c) : c \in Requires(u, S)}
Rounds(u, o, roots, n, g) ==
  g = [k \in 0..n |-> IF k = 0 THEN roots ELSE Round(u, o, g[k - 1])]

\* They can be done, however many: the recursive definition has a function.
LEMMA RoundsExist ==
  ASSUME NEW u, NEW o, NEW roots, NEW n \in Nat
  PROVE  \E g : Rounds(u, o, roots, n, g)
<1>. DEFINE bad == {m \in Nat : ~ \E g : Rounds(u, o, roots, m, g)}
            first == CHOOSE k \in bad : \A l \in bad : k <= l
<1>1. SUFFICES ASSUME bad # {} PROVE FALSE  OBVIOUS
<1>2. first \in bad /\ \A l \in bad : first <= l  BY <1>1, LeastOf
<1>. HIDE DEF first
<1>3. CASE first = 0
  <2>. DEFINE g == [k \in 0..0 |-> roots]
  <2>1. g = [k \in 0..0 |-> IF k = 0 THEN roots ELSE Round(u, o, g[k - 1])]  OBVIOUS
  <2>2. Rounds(u, o, roots, 0, g)  BY <2>1 DEF Rounds
  <2>. QED  BY <1>2, <1>3, <2>2
<1>4. CASE first # 0
  <2>1. first - 1 \in Nat /\ first - 1 \notin bad  BY <1>2, <1>4
  <2>2. PICK g : Rounds(u, o, roots, first - 1, g)  BY <2>1
  <2>. DEFINE h == [k \in 0..first |-> IF k = first THEN Round(u, o, g[k - 1]) ELSE g[k]]
  <2>3. \A k \in 0..(first - 1) : g[k] = IF k = 0 THEN roots ELSE Round(u, o, g[k - 1])
    BY <2>2 DEF Rounds
  <2>4. \A k \in 0..first : h[k] = IF k = 0 THEN roots ELSE Round(u, o, h[k - 1])
    <3>1. SUFFICES ASSUME NEW k \in 0..first
                   PROVE  h[k] = IF k = 0 THEN roots ELSE Round(u, o, h[k - 1])
      OBVIOUS
    <3>2. first \in Nat  BY <1>2
    <3>3. CASE k = 0  BY <3>2, <3>3, <2>3, <1>4
    <3>4. CASE k # 0
      <4>1. k - 1 \in 0..first /\ k - 1 # first  BY <3>2, <3>4
      <4>2. h[k - 1] = g[k - 1]  BY <4>1
      <4>3. CASE k = first  BY <4>2, <4>3, <3>4
      <4>4. CASE k # first  BY <4>2, <4>4, <3>2, <3>4, <2>3
      <4>. QED  BY <4>3, <4>4
    <3>. QED  BY <3>3, <3>4
  <2>5. h = [k \in 0..first |-> IF k = 0 THEN roots ELSE Round(u, o, h[k - 1])]
    <3>1. h = [k \in 0..first |-> h[k]]  OBVIOUS
    <3>. HIDE DEF h
    <3>. QED  BY <3>1, <2>4
  <2>6. Rounds(u, o, roots, first, h)  BY <2>5 DEF Rounds
  <2>. QED  BY <2>6, <1>2
<1>. QED  BY <1>3, <1>4

\* runtime_closure does one round for every package of the index.
LEMMA ClosureRounds ==
  ASSUME NEW u, NEW o, NEW roots, IsFiniteSet(DOMAIN u.index)
  PROVE  \E g : /\ Rounds(u, o, roots, Cardinality(DOMAIN u.index), g)
                /\ runtime_closure(u, o, roots) = g[Cardinality(DOMAIN u.index)]
<1>. DEFINE n == Cardinality(DOMAIN u.index)
            f == CHOOSE g : Rounds(u, o, roots, n, g)
<1>1. n \in Nat  BY FS_CardinalityType
<1>2. Rounds(u, o, roots, n, f)
  <2>. HIDE DEF n
  <2>. QED  BY <1>1, RoundsExist
<1>3. runtime_closure(u, o, roots) = f[n]
  BY DEF runtime_closure, Rounds, Round
<1>. QED  BY <1>2, <1>3

\* Every round stays among the packages of the index when the roots are there
\* and whatever answers a requirement is.
Inside(u, o) ==
  /\ IsFiniteSet(DOMAIN u.index)
  /\ \A p \in DOMAIN u.index : \A c \in u.index[p].requires : Resolved(u, o, c) \subseteq DOMAIN u.index

\* A round that changes nothing is the last that does; until then each adds a
\* package, so as many rounds as there are packages reach the end.
LEMMA RoundsEnd ==
  ASSUME NEW u, NEW o, NEW roots, Inside(u, o), roots \subseteq DOMAIN u.index,
         NEW g, NEW n \in Nat, Rounds(u, o, roots, n, g)
  PROVE  \A m \in 0..n :
           /\ roots \subseteq g[m] /\ g[m] \subseteq DOMAIN u.index
           /\ Round(u, o, g[m]) = g[m] \/ Cardinality(g[m]) >= m
<1>. DEFINE D == DOMAIN u.index
            Good(m) == /\ roots \subseteq g[m] /\ g[m] \subseteq D
                       /\ Round(u, o, g[m]) = g[m] \/ Cardinality(g[m]) >= m
            bad == {m \in 0..n : ~Good(m)}
            first == CHOOSE k \in bad : \A l \in bad : k <= l
<1>1. SUFFICES ASSUME bad # {} PROVE FALSE  OBVIOUS
<1>2. first \in bad /\ \A l \in bad : first <= l
  <2>1. bad \in SUBSET Nat  OBVIOUS
  <2>. QED  BY <1>1, <2>1, LeastOf
<1>3. \A k \in 0..n : g[k] = IF k = 0 THEN roots ELSE Round(u, o, g[k - 1])  BY DEF Rounds
<1>4. IsFiniteSet(D)  BY DEF Inside
<1>5. \A S \in SUBSET D : S \subseteq Round(u, o, S) /\ Round(u, o, S) \subseteq D
  BY DEF Inside, Round, Requires
<1>. HIDE DEF first, D
<1>6. CASE first = 0
  <2>1. g[0] = roots  BY <1>3
  <2>2. IsFiniteSet(roots)  BY <1>4, FS_Subset DEF D
  <2>3. Cardinality(roots) \in Nat  BY <2>2, FS_CardinalityType
  <2>4. Cardinality(roots) >= 0  BY <2>3
  <2>5. Good(0)  BY <2>1, <2>4 DEF D
  <2>. QED  BY <1>2, <1>6, <2>5
<1>7. CASE first # 0
  <2>0. first \in 0..n /\ first - 1 \in 0..n /\ first \in Nat /\ first - 1 \in Nat
    BY <1>2, <1>7
  <2>1. Good(first - 1)
    <3>1. ~(first <= first - 1)  BY <2>0
    <3>2. first - 1 \notin bad  BY <3>1, <1>2
    <3>. QED  BY <2>0, <3>2
  <2>. DEFINE S == g[first - 1]
  <2>2. g[first] = Round(u, o, S)  BY <1>3, <1>7, <2>0
  <2>3. S \in SUBSET D /\ roots \subseteq S  BY <2>1
  <2>4. S \subseteq Round(u, o, S) /\ Round(u, o, S) \subseteq D  BY <2>3, <1>5
  <2>5. Round(u, o, S) = S \/ Cardinality(S) >= first - 1  BY <2>1
  <2>. HIDE DEF S
  <2>6. CASE Round(u, o, S) = S
    <3>1. Good(first)  BY <2>2, <2>3, <2>4, <2>6
    <3>. QED  BY <3>1, <1>2
  <2>7. CASE Round(u, o, S) # S
    <3>1. PICK p \in Round(u, o, S) : p \notin S  BY <2>4, <2>7
    <3>2. IsFiniteSet(S) /\ IsFiniteSet(Round(u, o, S))  BY <1>4, <2>3, <2>4, FS_Subset
    <3>3. /\ IsFiniteSet(S \cup {p}) /\ Cardinality(S \cup {p}) = Cardinality(S) + 1
      BY <3>1, <3>2, FS_AddElement
    <3>4. Cardinality(S \cup {p}) <= Cardinality(Round(u, o, S))
      <4>1. S \cup {p} \in SUBSET Round(u, o, S)  BY <2>4, <3>1
      <4>. QED  BY <4>1, <3>2, FS_Subset
    <3>5. Cardinality(S) \in Nat /\ Cardinality(Round(u, o, S)) \in Nat
      BY <3>2, FS_CardinalityType
    <3>6. Cardinality(Round(u, o, S)) >= first
      BY <2>0, <2>5, <2>7, <3>3, <3>4, <3>5
    <3>7. Good(first)  BY <2>2, <2>3, <2>4, <3>6
    <3>. QED  BY <3>7, <1>2
  <2>. QED  BY <2>6, <2>7
<1>. QED  BY <1>6, <1>7

\* So what runtime_closure returns has the roots and all that is required of it.
LEMMA ClosureEnds ==
  ASSUME NEW u, NEW o, NEW roots, Inside(u, o), roots \subseteq DOMAIN u.index,
         NEW S, S = runtime_closure(u, o, roots)
  PROVE  /\ roots \subseteq S /\ S \subseteq DOMAIN u.index
         /\ \A c \in Requires(u, S) : Resolved(u, o, c) \subseteq S
<1>. DEFINE D == DOMAIN u.index
            n == Cardinality(D)
<1>1. IsFiniteSet(D) /\ n \in Nat  BY FS_CardinalityType DEF Inside
<1>2. PICK g : Rounds(u, o, roots, n, g) /\ S = g[n]
  BY <1>1, ClosureRounds
<1>. HIDE DEF n
<1>3. /\ roots \subseteq S /\ S \subseteq D
      /\ Round(u, o, S) = S \/ Cardinality(S) >= n
  <2>1. n \in 0..n  BY <1>1
  <2>. QED  BY <1>1, <1>2, <2>1, RoundsEnd
<1>4. Round(u, o, S) = S
  <2>1. CASE Cardinality(S) >= n
    <3>1. Cardinality(S) <= n /\ (Cardinality(S) = n => S = D) /\ Cardinality(S) \in Nat
      BY <1>1, <1>3, FS_Subset, FS_CardinalityType DEF n
    <3>2. S = D  BY <3>1, <2>1, <1>1
    <3>. QED  BY <3>2 DEF Round, Inside, Requires
  <2>. QED  BY <2>1, <1>3
<1>. QED  BY <1>3, <1>4 DEF Round

\* With honest answers and nothing reported, each of its packages finds what it
\* requires in the closure itself.
LEMMA ClosureSettles ==
  ASSUME NEW u, NEW o, NEW roots, Inside(u, o), Honest(u), roots \subseteq DOMAIN u.index,
         \A p \in DOMAIN u.index : u.index[p].requires \subseteq Caps,
         \A c \in Caps \cap DOMAIN o : c \in Offers(u.index[o[c]]),
         NEW S, S = runtime_closure(u, o, roots),
         NEW asked, Requires(u, S) \subseteq asked, Unsettled(u, o, S, asked) = {}
  PROVE  /\ S \subseteq DOMAIN u.index
         /\ \A p \in S : \A c \in u.index[p].requires : \E q \in S : c \in Offers(u.index[q])
<1>1. S \subseteq DOMAIN u.index /\ \A c \in Requires(u, S) : Resolved(u, o, c) \subseteq S
  BY ClosureEnds
<1>2. SUFFICES ASSUME NEW p \in S, NEW c \in u.index[p].requires
               PROVE  \E q \in S : c \in Offers(u.index[q])
  BY <1>1
<1>3. c \in Requires(u, S) /\ c \in Caps  BY <1>1, <1>2 DEF Requires
<1>4. \A q \in Resolved(u, o, c) \cup u.provides[c] : c \in Offers(u.index[q])
  BY <1>3 DEF Resolved, Honest
<1>5. Resolved(u, o, c) # {} \/ u.provides[c] \cap S # {}
  BY <1>3 DEF Unsettled
<1>. QED  BY <1>1, <1>3, <1>4, <1>5

\* An index that closures stay inside.
SelfContained(u) ==
  /\ IsFiniteSet(DOMAIN u.index)
  /\ \A p \in DOMAIN u.index : u.index[p].requires \subseteq Caps
  /\ \A c \in Caps : u.provides[c] \subseteq DOMAIN u.index

\* build_universe's is one.
LEMMA UniverseFits ==
  ASSUME NEW pkgs, NEW sources, Distinct(pkgs), \A p \in pkgs : p.requires \subseteq Caps
  PROVE  SelfContained(build_universe(pkgs, sources))
<1>. SUFFICES ASSUME NEW u, NEW won, NEW foreign, u = build_universe(pkgs, sources),
                     won = Collapse(pkgs), foreign = Foreign(pkgs, won)
              PROVE  SelfContained(u)
  OBVIOUS
<1>1. IndexedBy(u, won, foreign)  BY UniverseIndex
<1>2. foreign \subseteq pkgs /\ IsFiniteSet(pkgs)  BY DEF Foreign, Distinct
<1>3. DOMAIN won = {p.name : p \in pkgs} /\ \A n \in DOMAIN won : won[n] \in pkgs
  <2>1. DOMAIN won = {p.name : p \in pkgs}  BY DEF Collapse
  <2>. QED  BY <2>1, TheWinner
<1>4. IsFiniteSet(DOMAIN u.index)
  <2>1. [p \in pkgs |-> p.name] \in Surjection(pkgs, DOMAIN won)
    BY <1>3 DEF Surjection
  <2>2. IsFiniteSet(DOMAIN won)  BY <1>2, <2>1, FS_Surjection
  <2>3. [n \in DOMAIN won |-> Plain(n)] \in Surjection(DOMAIN won, {Plain(n) : n \in DOMAIN won})
    BY DEF Surjection
  <2>4. IsFiniteSet({Plain(n) : n \in DOMAIN won})  BY <2>2, <2>3, FS_Surjection
  <2>5. [f \in foreign |-> Key(f)] \in Surjection(foreign, {Key(f) : f \in foreign})
    BY DEF Surjection
  <2>6. IsFiniteSet(foreign)  BY <1>2, FS_Subset
  <2>7. IsFiniteSet({Key(f) : f \in foreign})  BY <2>5, <2>6, FS_Surjection
  <2>8. IsFiniteSet({Plain(n) : n \in DOMAIN won} \cup {Key(f) : f \in foreign})
    BY <2>4, <2>7, FS_Union
  <2>9. DOMAIN u.index = {Plain(n) : n \in DOMAIN won} \cup {Key(f) : f \in foreign}
    BY <1>1 DEF IndexedBy
  <2>. QED  BY <2>8, <2>9
<1>5. \A p \in DOMAIN u.index : u.index[p] \in pkgs  BY <1>1, <1>2, <1>3 DEF IndexedBy
<1>6. ASSUME NEW c \in Caps PROVE u.provides[c] \subseteq DOMAIN u.index
  <2>1. u.provides[c] = IF Natives(won, c) # {} THEN Natives(won, c) ELSE FirstForeign(foreign, c)
    BY DEF build_universe, Assemble, Answers
  <2>2. Natives(won, c) \subseteq DOMAIN u.index  BY <1>1 DEF IndexedBy, Natives
  <2>3. \A f \in foreign : Comparable(f)  BY <1>2 DEF Distinct
  <2>4. FirstForeign(foreign, c) \subseteq DOMAIN u.index
    BY <1>1, <2>3, FirstForeignAnswers DEF IndexedBy
  <2>. QED  BY <2>1, <2>2, <2>4
<1>. QED  BY <1>4, <1>5, <1>6 DEF SelfContained

\* Both universes of a solve are.
LEMMA BothFit ==
  ASSUME RefreshInv, MergeInv, UniverseInv, Indexed
  PROVE  SelfContained(universe) /\ SelfContained(compose) /\ Honest(universe) /\ Honest(compose)
<1>0. Merged  BY DEF Indexed, Merged
<1>1. /\ Distinct(Release) /\ Distinct(WithTags) /\ Release \subseteq WithTags
      /\ \A p \in WithTags : p.requires \subseteq Caps
  BY <1>0, UniverseLists
<1>2. Combined = build_universe(WithTags, List(merged["source"]))
      /\ Composed = build_universe(Release, List(merged["source"]))
  BY DEF Combined, Composed, WithTags, Release
<1>3. SelfContained(Combined) /\ SelfContained(Composed)  BY <1>1, <1>2, UniverseFits
<1>4. PICK probe : Corrected(probe)  BY DEF UniverseInv
<1>. DEFINE of == apply_probed_producers(Combined, probe)
            small == apply_probed_producers(Composed, probe)
<1>5. /\ of.index = Combined.index /\ of.provides = Combined.provides
      /\ small.index = Composed.index /\ small.provides = Composed.provides
  BY <1>2, CorrectedUniverse
<1>6. compose = small /\ universe.index = of.index /\ universe.provides = of.provides
  BY <1>4 DEF Corrected
<1>. HIDE DEF of, small
<1>7. SelfContained(universe) /\ SelfContained(compose)  BY <1>3, <1>5, <1>6 DEF SelfContained
<1>. QED  BY <1>7, CorrectedBoth

-----------------------------------------------------------------------------
(* What is asked of the closures. *)

\* The image as its closure gave it, and every capability asked for a known one.
ImageSet ==
  LET set == solve_package_set(compose, Layered(world.overrides, world.image_overrides),
                               world.roots)
  IN [members  |-> set.members,
      problems |-> set.problems \cup validate_overrides(world.image_overrides, compose)]
AskInv ==
  /\ \A kind \in Kinds : \A p \in candidates[kind] : p.requires \subseteq Caps
  /\ DOMAIN candidates = Kinds
  /\ run.phase \in {"producers", "images", "sources", "solve"} =>
       \A s \in DOMAIN universe.sources : universe.sources[s].requires \subseteq Caps
  /\ run.phase \in {"sources", "solve"} => images = ImageSet

\* It holds before the first run.
LEMMA InitAsk == Init => AskInv
BY DEF Init, AskInv

\* Before the universes, entries are collected from the files.
LEMMA EarlyAsk == RefreshInv /\ MergeInv /\ AskInv /\ EarlyStep => AskInv'
<1>. SUFFICES ASSUME RefreshInv, MergeInv, AskInv, EarlyStep PROVE AskInv'  OBVIOUS
<1>0. run'.phase \in EarlyPhases  BY EarlySteps
<1>1. run'.phase \notin {"producers", "images", "sources", "solve"}  BY <1>0 DEF EarlyPhases
<1>2. /\ \A kind \in Kinds : \A p \in candidates'[kind] : p.requires \subseteq Caps
      /\ DOMAIN candidates' = Kinds
  <2>1. CASE UNCHANGED candidates  BY <2>1 DEF AskInv
  <2>2. CASE candidates' = [k \in Kinds |-> {}]  BY <2>2
  <2>3. CASE LayerRepo
    <3>1. /\ At("read") /\ unread = {} /\ run.at \in DOMAIN Repos
          /\ candidates' = [candidates EXCEPT ![RepoKind[Here]] =
                              candidates[RepoKind[Here]] \cup List(best)]
      BY <2>3 DEF LayerRepo, RefreshInv, RunType
    <3>2. Newest(best, Builds(Here, paths[run.at]) \ unread)  BY <3>1 DEF MergeInv
    <3>3. List(best) \subseteq Builds(Here, paths[run.at])  BY <3>2 DEF List, Newest
    <3>4. paths[run.at] \in Snapshots(Here)
      <4>1. <<paths[run.at], TRUE>> \in cache[run.at]  BY <3>1 DEF MergeInv
      <4>2. <<paths[run.at], TRUE>>[2] = TRUE /\ <<paths[run.at], TRUE>>[1] = paths[run.at]
        OBVIOUS
      <4>. QED  BY <3>1, <4>1, <4>2 DEF RefreshInv, Here
    <3>5. \A p \in Builds(Here, paths[run.at]) : p.requires \subseteq Caps
      BY <3>1, <3>4, WorldFacts DEF RefreshInv, Here
    <3>. QED  BY <3>1, <3>3, <3>5 DEF AskInv
  <2>4. \/ UNCHANGED candidates \/ candidates' = [k \in Kinds |-> {}] \/ LayerRepo
    BY DEF EarlyStep, Start, Sync, ReadRepomd, Compare, Fetch, Write, RemoveStale, UseLocal,
           Kill, Parse, Arguments, Open, ReadEntry, Again, mergeVars
  <2>. QED  BY <2>1, <2>2, <2>3, <2>4
<1>. QED  BY <1>1, <1>2 DEF AskInv

\* The steps of the solve ask for what they merged.
LEMMA SolveAsk ==
  RefreshInv /\ MergeInv /\ UniverseInv /\ AskInv
    /\ (Combine \/ Producers \/ Images \/ Sources \/ Emit) => AskInv'
<1>. SUFFICES ASSUME RefreshInv, MergeInv, UniverseInv, AskInv,
                     Combine \/ Producers \/ Images \/ Sources \/ Emit
              PROVE  AskInv'
  OBVIOUS
<1>0. run \in RunType /\ Idle.phase = "idle"  BY RunMoves DEF RefreshInv
<1>1. UNCHANGED <<world, candidates>>
  BY DEF Combine, Producers, Images, Sources, Emit, mergeVars
<1>2. CASE Combine
  <2>1. Merged  BY <1>2 DEF Combine, At, Merged
  <2>2. "source" \in Kinds  BY DEF Kinds
  <2>3. /\ Distinct(List(merged["source"]))
        /\ \A p \in List(merged["source"]) : p.requires \subseteq Caps
    BY <2>1, <2>2, MergedLists
  <2>4. universe'.sources = Collapse(List(merged["source"]))
    BY <1>2 DEF Combine, build_universe, Assemble
  <2>5. DOMAIN Collapse(List(merged["source"])) = {p.name : p \in List(merged["source"])}
    BY DEF Collapse
  <2>6. \A s \in DOMAIN universe'.sources : universe'.sources[s].requires \subseteq Caps
    BY <2>3, <2>4, <2>5, TheWinner
  <2>7. run'.phase = "producers"  BY <1>0, <1>2, RunMoves DEF Combine, RunPhases
  <2>. QED  BY <1>1, <2>6, <2>7 DEF AskInv
<1>3. CASE Producers
  <2>1. universe = Combined  BY <1>3 DEF Producers, UniverseInv
  <2>2. DOMAIN Combined = {"index", "provides", "source_of", "foreign_of", "subpackages",
                           "sources"}
    BY DEF Combined, build_universe, Assemble
  <2>3. universe'.sources = universe.sources
    BY <1>3, <2>1, <2>2 DEF Producers, apply_probed_producers, Without
  <2>4. run.phase = "producers" /\ run'.phase = "images"
    BY <1>0, <1>3, RunMoves DEF Producers, RunPhases, At
  <2>. QED  BY <1>1, <2>3, <2>4 DEF AskInv
<1>4. CASE Images
  <2>1. /\ UNCHANGED <<universe, compose>> /\ images' = ImageSet /\ run.phase = "images"
        /\ run' \in {Idle, GoTo("sources")}
    BY <1>4 DEF Images, ImageSet, At
  <2>2. ImageSet' = ImageSet  BY <1>1, <2>1 DEF ImageSet
  <2>3. run'.phase \in {"idle", "sources"}  BY <1>0, <2>1, RunMoves DEF RunPhases
  <2>. QED  BY <1>1, <2>1, <2>2, <2>3 DEF AskInv
<1>5. CASE Sources
  <2>1. /\ UNCHANGED <<compose, images>> /\ run.phase = "sources"
        /\ run' \in {Idle, GoTo("solve")}
    BY <1>5 DEF Sources, At
  <2>2. images' = ImageSet'  BY <1>1, <2>1 DEF AskInv, ImageSet
  <2>3. \A s \in DOMAIN universe.sources : universe.sources[s].requires \subseteq Caps
    BY <2>1 DEF AskInv
  <2>4. CASE UNCHANGED universe
    BY <1>1, <2>1, <2>2, <2>3, <2>4, <1>0, RunMoves DEF AskInv, RunPhases
  <2>5. CASE ~UNCHANGED universe
    <3>1. Declared # {}  BY <1>5, <2>5 DEF Sources
    <3>. DEFINE v == CHOOSE x \in Declared : TRUE
                of == CHOOSE p \in Older_source(universe, LostSources, v) : TRUE
    <3>2. universe' = WithSource(universe, v.name, of)  BY <1>5, <2>5 DEF Sources
    <3>3. v \in Declared  BY <3>1
    <3>. HIDE DEF v
    <3>4. of \in Older_source(universe, LostSources, v)  BY <3>3 DEF Declared, Declarable
    <3>5. of \in candidates["source"] /\ "source" \in Kinds
      BY <3>4 DEF Older_source, Carried, LostSources, superseded, Kinds
    <3>6. of.requires \subseteq Caps  BY <3>5 DEF AskInv
    <3>. HIDE DEF of
    <3>7. "sources" \in DOMAIN universe
      <4>1. Indexed  BY <2>1 DEF Indexed
      <4>. QED  BY <4>1 DEF UniverseInv, Corrected
    <3>8. universe'.sources = [s \in DOMAIN universe.sources \cup {v.name} |->
                                 IF s = v.name THEN of ELSE universe.sources[s]]
      BY <3>2, <3>7 DEF WithSource
    <3>9. \A s \in DOMAIN universe'.sources : universe'.sources[s].requires \subseteq Caps
      BY <3>8, <2>3, <3>6
    <3>. QED  BY <1>1, <2>1, <2>2, <3>9, <1>0, RunMoves DEF AskInv, RunPhases
  <2>. QED  BY <2>4, <2>5
<1>6. CASE Emit
  <2>1. \/ run' = Idle
        \/ run' = [run EXCEPT !.phase = "again", !.pass = 2, !.at = 1]
    BY <1>6 DEF Emit
  <2>2. run'.phase \in {"idle", "again"}  BY <1>0, <2>1 DEF RunType
  <2>. QED  BY <1>1, <2>2 DEF AskInv
<1>. QED  BY <1>2, <1>3, <1>4, <1>5, <1>6

\* Every step keeps it.
LEMMA NextAsk ==
  RefreshInv /\ MergeInv /\ UniverseInv /\ AskInv /\ [Next]_vars => AskInv'
<1>1. ASSUME AskInv, UNCHANGED <<world, candidates, universe, compose, images>>,
             run'.phase = run.phase
      PROVE  AskInv'
  BY <1>1 DEF AskInv, ImageSet
<1>2. ASSUME RefreshInv, NEW i \in DOMAIN Repos, Push(i) PROVE run'.phase = run.phase
  BY <1>2 DEF RefreshInv, RunType, Push
<1>3. ASSUME RefreshInv, AskInv, NEW i \in DOMAIN Repos, Push(i) PROVE AskInv'
  BY <1>1, <1>2, <1>3 DEF Push, mergeVars, solveVars
<1>4. ASSUME AskInv, UNCHANGED vars PROVE AskInv'
  BY <1>1, <1>4 DEF vars, mergeVars, solveVars
<1>. QED
  BY <1>3, <1>4, EarlyAsk, SolveAsk DEF Next, Solve, EarlyStep

-----------------------------------------------------------------------------
(* What the closures of a solve without problems hold. *)

\* A set of packages that finds in itself what it requires.
Complete(u, S) ==
  /\ S \subseteq DOMAIN u.index
  /\ \A p \in S : \A c \in u.index[p].requires : \E q \in S : c \in Offers(u.index[q])

\* Validated overrides name packages of the index that provide what they say.
LEMMA OverridesFit ==
  ASSUME NEW u, NEW o, SelfContained(u), Honest(u), validate_overrides(o, u) = {}
  PROVE  /\ \A c \in Caps \cap DOMAIN o : c \in Offers(u.index[o[c]])
         /\ \A c \in Caps : Resolved(u, o, c) \subseteq DOMAIN u.index
         /\ Inside(u, o)
<1>1. \A c \in DOMAIN o : o[c] \in u.provides[c]  BY DEF validate_overrides
<1>2. \A c \in Caps \cap DOMAIN o : o[c] \in DOMAIN u.index /\ c \in Offers(u.index[o[c]])
  BY <1>1 DEF SelfContained, Honest
<1>3. \A c \in Caps : Resolved(u, o, c) \subseteq DOMAIN u.index
  BY <1>2 DEF SelfContained, Resolved
<1>4. Inside(u, o)  BY <1>3 DEF Inside, SelfContained
<1>. QED  BY <1>2, <1>3, <1>4

\* Closed over capabilities that are known, with nothing left.
LEMMA LeftNothing ==
  ASSUME SelfContained(universe), Honest(universe), validate_overrides(world.overrides, universe) = {},
         NEW caps, caps \subseteq Caps, Left(caps) = {}
  PROVE  Complete(universe, Closed(caps))
<1>. DEFINE o == world.overrides
            roots == UNION {Resolved(universe, o, c) : c \in caps}
            S == Closed(caps)
<1>1. /\ \A c \in Caps \cap DOMAIN o : c \in Offers(universe.index[o[c]])
      /\ \A c \in Caps : Resolved(universe, o, c) \subseteq DOMAIN universe.index
      /\ Inside(universe, o)
  BY OverridesFit
<1>2. S = runtime_closure(universe, o, roots)  BY DEF Closed
<1>3. Unsettled(universe, o, S, Requires(universe, S) \cup caps) = {}  BY DEF Left
<1>4. roots \subseteq DOMAIN universe.index  BY <1>1
<1>5. \A p \in DOMAIN universe.index : universe.index[p].requires \subseteq Caps  BY DEF SelfContained
<1>. HIDE DEF S, roots, o
<1>6. Requires(universe, S) \subseteq Requires(universe, S) \cup caps  OBVIOUS
<1>7. /\ S \subseteq DOMAIN universe.index
      /\ \A p \in S : \A c \in universe.index[p].requires :
           \E q \in S : c \in Offers(universe.index[q])
  BY <1>1, <1>2, <1>3, <1>4, <1>5, <1>6, ClosureSettles
<1>. QED  BY <1>7 DEF Complete, S

\* A set of packages closed by name, with no problem.
LEMMA PackageSetComplete ==
  ASSUME NEW u, NEW o, NEW roots, SelfContained(u), Honest(u), Inside(u, o),
         \A c \in Caps \cap DOMAIN o : c \in Offers(u.index[o[c]]),
         solve_package_set(u, o, roots).problems = {}
  PROVE  Complete(u, solve_package_set(u, o, roots).members)
<1>. DEFINE few == roots \cap DOMAIN u.index
            S == runtime_closure(u, o, few)
<1>1. /\ solve_package_set(u, o, roots).members = S
      /\ Unsettled(u, o, S, Requires(u, S)) = {}
  BY DEF solve_package_set
<1>2. few \subseteq DOMAIN u.index  OBVIOUS
<1>3. \A p \in DOMAIN u.index : u.index[p].requires \subseteq Caps  BY DEF SelfContained
<1>. HIDE DEF S, few
<1>4. S = runtime_closure(u, o, few)  BY DEF S
<1>5. Requires(u, S) \subseteq Requires(u, S)  OBVIOUS
<1>6. /\ S \subseteq DOMAIN u.index
      /\ \A p \in S : \A c \in u.index[p].requires : \E q \in S : c \in Offers(u.index[q])
  BY <1>1, <1>2, <1>3, <1>4, <1>5, ClosureSettles
<1>. QED  BY <1>1, <1>6 DEF Complete

\* The pins of such a set settle each other.
LEMMA PinsSettle ==
  ASSUME NEW u, NEW S, Complete(u, S), NEW pins, \A p \in S : pin_binary(u, p) \in pins
  PROVE  \A p \in S : Settled(pins, pin_binary(u, p))
<1>1. \A p \in S : pin_binary(u, p).build = u.index[p]  BY DEF pin_binary
<1>. QED  BY <1>1 DEF Complete, Settled

\* The overrides of the release that the image does not answer itself name
\* packages of the release, not of a build tag alone.
OverridesInRelease ==
  \A c \in Caps \cap DOMAIN world.overrides :
    c \notin DOMAIN world.image_overrides =>
      \E p \in Listed("binary") : world.overrides[c] = Plain(p.name)

\* What is proved of a lockfile: LockHolds without its clause about consumers
\* of variants, and about the image where OverridesInRelease.
Dependable ==
  lock # Nobody =>
    /\ lock.problems = {} => /\ SeedSettles /\ BuildrootsSettle
                             /\ OverridesInRelease => PayloadSettles
    /\ OthersAreNewest

-----------------------------------------------------------------------------
\* The closures behind the seed and the buildroots.
LEMMA SolvedComplete ==
  ASSUME RefreshInv, MergeInv, UniverseInv, AskInv, At("solve"), solve_problems = {},
         seed_set.problems = {}
  PROVE  /\ Complete(universe, base_closure) /\ Complete(universe, seed_set.members)
         /\ \A s \in build : Complete(universe, build_deps(s))
<1>0. Indexed /\ world \in Worlds  BY DEF At, Indexed, RefreshInv
<1>1. SelfContained(universe) /\ Honest(universe)  BY <1>0, BothFit
<1>2. /\ validate_overrides(world.overrides, universe) = {}
      /\ Left(world.implicit) = {}
      /\ \A s \in build : s \in DOMAIN universe.sources /\ Left(Asked(s)) = {}
  <2>1. /\ validate_overrides(world.overrides, universe) \subseteq solve_problems
        /\ Left(world.implicit) \subseteq solve_problems
    BY DEF solve_problems
  <2>2. ASSUME NEW s \in build, s \in DOMAIN universe.sources
        PROVE  Left(Asked(s)) \subseteq solve_problems
    BY <2>2 DEF solve_problems
  <2>3. ASSUME NEW s \in build, s \notin DOMAIN universe.sources
        PROVE  <<"missing-source", s>> \in solve_problems
    BY <2>3 DEF solve_problems
  <2>. QED  BY <2>1, <2>2, <2>3
<1>3. world.implicit \subseteq Caps  BY <1>0, WorldAssumption
<1>4. ASSUME NEW s \in build PROVE Asked(s) \subseteq Caps
  <2>1. \A t \in DOMAIN universe.sources : universe.sources[t].requires \subseteq Caps
    BY DEF AskInv, At
  <2>2. DOMAIN Reports \subseteq DOMAIN world.asks
    <3>1. DOMAIN Nobody = {}  BY DEF Nobody
    <3>2. DOMAIN world.probe \subseteq DOMAIN world.asks  BY <1>0, WorldAssumption
    <3>. QED  BY <3>1, <3>2 DEF Reports
  <2>3. \A t \in DOMAIN world.asks : world.asks[t] \subseteq Caps  BY <1>0, WorldAssumption
  <2>. QED  BY <1>2, <1>3, <2>1, <2>2, <2>3 DEF Asked
<1>5. Complete(universe, base_closure)
  BY <1>1, <1>2, <1>3, LeftNothing DEF base_closure
<1>6. \A s \in build : Complete(universe, build_deps(s))
  BY <1>1, <1>2, <1>4, LeftNothing DEF build_deps
<1>7. Complete(universe, seed_set.members)
  BY <1>1, <1>2, OverridesFit, PackageSetComplete DEF seed_set
<1>. QED  BY <1>5, <1>6, <1>7

\* So the sets a lockfile without problems records settle.
LEMMA EmitSettles ==
  ASSUME RefreshInv, MergeInv, UniverseInv, AskInv, At("solve"), UNCHANGED world,
         lock' = emit_lockfile, lock'.problems = {}
  PROVE  SeedSettles' /\ BuildrootsSettle'
<1>0. solve_problems = {} /\ seed_set.problems = {}  BY DEF emit_lockfile
<1>1. /\ Complete(universe, base_closure) /\ Complete(universe, seed_set.members)
      /\ \A s \in build : Complete(universe, build_deps(s))
  BY <1>0, SolvedComplete
<1>2. SeedSettles'
  <2>. DEFINE all == base_closure \cup seed_set.members \cup UNION {build_deps(s) : s \in build}
              pins == {pin_binary(universe, p) : p \in all}
  <2>1. lock'.seed = pins  BY DEF emit_lockfile
  <2>2. ASSUME NEW p \in all PROVE Settled(pins, pin_binary(universe, p))
    <3>1. PICK S \in {base_closure, seed_set.members} \cup {build_deps(s) : s \in build} :
            p \in S /\ Complete(universe, S) /\ S \subseteq all
      BY <1>1
    <3>2. \A q \in S : pin_binary(universe, q) \in pins  BY <3>1
    <3>. HIDE DEF pins, all
    <3>. QED  BY <3>1, <3>2, PinsSettle
  <2>3. \A t \in pins : Settled(pins, t)  BY <2>2
  <2>. HIDE DEF pins
  <2>. QED  BY <2>1, <2>3 DEF SeedSettles, Settled
<1>3. BuildrootsSettle'
  <2>. SUFFICES ASSUME NEW s \in build,
                       \A p \in lock'.built[s] \cup lock'.seeded[s] : p.variants = {}
                PROVE  \A p \in lock'.built[s] \cup lock'.seeded[s] :
                         Settled(lock'.built[s] \cup lock'.seeded[s], p)
    BY DEF BuildrootsSettle, Settled, emit_lockfile
  <2>. DEFINE S == build_deps(s)
              pins == {pin_binary(universe, p) : p \in S}
  <2>1. /\ lock'.built[s] = {routed_binary(s, p) : p \in Built(s)}
        /\ lock'.seeded[s] = {pin_binary(universe, p) : p \in S \ Built(s)}
    BY DEF emit_lockfile
  <2>2. Built(s) \subseteq S  BY DEF Built
  <2>3. ASSUME NEW p \in Built(s) PROVE routed_binary(s, p) = pin_binary(universe, p)
    <3>1. routed_binary(s, p).variants = {}  BY <2>1
    <3>2. Routes(s, p) # {} =>
            \E v \in Routes(s, p) : routed_binary(s, p).variants = {v.name}
      BY DEF routed_binary
    <3>3. Routes(s, p) = {}  BY <3>1, <3>2
    <3>. QED  BY <3>3 DEF routed_binary
  <2>4. lock'.built[s] \cup lock'.seeded[s] = pins  BY <2>1, <2>2, <2>3
  <2>5. Complete(universe, S)  BY <1>1
  <2>6. \A p \in S : Settled(pins, pin_binary(universe, p))
    <3>1. \A p \in S : pin_binary(universe, p) \in pins  OBVIOUS
    <3>. HIDE DEF pins, S
    <3>. QED  BY <2>5, <3>1, PinsSettle
  <2>7. \A t \in pins : Settled(pins, t)  BY <2>6
  <2>. QED  BY <2>4, <2>7
<1>. QED  BY <1>2, <1>3

-----------------------------------------------------------------------------
(* The lockfile. *)

\* What the repositories of the release hold is, by name, in both universes,
\* and by name and architecture merged, no older.
LEMMA ServedIsMerged ==
  ASSUME RefreshInv, MergeInv, UniverseInv, Indexed, NEW p \in Served("binary")
  PROVE  /\ merged["binary"][Key(p)] \in Release
         /\ Key(merged["binary"][Key(p)]) = Key(p)
         /\ ~OlderEvr(merged["binary"][Key(p)].evr, p.evr)
         /\ Plain(p.name) \in DOMAIN compose.index
         /\ compose.index[Plain(p.name)] = universe.index[Plain(p.name)]
<1>0. Merged /\ ~At("idle") /\ "binary" \in Kinds  BY DEF Indexed, Merged, At, Kinds
<1>1. Newest(merged["binary"], Entries("binary", ReadSoFar))  BY <1>0 DEF MergeInv
<1>2. Entries("binary", ReadSoFar) = Served("binary")
  BY <1>0 DEF Entries, Served, ReadSoFar
<1>. DEFINE m == merged["binary"][Key(p)]
<1>3. Key(p) \in DOMAIN merged["binary"] /\ Key(m) = Key(p) /\ ~OlderEvr(m.evr, p.evr)
  BY <1>1, <1>2 DEF Newest
<1>4. m \in Release  BY <1>3 DEF Release, List
<1>5. m.name = p.name  BY <1>3 DEF Key
<1>. HIDE DEF m
<1>6. p.name \in DOMAIN Collapse(Release)
  <2>1. DOMAIN Collapse(Release) = {q.name : q \in Release}  BY DEF Collapse
  <2>. QED  BY <1>4, <1>5, <2>1
<1>7. /\ p.name \in DOMAIN Collapse(WithTags)
      /\ Collapse(WithTags)[p.name] = Collapse(Release)[p.name]
  BY <1>0, <1>6, SameWinner
<1>8. /\ IndexedBy(universe, Collapse(WithTags), Foreign(WithTags, Collapse(WithTags)))
      /\ IndexedBy(compose, Collapse(Release), Foreign(Release, Collapse(Release)))
  BY CorrectedBoth
<1>9. /\ Plain(p.name) \in DOMAIN compose.index
      /\ compose.index[Plain(p.name)] = Collapse(Release)[p.name]
  BY <1>6, <1>8 DEF IndexedBy
<1>10. universe.index[Plain(p.name)] = Collapse(WithTags)[p.name]
  BY <1>7, <1>8 DEF IndexedBy
<1>. QED  BY <1>3, <1>4, <1>7, <1>9, <1>10 DEF m

\* The image, by overrides of its own and of the release.
LEMMA ImageComplete ==
  ASSUME RefreshInv, MergeInv, UniverseInv, AskInv, At("solve"), images.problems = {},
         validate_overrides(world.overrides, universe) = {},
         \A c \in Caps \cap DOMAIN world.overrides :
           c \notin DOMAIN world.image_overrides =>
             \E p \in Served("binary") : world.overrides[c] = Plain(p.name)
  PROVE  Complete(compose, images.members)
<1>0. Indexed  BY DEF At, Indexed
<1>1. SelfContained(universe) /\ Honest(universe) /\ SelfContained(compose) /\ Honest(compose)
  BY <1>0, BothFit
<1>. DEFINE scoped == Layered(world.overrides, world.image_overrides)
            set == solve_package_set(compose, scoped, world.roots)
<1>2. /\ images.members = set.members /\ set.problems = {}
      /\ validate_overrides(world.image_overrides, compose) = {}
  BY DEF AskInv, At, ImageSet
<1>3. ASSUME NEW c \in Caps \cap DOMAIN scoped
      PROVE  scoped[c] \in DOMAIN compose.index /\ c \in Offers(compose.index[scoped[c]])
  <2>1. CASE c \in DOMAIN world.image_overrides
    <3>1. scoped[c] = world.image_overrides[c]  BY <2>1 DEF Layered
    <3>2. world.image_overrides[c] \in compose.provides[c]
      BY <1>2, <2>1 DEF validate_overrides
    <3>. QED  BY <1>1, <3>1, <3>2 DEF SelfContained, Honest
  <2>2. CASE c \notin DOMAIN world.image_overrides
    <3>1. c \in DOMAIN world.overrides /\ scoped[c] = world.overrides[c]
      BY <2>2 DEF Layered
    <3>2. PICK p \in Served("binary") : scoped[c] = Plain(p.name)  BY <2>2, <3>1
    <3>3. world.overrides[c] \in universe.provides[c]  BY <3>1 DEF validate_overrides
    <3>4. c \in Offers(universe.index[scoped[c]])  BY <1>1, <3>1, <3>3 DEF Honest
    <3>5. /\ scoped[c] \in DOMAIN compose.index
          /\ compose.index[scoped[c]] = universe.index[scoped[c]]
      BY <1>0, <3>2, ServedIsMerged
    <3>. QED  BY <3>4, <3>5
  <2>. QED  BY <2>1, <2>2
<1>4. \A c \in Caps : Resolved(compose, scoped, c) \subseteq DOMAIN compose.index
  <2>. HIDE DEF scoped
  <2>. QED  BY <1>1, <1>3 DEF Resolved, SelfContained
<1>5. Inside(compose, scoped)
  <2>. HIDE DEF scoped
  <2>. QED  BY <1>1, <1>4 DEF Inside, SelfContained
<1>. HIDE DEF scoped
<1>. QED  BY <1>1, <1>2, <1>3, <1>5, PackageSetComplete

\* So is what a lockfile records of it.
LEMMA EmitImage ==
  ASSUME RefreshInv, MergeInv, UniverseInv, AskInv, At("solve"), UNCHANGED world,
         lock' = emit_lockfile, lock'.problems = {}, OverridesInRelease'
  PROVE  PayloadSettles'
<1>1. solve_problems = {} /\ images.problems = {}  BY DEF emit_lockfile
<1>2. validate_overrides(world.overrides, universe) = {}
  <2>1. validate_overrides(world.overrides, universe) \subseteq solve_problems
    BY DEF solve_problems
  <2>. QED  BY <1>1, <2>1
<1>3. lock'.paths = paths  BY DEF emit_lockfile
<1>4. Listed("binary")' = Served("binary")  BY <1>3 DEF Listed, Served, Builds
<1>5. Complete(compose, images.members)
  BY <1>1, <1>2, <1>4, ImageComplete DEF OverridesInRelease
<1>. DEFINE pins == {pin_binary(compose, p) : p \in images.members}
<1>6. lock'.payload = pins  BY DEF emit_lockfile
<1>7. \A p \in images.members : Settled(pins, pin_binary(compose, p))
  <2>1. \A p \in images.members : pin_binary(compose, p) \in pins  OBVIOUS
  <2>. HIDE DEF pins
  <2>. QED  BY <1>5, <2>1, PinsSettle
<1>8. \A t \in pins : Settled(pins, t)  BY <1>7
<1>. HIDE DEF pins
<1>. QED  BY <1>6, <1>8 DEF PayloadSettles, Settled

\* Who consumes no variant is pinned to what was merged.
LEMMA EmitNewest ==
  ASSUME RefreshInv, MergeInv, UniverseInv, At("solve"), UNCHANGED world,
         lock' = emit_lockfile
  PROVE  OthersAreNewest'
<1>0. Indexed /\ Merged  BY DEF At, Indexed, Merged
<1>1. lock'.paths = paths /\ DOMAIN lock'.built = build
  BY DEF emit_lockfile
<1>2. Listed("binary")' = Served("binary")  BY <1>1 DEF Listed, Served, Builds
<1>3. ASSUME NEW s \in build, ~(\E v \in world.variants : s \in v.consumers),
             NEW pin \in lock'.built[s], NEW q \in Served("binary"), Key(q) = Key(pin.build)
      PROVE  ~OlderEvr(pin.build.evr, q.evr)
  <2>1. lock'.built[s] = {routed_binary(s, p) : p \in Built(s)}  BY DEF emit_lockfile
  <2>2. PICK p \in Built(s) : pin = routed_binary(s, p)  BY <2>1
  <2>3. Routes(s, p) = {}  BY <1>3 DEF Routes, Declared
  <2>4. pin.build = universe.index[p]  BY <2>2, <2>3 DEF routed_binary, pin_binary
  <2>5. p \in DOMAIN universe.source_of  BY DEF Built
  <2>6. PICK probe :
          /\ IndexedBy(universe, Collapse(WithTags), Foreign(WithTags, Collapse(WithTags)))
          /\ MadeBy(universe, Collapse(WithTags), probe)
    BY <1>0, CorrectedBoth
  <2>7. PICK n \in DOMAIN Collapse(WithTags) : p = Plain(n)
    BY <2>5, <2>6 DEF MadeBy
  <2>8. pin.build = Collapse(WithTags)[n]  BY <2>4, <2>6, <2>7 DEF IndexedBy
  <2>9. Distinct(WithTags) /\ Release \subseteq WithTags  BY <1>0, UniverseLists
  <2>10. pin.build \in WithTags
    <3>1. DOMAIN Collapse(WithTags) = {r.name : r \in WithTags}  BY DEF Collapse
    <3>. QED  BY <2>8, <2>9, <3>1, TheWinner
  <2>11. /\ merged["binary"][Key(q)] \in Release
         /\ Key(merged["binary"][Key(q)]) = Key(q)
         /\ ~OlderEvr(merged["binary"][Key(q)].evr, q.evr)
    BY <1>0, ServedIsMerged
  <2>12. merged["binary"][Key(q)] = pin.build
    BY <1>3, <2>9, <2>10, <2>11 DEF Distinct
  <2>. QED  BY <2>11, <2>12
<1>. QED  BY <1>1, <1>2, <1>3 DEF OthersAreNewest

\* A lockfile as the last step of a solve writes it.
LEMMA EmitDependable ==
  ASSUME RefreshInv, MergeInv, UniverseInv, AskInv, At("solve"), UNCHANGED world,
         lock' = emit_lockfile
  PROVE  Dependable'
<1>1. OthersAreNewest'  BY EmitNewest
<1>2. lock'.problems = {} => SeedSettles' /\ BuildrootsSettle'  BY EmitSettles
<1>3. lock'.problems = {} => (OverridesInRelease' => PayloadSettles')  BY EmitImage
<1>. QED  BY <1>1, <1>2, <1>3 DEF Dependable

\* And as it stays.
LEMMA DependableStays ==
  ASSUME Dependable, UNCHANGED <<world, lock>> PROVE Dependable'
<1>1. Listed("binary")' = Listed("binary")  BY DEF Listed, Builds
<1>2. /\ PayloadSettles' = PayloadSettles /\ SeedSettles' = SeedSettles
      /\ BuildrootsSettle' = BuildrootsSettle
  BY DEF PayloadSettles, SeedSettles, BuildrootsSettle, Settled
<1>3. OverridesInRelease' = OverridesInRelease /\ OthersAreNewest' = OthersAreNewest
  BY <1>1 DEF OverridesInRelease, OthersAreNewest
<1>. QED  BY <1>2, <1>3 DEF Dependable

\* Every step keeps it.
LEMMA NextDependable ==
  RefreshInv /\ MergeInv /\ UniverseInv /\ AskInv /\ Dependable /\ [Next]_vars => Dependable'
<1>. SUFFICES ASSUME RefreshInv, MergeInv, UniverseInv, AskInv, Dependable, [Next]_vars
              PROVE  Dependable'
  OBVIOUS
<1>1. CASE UNCHANGED vars  BY <1>1, DependableStays DEF vars
<1>2. CASE EarlyStep  BY <1>2, EarlySteps, DependableStays
<1>3. CASE \E i \in DOMAIN Repos : Push(i)  BY <1>3, DependableStays DEF Push
<1>4. CASE Combine \/ Producers \/ Images \/ Sources
  BY <1>4, DependableStays DEF Combine, Producers, Images, Sources
<1>5. CASE Emit
  <2>1. At("solve") /\ UNCHANGED world /\ (UNCHANGED lock \/ lock' = emit_lockfile)
    BY <1>5 DEF Emit
  <2>. QED  BY <2>1, DependableStays, EmitDependable
<1>6. Next => \/ EarlyStep \/ (\E i \in DOMAIN Repos : Push(i))
              \/ (Combine \/ Producers \/ Images \/ Sources) \/ Emit
  BY DEF Next, Solve, EarlyStep
<1>. QED  BY <1>1, <1>2, <1>3, <1>4, <1>5, <1>6

\* A lockfile without problems holds together -- the seed, each buildroot none of
\* whose rpms is routed to a variant, and the image where the release holds what
\* its overrides name -- and pins who consumes no variant to the newest build:
\* solve, solve_package_set, solve_image_sets, validate_overrides, routed_binary.
THEOREM SolveLockIsDependable == Spec => []Dependable
<1>1. Init => AskInv /\ Dependable  BY InitAsk DEF Init, Dependable
<1>2. Spec => [](RefreshInv /\ MergeInv /\ UniverseInv /\ AskInv /\ Dependable)
  BY <1>1, InitRefresh, InitMerge, InitUniverse, NextRefresh, NextMerge, NextUniverse,
     NextAsk, NextDependable, PTL DEF Spec
<1>. QED  BY <1>2, PTL
=============================================================================
