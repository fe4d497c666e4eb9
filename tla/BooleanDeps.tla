----------------------------- MODULE BooleanDeps -----------------------------
(***************************************************************************)
(* The pure part of tools/depgraph.py: how one requirement is read against *)
(* a universe of packages.  A requirement is an opaque text with a tree    *)
(* beside it, node[e], the one parse_boolean builds:                       *)
(*                                                                         *)
(*   [kind |-> "cap", name, op, ver]        a capability, maybe versioned  *)
(*   [kind |-> "and" | "or" | "with", args] a chain, args a sequence       *)
(*   [kind |-> "without", left, right]                                     *)
(*   [kind |-> "if" | "unless", then, cond, else]   else may be NoExpr     *)
(*   [kind |-> "garbled"]                   what parse_boolean gives up on *)
(*                                                                         *)
(* where operands are texts again and a bare capability name is the text   *)
(* of its own unversioned leaf.                                            *)
(*                                                                         *)
(* A repository w is what solve.build_universe and the flavor hand over:   *)
(* w.provides, w.evr (triples name, package, version; a package with none  *)
(* is an unversioned Provides) and w.overrides (a function on some of the  *)
(* keys).  EVR triples are abstracted to naturals: only their order is     *)
(* used.  A constraint is compared at the precision it states: the one     *)
(* that states no release equals every release of its version, so ver is   *)
(* the interval [low, high] of the EVRs it equals.                         *)
(***************************************************************************)
EXTENDS Integers, Sequences, FiniteSets

CONSTANTS Pkg,    \* binary package names
          Name,   \* capability names; every package name is one
          Expr,   \* requirement texts, closed under operands
          node,   \* what each text parses to
          length, \* how long it is, its parentheses included
          OverrideKey, \* what an override may be keyed by: the texts, and others
          joined, \* joined[e]: the leaves of a `with`, " with " between them
          NoExpr, \* the absent `else`
          Src     \* the source package whose `extra` expressions are read

Who == Pkg \cup {Src}

\* is_rich_dep: everything written in parentheses.
Kind(e) == node[e].kind
Rich(e) == Kind(e) # "cap"

\* The name a leaf asks for, and what strip_capability_version leaves of it.
Bare(e) == node[e].name

Operands(e) ==
  LET t == node[e]
  IN  CASE t.kind \in {"and", "or", "with"} -> {t.args[i] : i \in DOMAIN t.args}
        [] t.kind = "without"               -> {t.left, t.right}
        [] t.kind \in {"if", "unless"}      -> {t.then, t.cond, t.else} \ {NoExpr}
        [] OTHER                            -> {}

\* The texts a choice about e goes by, to be reported and overridden under: a
\* range goes by its bounds alone, without the parentheses.
Texts(e) == IF Kind(e) = "with" THEN {e, joined[e]} ELSE {e}

-----------------------------------------------------------------------------
(* Versions and providers. *)

satisfies_constraint(provided, op, wanted) ==
  CASE op = "="  -> wanted.low <= provided /\ provided <= wanted.high
    [] op = ">"  -> provided > wanted.high
    [] op = ">=" -> provided >= wanted.low
    [] op = "<"  -> provided < wanted.low
    [] op = "<=" -> provided <= wanted.high
    [] OTHER     -> TRUE

\* A package may provide a capability at several versions, or at none.
AnyVersionSatisfies(provided, e) ==
  \/ provided = {}
  \/ \E v \in provided : satisfies_constraint(v, node[e].op, node[e].ver)

Versions(w, n, p) == {t[3] : t \in {x \in w.evr : x[1] = n /\ x[2] = p}}

\* The providers a leaf's constraint leaves standing.
Matching(w, e) ==
  {p \in w.provides[Bare(e)] : AnyVersionSatisfies(Versions(w, Bare(e), p), e)}

Overridden(w, e) == e \in DOMAIN w.overrides

-----------------------------------------------------------------------------
(* What reading a requirement does to runtime_closure's state: packages to *)
(* pull, operands to look at again later, open choices, problems; `defer`  *)
(* is require() returning None.                                            *)

Choice  == [expr : OverrideKey, alts : SUBSET Name]
Problem == [kind : {"unresolved", "rich", "choice"}, expr : Expr]
Effect  == [defer : BOOLEAN, pkgs : SUBSET Pkg, pend : SUBSET Expr,
            choices : SUBSET Choice, problems : SUBSET Problem]

Nothing == [defer |-> FALSE, pkgs |-> {}, pend |-> {}, choices |-> {},
            problems |-> {}]
Defer           == [Nothing EXCEPT !.defer = TRUE]
Pull(p)         == [Nothing EXCEPT !.pkgs = {p}]
Choose(e, alts) == [Nothing EXCEPT !.choices = {[expr |-> e, alts |-> alts]}]
Complain(k, e)  == [Nothing EXCEPT !.problems = {[kind |-> k, expr |-> e]}]

\* The highest version of a capability that one of the packages P states
\* and that every bound in B admits; {} when they state none.
NewestOf(w, n, P, B) ==
  LET stated == {pv \in UNION {{p} \X Versions(w, n, p) : p \in P} :
                   \A b \in B : satisfies_constraint(pv[2], node[b].op, node[b].ver)}
  IN  {pv[1] : pv \in {x \in stated : \A y \in stated : x[2] >= y[2]}}

AnyOf(S) == Pull(CHOOSE p \in S : TRUE)

\* Several providers are left: the newest when versions tell them apart.
prefer(e, m, newest) == IF newest # {} THEN AnyOf(newest) ELSE Choose(e, m)

\* One of the providers m, by resolve_capability's policy.  Among equally
\* new ones the code takes the first in name order; CHOOSE fixes one.
pick(w, e, m) ==
  IF m = {} THEN Complain("unresolved", e)
  ELSE IF Cardinality(m) = 1 THEN AnyOf(m)
  ELSE IF Bare(e) \in m THEN Pull(Bare(e))
  ELSE prefer(e, m, IF node[e].op = "any" THEN {}
                    ELSE NewestOf(w, Bare(e), m, {e}))

\* Mutation: the constraint is stripped before the lookup.
resolve_by_name(w, e) == pick(w, Bare(e), w.provides[Bare(e)])

\* resolve_capability, and the two handlers runtime_closure.resolve wraps
\* around it.
resolve(w, e) ==
  IF Overridden(w, e) THEN Pull(w.overrides[e])
  ELSE IF Overridden(w, Bare(e)) THEN Pull(w.overrides[Bare(e)])
  ELSE pick(w, e, Matching(w, e))

-----------------------------------------------------------------------------
(* Shapes of an expression. *)

\* Every leaf below e; _leaf_names and _leaf_caps are defined by these.
Leaves ==
  LET f[e \in Expr] == IF Rich(e) THEN UNION {f[x] : x \in Operands(e)} ELSE {e}
  IN  f

\* e is built from the given chain operators and leaves only.
BuiltFrom(ops) ==
  LET f[e \in Expr] == \/ ~Rich(e)
                       \/ Kind(e) \in ops /\ \A x \in Operands(e) : f[x]
  IN  f

\* _leaf_names does not answer None.
HasNames == BuiltFrom({"and", "or", "with"})

\* _leaf_caps does not.
HasCaps == BuiltFrom({"with"})

\* _leaf_names, as a set: its order only shows in messages.
LeafNames(e) == {Bare(x) : x \in Leaves[e]}

\* The first name _leaf_names lists, which is all `without` looks at.
FirstName ==
  LET f[e \in Expr] == IF Kind(e) \in {"and", "or", "with"} THEN f[node[e].args[1]]
                       ELSE Bare(e)
  IN  f

-----------------------------------------------------------------------------
(* satisfied(): is e already true of the packages S? *)

capability_present(w, S, n) ==
  IF Overridden(w, n) THEN w.overrides[n] \in S
  ELSE w.provides[n] \cap S # {}

\* Is e true, given which of its operands are?
true_of(w, S, e, f) ==
  LET t == node[e] IN
  CASE t.kind = "cap" -> capability_present(w, S, t.name)
    [] t.kind = "or"  -> \E x \in Operands(e) : f[x]
    [] t.kind \in {"and", "with"} -> \A x \in Operands(e) : f[x]
    [] t.kind = "without" -> f[t.left] /\ ~f[t.right]
    [] t.kind = "if" ->
         IF f[t.cond] THEN f[t.then] ELSE t.else # NoExpr => f[t.else]
    [] t.kind = "unless" ->
         IF f[t.cond] THEN t.else # NoExpr => f[t.else] ELSE f[t.then]
    [] t.kind = "garbled" -> FALSE

satisfied(w, S) ==
  LET f[e \in Expr] == true_of(w, S, e, [x \in Operands(e) |-> f[x]])
  IN  f

-----------------------------------------------------------------------------
(* The branches of require(). *)

\* resolve_range: one provider within every bound of a `with` chain that
\* names a single capability n.
InRange(w, e, n) == {p \in w.provides[n] :
                       \A b \in Leaves[e] :
                          AnyVersionSatisfies(Versions(w, n, p), b)}

pick_range(w, e, n, fit) ==
  IF Overridden(w, n) THEN Pull(w.overrides[n])
  ELSE IF fit = {} THEN Complain("unresolved", e)
  ELSE IF Cardinality(fit) = 1 THEN AnyOf(fit)
  ELSE prefer(joined[e], fit, NewestOf(w, n, fit, {}))

resolve_range(w, e, n) == pick_range(w, e, n, InRange(w, e, n))

\* intersect: the packages a `with` or a `without` leaves as candidates.
Intersect(w, e) ==
  IF Kind(e) = "with"
  THEN {p \in Pkg : \A n \in LeafNames(e) : p \in w.provides[n]}
  ELSE w.provides[FirstName[node[e].left]] \ w.provides[FirstName[node[e].right]]

Readable(e) == IF Kind(e) = "with" THEN HasNames[e]
               ELSE HasNames[node[e].left] /\ HasNames[node[e].right]

among(w, e, candidates) ==
  IF Cardinality(candidates) = 1 THEN AnyOf(candidates)
  ELSE IF Overridden(w, e) THEN Pull(w.overrides[e])
  ELSE Complain("unresolved", e)

require_with(w, e) ==
  IF Kind(e) = "with" /\ HasCaps[e] /\ Cardinality(LeafNames(e)) = 1
  THEN resolve_range(w, e, CHOOSE n \in LeafNames(e) : TRUE)
  ELSE IF Readable(e) THEN among(w, e, Intersect(w, e))
  ELSE Complain("rich", e)

\* An alternative nothing provides is dropped; a single package left is no
\* choice, unless some alternative is itself ambiguous.
settle_or(e, reads, live) ==
  IF Cardinality(live) = 1 /\ \A r \in reads : r.choices = {}
  THEN AnyOf(live) ELSE Choose(e, LeafNames(e))

alternatives(e, reads) == settle_or(e, reads, UNION {r.pkgs : r \in reads})

require_or(w, sat, e) ==
  IF \E x \in Operands(e) : sat[x] THEN Nothing
  ELSE IF ~HasNames[e] THEN Complain("rich", e)
  ELSE IF Overridden(w, e) THEN Pull(w.overrides[e])
  ELSE alternatives(e, {resolve(w, n) : n \in LeafNames(e)})

\* Children of an `and` are read one by one; a deferred child waits alone.
Together(e, f) ==
  [defer    |-> FALSE,
   pkgs     |-> UNION {f[x].pkgs : x \in Operands(e)},
   pend     |-> (UNION {f[x].pend : x \in Operands(e)})
                  \cup {x \in Operands(e) : f[x].defer},
   choices  |-> UNION {f[x].choices : x \in Operands(e)},
   problems |-> UNION {f[x].problems : x \in Operands(e)}]

(***************************************************************************)
(* require(node, who, final): what e demands of a closure that so far      *)
(* satisfies sat, given what its operands demand.  A leaf inside an        *)
(* expression is resolved by its bare name.                                *)
(***************************************************************************)
demand(w, sat, final, e, f) ==
  LET t == node[e] IN
  CASE t.kind = "cap" -> resolve(w, t.name)
    [] t.kind = "and" -> Together(e, f)
    [] t.kind = "or"  -> require_or(w, sat, e)
    [] t.kind \in {"with", "without"} -> require_with(w, e)
    [] t.kind = "if" /\ sat[t.cond]  -> f[t.then]
    [] t.kind = "if" /\ ~sat[t.cond] ->
         IF t.else # NoExpr THEN f[t.else] ELSE Defer
    [] t.kind = "unless" /\ sat[t.cond] ->
         IF t.else # NoExpr THEN f[t.else] ELSE Nothing
    [] t.kind = "unless" /\ ~sat[t.cond] ->
         IF final THEN f[t.then] ELSE Defer
    [] t.kind = "garbled" -> Complain("rich", e)

demands(w, sat, final) ==
  LET f[e \in Expr] == demand(w, sat, final, e, [x \in Operands(e) |-> f[x]])
  IN  f

require(w, S, final) == demands(w, satisfied(w, S), final)

-----------------------------------------------------------------------------
(* Reference semantics: what rpm means by the same expressions.  Used by   *)
(* the properties only.                                                    *)

Fits(w, p, b) == p \in Matching(w, b)

\* An override is a decision: the package it names settles its text.
Decided(w, S, k) == Overridden(w, k) /\ w.overrides[k] \in S

meaning(w, S, e, f) ==
  LET t == node[e] IN
  CASE t.kind = "cap" -> \/ S \cap Matching(w, e) # {}
                         \/ \E k \in {e, t.name} : Decided(w, S, k)
    [] t.kind = "and" -> \A x \in Operands(e) : f[x]
    [] t.kind = "or"  -> Decided(w, S, e) \/ \E x \in Operands(e) : f[x]
    [] t.kind = "with" ->
         \/ \E p \in S : \A b \in Leaves[e] : Fits(w, p, b)
         \/ \E k \in Texts(e) \cup LeafNames(e) : Decided(w, S, k)
    [] t.kind = "without" ->
         \/ \E p \in S : /\ \A b \in Leaves[t.left] : Fits(w, p, b)
                         /\ \A b \in Leaves[t.right] : ~Fits(w, p, b)
         \/ Decided(w, S, e)
    [] t.kind = "if" ->
         IF f[t.cond] THEN f[t.then] ELSE t.else # NoExpr => f[t.else]
    [] t.kind = "unless" ->
         IF f[t.cond] THEN t.else # NoExpr => f[t.else] ELSE f[t.then]
    [] t.kind = "garbled" -> FALSE

Holds(w, S) ==
  LET f[e \in Expr] == meaning(w, S, e, [x \in Operands(e) |-> f[x]])
  IN  f

\* The expressions a report about e may name.
Mentioned ==
  LET f[e \in Expr] == Texts(e) \cup (IF Rich(e) THEN UNION {f[x] : x \in Operands(e)}
                                     ELSE {Bare(e)})
  IN  f
=============================================================================
