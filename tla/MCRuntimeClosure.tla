-------------------------- MODULE MCRuntimeClosure --------------------------
(* Bounded universes for RuntimeClosure: four packages, "v" a virtual      *)
(* capability several of them may provide, and a table of texts with the   *)
(* trees they parse to.                                                    *)
EXTENDS RuntimeClosure, TLC

MCPkg  == {"r", "a", "b", "c"}
MCName == MCPkg \cup {"v"}
MCSrc  == "srpm"

AtMost(k, S) == {T \in SUBSET S : Cardinality(T) <= k}

Cap(n, op, ver)  == [kind |-> "cap", name |-> n, op |-> op, ver |-> ver]
Chain(k, x, y)   == [kind |-> k, args |-> <<x, y>>]
Cond(k, x, y, z) == [kind |-> k, then |-> x, cond |-> y, else |-> z]

\* EVR 1 is 1-1; 2 and 3 are the releases 2-1 and 2-2 of one version.
Exactly(k) == [low |-> k, high |-> k]
Trees ==
  {<<"v >= 2-1", Cap("v", ">=", Exactly(2))>>,
   <<"v < 2", Cap("v", "<", [low |-> 2, high |-> 3])>>,
   <<"v = 2", Cap("v", "=", [low |-> 2, high |-> 3])>>,
   <<"(v", [kind |-> "garbled"]>>,
   <<"(a if b)", Cond("if", "a", "b", "none")>>,
   <<"(a if c)", Cond("if", "a", "c", "none")>>,
   <<"(b if v)", Cond("if", "b", "v", "none")>>,
   <<"(c if b)", Cond("if", "c", "b", "none")>>,
   <<"(c if v)", Cond("if", "c", "v", "none")>>,
   <<"(v if c)", Cond("if", "v", "c", "none")>>,
   <<"(a unless b)", Cond("unless", "a", "b", "none")>>,
   <<"(b unless c)", Cond("unless", "b", "c", "none")>>,
   <<"(c unless a)", Cond("unless", "c", "a", "none")>>,
   <<"(v unless a)", Cond("unless", "v", "a", "none")>>,
   <<"(a or b)", Chain("or", "a", "b")>>,
   <<"(a or c)", Chain("or", "a", "c")>>,
   <<"(v or c)", Chain("or", "v", "c")>>,
   <<"(b and (a if c))", Chain("and", "b", "(a if c)")>>,
   <<"(v >= 2-1 with v < 2)", Chain("with", "v >= 2-1", "v < 2")>>,
   <<"(v with v >= 2-1)", Chain("with", "v", "v >= 2-1")>>,
   <<"(v with a)", Chain("with", "v", "a")>>,
   <<"(v without b)", [kind |-> "without", left |-> "v", right |-> "b"]>>}

\* (LET forms: TLC then evaluates these once and keeps the value.)
MCExpr == LET texts == MCName \cup {t[1] : t \in Trees} IN texts
MCNode == LET tree(e) == (CHOOSE t \in Trees : t[1] = e)[2]
          IN  [e \in MCExpr |-> IF e \in MCName THEN Cap(e, "any", Exactly(0)) ELSE tree(e)]
\* Names, texts of one operator, and texts with others inside.
MCLength == [e \in MCExpr |-> IF e \in MCName THEN 1
                              ELSE IF Operands(e) \subseteq MCName THEN 9 ELSE 15]
\* What a `with` is called when it is a range.
Joins == "(v >= 2-1 with v < 2)" :> "v >= 2-1 with v < 2"
         @@ "(v with v >= 2-1)" :> "v with v >= 2-1" @@ "(v with a)" :> "v with a"
MCJoined == LET join(e) == IF e \in DOMAIN Joins THEN Joins[e] ELSE e
            IN  [e \in MCExpr |-> join(e)]
MCKey == LET keys == MCExpr \cup {MCJoined[e] : e \in MCExpr} IN keys

\* Requires: a choice of few texts for each package.
Reqs(r, a, b, c) ==
  {[p \in MCPkg |-> CASE p = "r" -> f[1] [] p = "a" -> f[2]
                      [] p = "b" -> f[3] [] OTHER -> f[4]] :
     f \in r \X a \X b \X c}

\* v is provided by a set of packages; every package provides its name.
Offers(S) == [n \in MCName |-> IF n = "v" THEN S ELSE {n}]

Asking(extra, req) == [roots |-> {"r"}, extra |-> extra, requires |-> req]
Repo(providers, evr, over) ==
  [provides |-> Offers(providers), evr |-> evr, overrides |-> over]

NoOverrides == [k \in {} |-> "r"]

-----------------------------------------------------------------------------
(* Conditions, choices and conjunctions whose answer only grows with the   *)
(* closure: `if` without `else`, `or` of bare names, `and`.                *)

GrowingRepos == {Repo(o, {}, NoOverrides) : o \in {{"b"}, {"b", "c"}}}
GrowingAsks ==
  {Asking(x, q) : x \in {{}, {"(c if v)"}},
     q \in Reqs(AtMost(2, {"a", "b", "v", "(a if b)", "(a or b)", "(v if c)",
                           "(b and (a if c))", "(v or c)"}),
                AtMost(1, {"c", "v", "(c if b)"}),
                AtMost(1, {"v", "(a if c)", "(b if v)"}),
                AtMost(1, {"a", "(a or c)"}))}

GrowingInputs == LET all == GrowingRepos \X GrowingAsks IN all

-----------------------------------------------------------------------------
(* Version constraints and ranges over v, which two or three provide at   *)
(* some versions or at none, with and without overrides.                   *)

Stated == {{}, {<<"v", "b", 1>>, <<"v", "c", 2>>},
           {<<"v", "b", 1>>, <<"v", "b", 3>>, <<"v", "c", 2>>},
           {<<"v", "c", 1>>}}

VersionRepos ==
  {Repo(o, {t \in s : t[2] \in o}, f) :
     o \in {{"b", "c"}, {"a", "b", "c"}}, s \in Stated,
     f \in {NoOverrides, "v" :> "b", "v >= 2-1" :> "c",
            "(v >= 2-1 with v < 2)" :> "b", "v >= 2-1 with v < 2" :> "b"}}
VersionAsks ==
  {Asking({}, q) :
     q \in Reqs(AtMost(2, {"v", "v >= 2-1", "v < 2", "v = 2", "(v with a)",
                           "(v >= 2-1 with v < 2)", "(v with v >= 2-1)",
                           "(v without b)"}),
                {{}}, {{}, {"c"}, {"(v"}}, {{}, {"v < 2"}})}

-----------------------------------------------------------------------------
(* `unless`, settled only when nothing else can fire.                      *)

UnlessRepos == {Repo(o, {}, NoOverrides) : o \in {{}, {"b"}, {"c"}}}
UnlessAsks ==
  {Asking(x, q) : x \in {{}, {"(b unless c)"}},
     q \in Reqs(AtMost(2, {"a", "b", "(a unless b)", "(b unless c)", "(c if b)",
                           "(v unless a)"}),
                AtMost(1, {"c", "(c if b)", "(b unless c)"}),
                AtMost(1, {"v", "(c unless a)", "(a if c)"}),
                AtMost(1, {"a", "(a or b)"}))}

LateInputs ==
  LET all == (VersionRepos \X VersionAsks) \cup (UnlessRepos \X UnlessAsks) IN all

ClosureInputs == LET all == GrowingInputs \cup LateInputs IN all
=============================================================================
