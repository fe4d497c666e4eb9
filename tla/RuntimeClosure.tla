--------------------------- MODULE RuntimeClosure ---------------------------
(***************************************************************************)
(* runtime_closure of tools/depgraph.py: the worklist that closes a set of *)
(* binary packages over their Requires.  Conditions and choices ask about  *)
(* the very set being computed, so they wait in `pending` and `choices`    *)
(* and are asked again whenever the worklist drains.                       *)
(*                                                                         *)
(* The worklist is a set and any member may be popped next: the code pops  *)
(* a list whose order is that of the repodata.  Lists of waiting items are *)
(* sets of items; a second copy of an item changes nothing.                *)
(***************************************************************************)
EXTENDS BooleanDeps

CONSTANT Inputs   \* what may be asked of which repository: <<repository,
                  \* [roots, extra, requires]>>

\* The repositories a behaviour may be solved against, and what is asked.
Repositories == {i[1] : i \in Inputs}
Asks  == {i[2] : i \in Inputs}

VARIABLES w,         \* the repository, one of Repositories: never assigned
          asks,      \* one of Asks: never assigned
          seen,      \* the closure so far
          frontier,  \* packages still to be read
          pending,   \* [expr, who]: conditions that have not settled
          choices,   \* [expr, alts, who]: no candidate present yet
          problems,  \* [kind, expr, who]: what is reported
          phase

closureVars == <<w, asks, seen, frontier, pending, choices, problems, phase>>

Phases == {"extra", "drain", "choose", "unless", "report", "done"}

Ask == [roots : SUBSET Pkg, extra : SUBSET Expr, requires : [Pkg -> SUBSET Expr]]

\* Inputs are well formed.
ASSUME InputAssumption ==
  /\ Pkg \subseteq Name /\ Src \notin Pkg
  /\ \A x \in Repositories :
       /\ x.provides \in [Name -> SUBSET Pkg]
       /\ x.evr \subseteq Name \X Pkg \X Nat
       /\ DOMAIN x.overrides \subseteq OverrideKey
       /\ \A k \in DOMAIN x.overrides : x.overrides[k] \in Pkg
  /\ Asks \subseteq Ask

\* A name is a text; without operators it reads as itself, any version.
ASSUME ExprAssumption ==
  /\ Name \subseteq Expr /\ NoExpr \notin Expr
  /\ Expr \subseteq OverrideKey /\ joined \in [Expr -> OverrideKey]
  /\ \A n \in Name : node[n] = [kind |-> "cap", name |-> n, op |-> "any",
                                 ver |-> [low |-> 0, high |-> 0]]
  /\ \A e \in Expr : ~Rich(e) => Bare(e) \in Name

\* The operands of a text are shorter texts, finitely many; a chain has one at
\* least, and only an `else` may be absent.
ASSUME TreeAssumption ==
  /\ length \in [Expr -> Nat]
  /\ \A e \in Expr :
       /\ Kind(e) \in {"cap", "and", "or", "with", "without", "if", "unless", "garbled"}
       /\ Operands(e) \subseteq {x \in Expr : length[x] < length[e]} /\ IsFiniteSet(Operands(e))
       /\ Kind(e) \in {"and", "or", "with"} => 1 \in DOMAIN node[e].args
       /\ Kind(e) \in {"if", "unless"} => node[e].then # NoExpr /\ node[e].cond # NoExpr

-----------------------------------------------------------------------------

\* reduce_rich for an expression, resolve for a plain capability: what e
\* does under the readings `req`, a deferred e being one more waiting item.  A
\* garbled e is reported here by the code, with the words require() has for it.
Read(req, e) ==
  IF ~Rich(e) THEN resolve(w, e)
  ELSE IF req[e].defer THEN [Nothing EXCEPT !.pend = {e}] ELSE req[e]

\* A reading is [who, eff]; what a set of readings adds to each list.
Pulled(reads)   == UNION {r.eff.pkgs : r \in reads}

Waits(reads)    == UNION {{[expr |-> x, who |-> r.who] : x \in r.eff.pend} :
                            r \in reads}

Opened(reads)   == UNION {{[expr |-> c.expr, alts |-> c.alts, who |-> r.who] :
                            c \in r.eff.choices} : r \in reads}

Reported(reads) == UNION {{[kind |-> q.kind, expr |-> q.expr, who |-> r.who] :
                            q \in r.eff.problems} : r \in reads}

\* The items of `pending` read again; final settles `unless`.
Reread(final) ==
  LET req == require(w, seen, final)
  IN  {[who |-> i.who, eff |-> Read(req, i.expr)] : i \in pending}

\* The Requires of p, and the caller's expressions with their version
\* constraints stripped, read against the closure S.
ReadRequires(p, S) ==
  LET req == require(w, S, FALSE)
  IN  {[who |-> p, eff |-> Read(req, e)] : e \in asks.requires[p]}

ReadCaller(S) ==
  LET req == require(w, S, FALSE)
  IN  {[who |-> Src, eff |-> IF Rich(e) THEN Read(req, e)
                             ELSE resolve(w, Bare(e))] : e \in asks.extra}

ClosureInit ==
  /\ \E i \in Inputs : w = i[1] /\ asks = i[2]
  /\ seen = {} /\ frontier = asks.roots
  /\ pending = {} /\ choices = {} /\ problems = {}
  /\ phase = "extra"

\* What a batch of readings does to the lists, the pending ones in `keep`
\* staying; packages of S are not pulled in again.
Learn(reads, keep, base, S) ==
  /\ frontier' = (base \cup Pulled(reads)) \ S
  /\ pending'  = keep \cup Waits(reads)
  /\ choices'  = choices \cup Opened(reads)
  /\ problems' = problems \cup Reported(reads)

\* The caller's own expressions are read before any package is.
ReadExtra ==
  /\ phase = "extra" /\ phase' = "drain"
  /\ Learn(ReadCaller({}), pending, frontier, {})
  /\ UNCHANGED <<w, asks, seen>>

\* One package leaves the worklist and its Requires are read.
Pop(p) ==
  /\ phase = "drain" /\ p \in frontier
  /\ seen' = seen \cup {p}
  /\ Learn(ReadRequires(p, seen'), pending, frontier, seen')
  /\ UNCHANGED <<w, asks, phase>>

\* Mutation: conditions are asked once and then forgotten.
RecheckPendingOnce ==
  /\ phase = "drain" /\ frontier = {} /\ phase' = "choose"
  /\ frontier' = Pulled(Reread(FALSE)) \ seen
  /\ pending' = {}
  /\ UNCHANGED <<w, asks, seen, choices, problems>>

\* The worklist is empty: ask the waiting conditions again.
RecheckPending ==
  /\ phase = "drain" /\ frontier = {} /\ phase' = "choose"
  /\ Learn(Reread(FALSE), {}, {}, seen)
  /\ UNCHANGED <<w, asks, seen>>

StillOpen == {c \in choices : \A a \in c.alts : ~capability_present(w, seen, a)}

\* The choices pull packages in, and some of them are left.
CloseChoices(pulls, left) ==
  /\ phase = "choose"
  /\ frontier' = frontier \cup (pulls \ seen)
  /\ choices' = left
  /\ UNCHANGED <<w, asks, seen, pending, problems>>

\* Mutation: an open choice is settled by taking some candidate.
RecheckChoicesByPolicy ==
  /\ CloseChoices({CHOOSE p \in Pkg : \E a \in c.alts : p \in w.provides[a] :
                     c \in {x \in StillOpen : \E a \in x.alts : w.provides[a] # {}}},
                  {})
  /\ phase' = IF frontier' = {} THEN "unless" ELSE "drain"

\* A choice closes when a candidate is present, or fires an override.
RecheckChoices ==
  LET decided == {c \in StillOpen : Overridden(w, c.expr)}
  IN  /\ CloseChoices({w.overrides[c.expr] : c \in decided}, StillOpen \ decided)
      /\ phase' = IF frontier' = {} THEN "unless" ELSE "drain"

\* Mutation: `unless` is never told that its excuse did not arrive.
SettleUnlessNever ==
  /\ phase = "unless"
  /\ Learn(Reread(FALSE), {}, {}, seen)
  /\ phase' = IF frontier' = {} THEN "report" ELSE "drain"
  /\ UNCHANGED <<w, asks, seen>>

\* Mutation: the loop waits for every condition to settle.
SettleUnlessAll ==
  /\ phase = "unless"
  /\ Learn(Reread(TRUE), {}, {}, seen)
  /\ phase' = IF frontier' = {} /\ pending' = {} THEN "report" ELSE "drain"
  /\ UNCHANGED <<w, asks, seen>>

\* Nothing positive can fire any more, so `unless` loses its excuse.
SettleUnless ==
  /\ phase = "unless"
  /\ Learn(Reread(TRUE), {}, {}, seen)
  /\ phase' = IF frontier' = {} THEN "report" ELSE "drain"
  /\ UNCHANGED <<w, asks, seen>>

\* Mutation: a choice no one settled is dropped.
ReportNothing ==
  /\ phase = "report" /\ phase' = "done"
  /\ UNCHANGED <<w, asks, seen, frontier, pending, choices, problems>>

\* Who ran into an open choice.
Askers(e) == {c.who : c \in {x \in choices : x.expr = e}}

\* Choices still open are reported, one problem a decision however many ask
\* for it, and the closure is returned.  The problem is filed under the first
\* asker in name order; CHOOSE fixes one.  Its text names three and counts the rest.
Report ==
  /\ phase = "report"
  /\ problems' = problems \cup
       {[kind |-> "choice", expr |-> e, who |-> CHOOSE p \in Askers(e) : TRUE] :
          e \in {c.expr : c \in choices}}
  /\ phase' = "done"
  /\ UNCHANGED <<w, asks, seen, frontier, pending, choices>>

Returned == phase = "done" /\ UNCHANGED closureVars

ClosureNext ==
  \/ ReadExtra
  \/ \E p \in Pkg : Pop(p)
  \/ RecheckPending \/ RecheckChoices \/ SettleUnless \/ Report
  \/ Returned

ClosureSpec == ClosureInit /\ [][ClosureNext]_closureVars

\* One thread runs the function, and Python keeps running it.
FairSpec == ClosureSpec /\ WF_closureVars(ClosureNext)

-----------------------------------------------------------------------------
(* Properties. *)

TypeOK ==
  /\ w \in Repositories /\ asks \in Ask
  /\ seen \subseteq Pkg /\ frontier \subseteq Pkg
  /\ pending \subseteq [expr : Expr, who : Who]
  /\ choices \subseteq [expr : OverrideKey, alts : SUBSET Name, who : Who]
  /\ problems \subseteq [kind : {"unresolved", "rich", "choice"},
                         expr : OverrideKey, who : Who]
  /\ phase \in Phases

Done == phase = "done"

\* A problem about the text e is who's: it is filed under who, or it is the
\* one problem of a decision that who is an asker of.
FiledFor(who, e) ==
  \E q \in problems :
    /\ q.expr = e
    /\ \/ q.who = who
       \/ q.kind = "choice" /\ {q.who, who} \subseteq Askers(e)

ReportedFor(who, e) == \E k \in Mentioned[e] : FiledFor(who, k)

\* The closure is usable: whatever a member or the caller requires is true
\* of the set returned, by rpm's reading of the expression, or is in the
\* list of problems under the requiring package, an open choice perhaps under
\* another that asks the same; and a choice is put to a human only if the
\* closure holds none of its candidates, as its message says.
ClosureSound ==
  LET holds == Holds(w, seen)
  IN  Done => /\ \A p \in seen : \A e \in asks.requires[p] :
                   holds[e] \/ ReportedFor(p, e)
              /\ \A e \in asks.extra : holds[e] \/ ReportedFor(Src, e)
              /\ \A c \in choices : \A a \in c.alts : ~capability_present(w, seen, a)

\* The same for plain capabilities, whatever the expressions beside them
\* are: a plain requirement of a member has a matching provider or its
\* override in the closure, or is reported -- under the member, or as the one
\* problem of a decision the member is among the askers of -- or is an ambiguity
\* dismissed because something present provides a capability named like a
\* candidate.
PlainSettled ==
  Done => /\ asks.roots \subseteq seen
          /\ \A p \in seen : \A e \in asks.requires[p] : ~Rich(e) =>
               \/ seen \cap Matching(w, e) # {}
               \/ \E k \in {e, Bare(e)} : Overridden(w, k) /\ w.overrides[k] \in seen
               \/ FiledFor(p, e)
               \/ \E a \in Matching(w, e) : capability_present(w, seen, a)

\* PlainSettled is not inductive: while the loop runs, a requirement may
\* be settled by a package still in the worklist or be an open choice.
PlainOpen(p, e) ==
  \/ (seen \cup frontier) \cap Matching(w, e) # {}
  \/ \E k \in {e, Bare(e)} :
        Overridden(w, k) /\ w.overrides[k] \in seen \cup frontier
  \/ \E q \in problems : q.who = p /\ q.expr = e
  \/ [expr |-> e, alts |-> Matching(w, e), who |-> p] \in choices
  \/ \E a \in Matching(w, e) : capability_present(w, seen, a)

PlainInv ==
  /\ phase \in {"unless", "report", "done"} => frontier = {}
  /\ asks.roots \subseteq seen \cup frontier
  /\ \A p \in seen : \A e \in asks.requires[p] : ~Rich(e) => PlainOpen(p, e)
  /\ Done => \A c \in choices :
       \E q \in problems : q.kind = "choice" /\ q.expr = c.expr /\ q.who \in Askers(c.expr)

\* A set that already contains what its members demand of it, `unless`
\* aside.
ClosedUnder(S) ==
  /\ asks.roots \cup Pulled(ReadCaller(S)) \subseteq S
  /\ \A p \in S : Pulled(ReadRequires(p, S)) \subseteq S

\* What answers a name, and a name whose reading brings all that answers it
\* or leaves a choice open.
Answering(x, n) == IF Overridden(x, n) THEN {x.overrides[n]} ELSE x.provides[n]
OneAnswer(x, n) == \/ Answering(x, n) \subseteq resolve(x, n).pkgs
                   \/ resolve(x, n).choices # {}

\* The texts that only ask for more as the closure grows: no `unless`, no
\* `else`, no negation in a condition, no alternative that a package other
\* than the one pulled in could answer, no override of a text whose choice
\* may have been settled by then.
rises(x, e, f) ==
  \/ ~Rich(e) \/ Kind(e) = "without"
  \/ Kind(e) = "with" /\ \A k \in Texts(e) : ~Overridden(x, k)
  \/ Kind(e) = "and" /\ \A y \in Operands(e) : f[y]
  \/ Kind(e) = "or" /\ (HasNames[e] => /\ ~Overridden(x, e)
                                      /\ \A n \in LeafNames(e) : OneAnswer(x, n))
  \/ Kind(e) = "if" /\ /\ node[e].else = NoExpr /\ HasNames[node[e].cond]
                       /\ f[node[e].then]
Rising(x) ==
  LET f[e \in Expr] == rises(x, e, [y \in Operands(e) |-> f[y]])
  IN  f

Growing == \A e \in asks.extra \cup UNION {asks.requires[p] : p \in Pkg} : Rising(w)[e]

\* Whatever order the worklist is popped in, the closure of such requirements
\* is the least closed set: nothing is pulled in that is not demanded, and
\* reading a condition early or late gives the same answer.
GrowingOrderIndependent ==
  Done /\ Growing => /\ ClosedUnder(seen)
                     /\ \A S \in SUBSET Pkg : ClosedUnder(S) => seen \subseteq S

\* The loop ends: packages only ever arrive, and each round without an
\* arrival leaves it.
Terminates == <>Done
=============================================================================
