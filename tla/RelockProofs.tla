---------------------------- MODULE RelockProofs ----------------------------
(***************************************************************************)
(* What a run of relock.py or rpm_relock.py says in the end is so, and no  *)
(* answer of a probe is lost: SaysWhatIsSo and NothingForgotten of Relock, *)
(* for any world in which no package needs itself built.                   *)
(***************************************************************************)
EXTENDS Relock, TLAPS

(***************************************************************************)
(* What a report can be.  A probe reads a first part D of the rounds and   *)
(* stops at one that is not installed, so the rounds before the last one   *)
(* are all provided by some package; with nothing left out, so is that one.*)
(***************************************************************************)
Full(p, r) == r.caps = Asked(w, p) /\ Asked(w, p) \subseteq w.known
HonestReport(p, r) ==
  /\ r \in Report
  /\ \E D \in SUBSET DOMAIN w.asks[p] :
       /\ 1 \in D
       /\ \A i \in D, j \in DOMAIN w.asks[p] :
            j < i => j \in D /\ w.asks[p][j] \subseteq w.known
       /\ r.caps = UNION {w.asks[p][i] : i \in D}
  /\ r.dynamic = r.caps \ w.asks[p][1]
  /\ ~r.unmet => Full(p, r)
Honest(R) == R \in Reports /\ \A p \in DOMAIN R : HonestReport(p, R[p])

\* A report says no less than another.
Below(P, R) ==
  /\ DOMAIN P \subseteq DOMAIN R
  /\ \A p \in DOMAIN P : /\ P[p].caps \subseteq R[p].caps
                         /\ ~P[p].unmet => ~R[p].unmet

\* The locks a run solves: with the probe file R, and with none.
Solved(R) == [probe |-> TRUE, reports |-> R]
Empty == [probe |-> FALSE, reports |-> NoReports]
After(R) == Layered(R, run_probes(Solved(R)))

\* R has the answers of a pass over a lock no richer than itself.
Fresh(R) == \E g \in Lock :
  /\ Honest(g.reports) /\ DOMAIN g.reports \subseteq DOMAIN R
  /\ \A q \in Pkgs : Via(g, q) \subseteq Buildable(g) =>
        q \in DOMAIN R /\ R[q] = build_requires_report(g, q)

-----------------------------------------------------------------------------
(***************************************************************************)
(* Reports.                                                                *)
(***************************************************************************)
LEMMA Rounds ==
  ASSUME w \in Worlds, NEW p \in Pkgs
  PROVE  /\ w.asks[p] \in Seq(SUBSET Caps)
         /\ Len(w.asks[p]) \in Nat /\ Len(w.asks[p]) >= 1
         /\ DOMAIN w.asks[p] = 1..Len(w.asks[p])
         /\ \A i \in DOMAIN w.asks[p] : w.asks[p][i] \subseteq Caps
         /\ Asked(w, p) \subseteq Caps
         /\ w.uses[p] \subseteq Pkgs
<1>1. w.asks[p] \in Seq(SUBSET Caps) /\ w.asks[p] # <<>> /\ w.uses[p] \subseteq Pkgs
  BY WorldsAssumption
<1>. QED  BY <1>1 DEF Asked

LEMMA ReportsAre ==
  ASSUME NEW R \in Reports
  PROVE  /\ DOMAIN R \subseteq Pkgs
         /\ \A p \in DOMAIN R : R[p] \in Report
         /\ R = [p \in DOMAIN R |-> R[p]]
  BY DEF Reports

LEMMA NothingHonest == w \in Worlds => Honest(NoReports) /\ DOMAIN NoReports = {}
<1>1. DOMAIN NoReports = {}  BY DEF NoReports
<1>2. NoReports \in [{} -> Report]  BY DEF NoReports
<1>. QED  BY <1>1, <1>2 DEF Honest, Reports

LEMMA InKnown ==
  ASSUME w \in Worlds, NEW g, NEW p
  PROVE  Buildroot(g, p) \subseteq w.known /\ w.known \subseteq Caps
  BY WorldsAssumption DEF Buildroot

LEMMA CapsAreAsked ==
  ASSUME w \in Worlds, NEW p \in Pkgs, NEW r, HonestReport(p, r)
  PROVE  r.caps \subseteq Asked(w, p) /\ w.asks[p][1] \subseteq r.caps
  BY DEF HonestReport, Asked

LEMMA SameReport ==
  ASSUME NEW p, NEW a, NEW b, HonestReport(p, a), HonestReport(p, b),
         a.caps = b.caps, a.unmet = b.unmet
  PROVE  a = b
<1>1. a \in Report /\ b \in Report /\ a.dynamic = b.dynamic  BY DEF HonestReport
<1>. QED  BY <1>1 DEF Report

\* What a probe answers is honest, and nothing is unmet exactly when the
\* buildroot was complete.
LEMMA Answer ==
  ASSUME w \in Worlds, NEW g, NEW p \in Pkgs
  PROVE  /\ HonestReport(p, build_requires_report(g, p))
         /\ ~build_requires_report(g, p).unmet <=> Complete(g, p)
<1>. DEFINE rounds == w.asks[p]
            met(i) == \A j \in 1..i : rounds[j] \subseteq Buildroot(g, p)
            D == {j \in DOMAIN rounds : met(j - 1)}
            r == build_requires_report(g, p)
<1>0. /\ Len(rounds) \in Nat /\ Len(rounds) >= 1 /\ DOMAIN rounds = 1..Len(rounds)
      /\ \A i \in DOMAIN rounds : rounds[i] \subseteq Caps
      /\ Buildroot(g, p) \subseteq w.known
  BY Rounds, InKnown
<1>1. /\ r.caps = UNION {rounds[i] : i \in D}
      /\ r.dynamic = IF met(1) THEN r.caps \ rounds[1] ELSE {}
      /\ r.unmet = ~met(Len(rounds))
      /\ r = [caps |-> r.caps, dynamic |-> r.dynamic, unmet |-> r.unmet]
  BY DEF build_requires_report
<1>2. 1 \in D  BY <1>0
<1>3. ASSUME NEW i \in D, NEW j \in DOMAIN rounds, j < i
      PROVE  j \in D /\ rounds[j] \subseteq w.known
  <2>1. i \in Nat /\ j \in Nat /\ j \in 1..(i - 1) /\ 1..(j - 1) \subseteq 1..(i - 1)
    BY <1>0, <1>3
  <2>. QED  BY <1>0, <1>3, <2>1
<1>4. ASSUME ~met(1) PROVE D = {1}
  <2>1. ASSUME NEW j \in D, j # 1 PROVE FALSE
    <3>1. j \in Nat /\ 1..1 \subseteq 1..(j - 1)  BY <1>0, <2>1
    <3>. QED  BY <1>4, <2>1, <3>1
  <2>. QED  BY <1>2, <2>1
<1>5. r.dynamic = r.caps \ rounds[1]
  <2>1. CASE met(1)  BY <1>1, <2>1
  <2>2. CASE ~met(1)
    <3>1. r.caps = rounds[1]  BY <1>1, <1>4, <2>2
    <3>. QED  BY <1>1, <2>2, <3>1
  <2>. QED  BY <2>1, <2>2
<1>6. met(Len(rounds)) <=> Complete(g, p)
  BY <1>0 DEF Complete, Asked
<1>7. ASSUME met(Len(rounds)) PROVE Full(p, r)
  <2>1. ASSUME NEW i \in DOMAIN rounds PROVE i \in D
    <3>1. i \in Nat /\ 1..(i - 1) \subseteq 1..Len(rounds)  BY <1>0
    <3>. QED  BY <1>7, <3>1
  <2>2. D = DOMAIN rounds  BY <2>1
  <2>3. r.caps = Asked(w, p)  BY <1>1, <2>2 DEF Asked
  <2>. QED  BY <1>0, <1>6, <1>7, <2>3 DEF Full, Complete
<1>8. r \in Report
  <2>1. r.caps \subseteq Caps  BY <1>0, <1>1
  <2>2. r.dynamic \subseteq Caps  BY <1>5, <2>1
  <2>. QED  BY <1>1, <2>1, <2>2 DEF Report
<1>9. ~r.unmet <=> met(Len(rounds))  BY <1>1
<1>. HIDE DEF met, r
<1>10. D \in SUBSET DOMAIN w.asks[p]  OBVIOUS
<1>. HIDE DEF D
<1>11. HonestReport(p, r)
  BY <1>1, <1>2, <1>3, <1>5, <1>7, <1>8, <1>9, <1>10 DEF HonestReport, rounds
<1>. QED  BY <1>6, <1>9, <1>11 DEF r

\* With what an earlier answer asked for installed, a probe answers no less.
LEMMA AnswerGrows ==
  ASSUME w \in Worlds, NEW g, NEW p \in Pkgs, NEW r, HonestReport(p, r),
         r.caps \cap w.known \subseteq Buildroot(g, p)
  PROVE  /\ r.caps \subseteq build_requires_report(g, p).caps
         /\ ~r.unmet => ~build_requires_report(g, p).unmet
<1>0. /\ Len(w.asks[p]) \in Nat /\ DOMAIN w.asks[p] = 1..Len(w.asks[p])
  BY Rounds
<1>1. PICK D \in SUBSET DOMAIN w.asks[p] :
        /\ \A i \in D, j \in DOMAIN w.asks[p] :
             j < i => j \in D /\ w.asks[p][j] \subseteq w.known
        /\ r.caps = UNION {w.asks[p][i] : i \in D}
  BY DEF HonestReport
<1>2. ASSUME NEW i \in D
      PROVE  \A j \in 1..(i - 1) : w.asks[p][j] \subseteq Buildroot(g, p)
  <2>. SUFFICES ASSUME NEW j \in 1..(i - 1) PROVE w.asks[p][j] \subseteq Buildroot(g, p)
    OBVIOUS
  <2>1. j \in DOMAIN w.asks[p] /\ j < i  BY <1>0
  <2>2. j \in D /\ w.asks[p][j] \subseteq w.known  BY <1>1, <2>1
  <2>3. w.asks[p][j] \subseteq r.caps  BY <1>1, <2>2
  <2>. QED  BY <2>2, <2>3
<1>3. \A i \in D : w.asks[p][i] \subseteq build_requires_report(g, p).caps
  BY <1>2 DEF build_requires_report
<1>4. r.caps \subseteq build_requires_report(g, p).caps  BY <1>1, <1>3
<1>5. ASSUME ~r.unmet PROVE ~build_requires_report(g, p).unmet
  <2>1. Full(p, r)  BY <1>5 DEF HonestReport
  <2>2. Complete(g, p)  BY <2>1 DEF Full, Complete
  <2>. QED  BY <2>2, Answer
<1>. QED  BY <1>4, <1>5

-----------------------------------------------------------------------------
(***************************************************************************)
(* What builds, and what a pass can answer.                                *)
(***************************************************************************)
LEMMA BuildableSays ==
  ASSUME NEW g, NEW p \in Buildable(g)
  PROVE  p \in Pkgs /\ Complete(g, p) /\ Via(g, p) \subseteq Buildable(g)
  BY DEF Buildable

LEMMA BuildableHas ==
  ASSUME NEW g, NEW p \in Pkgs, Complete(g, p), Via(g, p) \subseteq Buildable(g)
  PROVE  p \in Buildable(g)
<1>. DEFINE S == Buildable(g) \cup {p}
<1>1. S \in SUBSET Pkgs  BY BuildableSays
<1>2. \A q \in S : Complete(g, q) /\ Via(g, q) \subseteq S  BY BuildableSays
<1>. QED  BY <1>1, <1>2 DEF Buildable

\* No package needs itself built: some member of a set needs no other.
LEMMA Lowest ==
  ASSUME w \in Worlds, NEW S \in SUBSET Pkgs, S # {}
  PROVE  \E p \in S : (w.uses[p] \cup Makers(w, Asked(w, p))) \cap S = {}
  BY WorldsAssumption

LEMMA ViaAsked ==
  ASSUME w \in Worlds, NEW g, Honest(g.reports), NEW p \in Pkgs
  PROVE  /\ Buildroot(g, p) \subseteq Asked(w, p)
         /\ Via(g, p) \subseteq w.uses[p] \cup Makers(w, Asked(w, p))
<1>1. Buildroot(g, p) \subseteq Asked(w, p)
  BY CapsAreAsked DEF Buildroot, Honest
<1>. QED  BY <1>1 DEF Via, Makers

LEMMA ViaPkgs ==
  ASSUME w \in Worlds, NEW g, NEW p \in Pkgs
  PROVE  Via(g, p) \subseteq Pkgs
<1>1. Buildroot(g, p) \subseteq Caps  BY InKnown
<1>2. \A c \in Caps : w.maker[c] \in Pkgs \cup {Seed}  BY WorldsAssumption
<1>. QED  BY <1>1, <1>2, Rounds DEF Via, Makers

\* A probe file without an unmet report has a full one for every package.
LEMMA AllMet ==
  ASSUME w \in Worlds, NEW R, Honest(R), Fresh(R),
         \A p \in DOMAIN R : ~R[p].unmet
  PROVE  DOMAIN R = Pkgs /\ \A p \in Pkgs : Full(p, R[p])
<1>1. PICK g \in Lock :
        /\ Honest(g.reports)
        /\ \A q \in Pkgs : Via(g, q) \subseteq Buildable(g) =>
             q \in DOMAIN R /\ R[q] = build_requires_report(g, q)
  BY DEF Fresh
<1>. DEFINE S == Pkgs \ Buildable(g)
<1>2. ASSUME S # {} PROVE FALSE
  <2>1. PICK p \in S : (w.uses[p] \cup Makers(w, Asked(w, p))) \cap S = {}
    BY <1>2, Lowest
  <2>2. Via(g, p) \subseteq Buildable(g)
    BY <1>1, <2>1, ViaAsked, ViaPkgs
  <2>3. ~build_requires_report(g, p).unmet  BY <1>1, <2>2
  <2>4. Complete(g, p)  BY <2>3, Answer
  <2>. QED  BY <2>2, <2>4, BuildableHas
<1>3. \A p \in Pkgs : p \in DOMAIN R
  BY <1>1, <1>2, ViaPkgs
<1>. QED  BY <1>3, ReportsAre DEF Honest, HonestReport

\* A package with no report waits for one that is unmet or does not build.
LEMMA Ripe ==
  ASSUME w \in Worlds, NEW R, Honest(R), Fresh(R), NEW l, l.reports = R,
         \A p \in Buildable(l) : p \in DOMAIN R => ~R[p].unmet,
         NEW q \in Pkgs, w.uses[q] \subseteq Buildable(l)
  PROVE  q \in DOMAIN R
<1>1. PICK g \in Lock :
        /\ Honest(g.reports) /\ DOMAIN g.reports \subseteq DOMAIN R
        /\ \A p \in Pkgs : Via(g, p) \subseteq Buildable(g) =>
             p \in DOMAIN R /\ R[p] = build_requires_report(g, p)
  BY DEF Fresh
<1>. DEFINE S == Buildable(l) \ Buildable(g)
<1>2. ASSUME S # {} PROVE FALSE
  <2>0. S \in SUBSET Pkgs  BY BuildableSays
  <2>1. PICK p \in S : (w.uses[p] \cup Makers(w, Asked(w, p))) \cap S = {}
    BY <1>2, <2>0, Lowest
  <2>2. p \in Pkgs /\ Complete(l, p) /\ Via(l, p) \subseteq Buildable(l)
    BY BuildableSays
  <2>3. Via(g, p) \subseteq Via(l, p)
    <3>1. Buildroot(g, p) \subseteq Buildroot(l, p)
      BY <1>1, <2>2, ViaAsked DEF Complete
    <3>. QED  BY <3>1 DEF Via, Makers
  <2>4. Via(g, p) \subseteq Buildable(g)
    BY <1>1, <2>1, <2>2, <2>3, ViaAsked
  <2>5. ~build_requires_report(g, p).unmet  BY <1>1, <2>2, <2>4
  <2>6. Complete(g, p)  BY <2>2, <2>5, Answer
  <2>. QED  BY <2>2, <2>4, <2>6, BuildableHas
<1>3. ASSUME q \notin DOMAIN R PROVE FALSE
  <2>1. Buildroot(g, q) = {}  BY <1>1, <1>3 DEF Buildroot
  <2>2. Via(g, q) = w.uses[q]  BY <2>1 DEF Via, Makers
  <2>. QED  BY <1>1, <1>2, <1>3, <2>2
<1>. QED  BY <1>3

-----------------------------------------------------------------------------
(***************************************************************************)
(* A pass: what it answers, laid over what there was.                      *)
(***************************************************************************)
LEMMA AnswersAre ==
  ASSUME w \in Worlds, NEW g
  PROVE  /\ Honest(run_probes(g))
         /\ DOMAIN run_probes(g) = {q \in Pkgs : Via(g, q) \subseteq Buildable(g)}
         /\ \A q \in DOMAIN run_probes(g) : run_probes(g)[q] = build_requires_report(g, q)
<1>. DEFINE S == {q \in Pkgs : Via(g, q) \subseteq Buildable(g)}
<1>1. run_probes(g) = [p \in S |-> build_requires_report(g, p)]  BY DEF run_probes
<1>2. \A p \in S : HonestReport(p, build_requires_report(g, p))  BY Answer
<1>3. \A p \in S : build_requires_report(g, p) \in Report  BY <1>2 DEF HonestReport
<1>4. run_probes(g) \in [S -> Report] /\ S \in SUBSET Pkgs  BY <1>1, <1>3
<1>5. run_probes(g) \in Reports  BY <1>4 DEF Reports
<1>. QED  BY <1>1, <1>2, <1>5 DEF Honest

LEMMA LayeredIs ==
  ASSUME NEW P, NEW R, Honest(P), Honest(R)
  PROVE  /\ Honest(Layered(P, R))
         /\ DOMAIN Layered(P, R) = DOMAIN P \cup DOMAIN R
         /\ \A p \in DOMAIN R : Layered(P, R)[p] = R[p]
         /\ \A p \in DOMAIN P : p \notin DOMAIN R => Layered(P, R)[p] = P[p]
<1>. DEFINE S == DOMAIN P \cup DOMAIN R
            Q == Layered(P, R)
<1>1. Q = [p \in S |-> IF p \in DOMAIN R THEN R[p] ELSE P[p]]  BY DEF Layered
<1>2. DOMAIN Q = S /\ \A p \in S : Q[p] = IF p \in DOMAIN R THEN R[p] ELSE P[p]
  BY <1>1
<1>3. S \in SUBSET Pkgs  BY ReportsAre DEF Honest
<1>4. \A p \in S : HonestReport(p, Q[p])  BY <1>2 DEF Honest
<1>5. \A p \in S : (IF p \in DOMAIN R THEN R[p] ELSE P[p]) \in Report
  BY <1>2, <1>4 DEF HonestReport
<1>6. Q \in [S -> Report]  BY <1>1, <1>5
<1>7. Q \in Reports  BY <1>3, <1>6 DEF Reports
<1>. QED  BY <1>2, <1>4, <1>7 DEF Honest

LEMMA PassGrows ==
  ASSUME w \in Worlds, NEW R, Honest(R), NEW l, l.reports = R
  PROVE  Below(R, Layered(R, run_probes(l)))
<1>. DEFINE Q == Layered(R, run_probes(l))
<1>1. /\ DOMAIN Q = DOMAIN R \cup DOMAIN run_probes(l)
      /\ \A p \in DOMAIN run_probes(l) : Q[p] = build_requires_report(l, p)
      /\ \A p \in DOMAIN R : p \notin DOMAIN run_probes(l) => Q[p] = R[p]
  <2>. DEFINE T == run_probes(l)
  <2>1. Honest(T) /\ \A p \in DOMAIN T : T[p] = build_requires_report(l, p)
    BY AnswersAre
  <2>. HIDE DEF T
  <2>2. /\ DOMAIN Layered(R, T) = DOMAIN R \cup DOMAIN T
        /\ \A p \in DOMAIN T : Layered(R, T)[p] = T[p]
        /\ \A p \in DOMAIN R : p \notin DOMAIN T => Layered(R, T)[p] = R[p]
    BY DEF Layered
  <2>. QED  BY <2>1, <2>2 DEF T
<1>2. ASSUME NEW p \in DOMAIN R, p \in DOMAIN run_probes(l)
      PROVE  R[p].caps \subseteq Q[p].caps /\ (~R[p].unmet => ~Q[p].unmet)
  <2>1. p \in Pkgs /\ HonestReport(p, R[p])  BY ReportsAre DEF Honest
  <2>2. R[p].caps \cap w.known \subseteq Buildroot(l, p)  BY DEF Buildroot
  <2>. QED  BY <1>1, <1>2, <2>1, <2>2, AnswerGrows
<1>. QED  BY <1>1, <1>2 DEF Below

LEMMA PassIsFresh ==
  ASSUME w \in Worlds, NEW P, Honest(P), NEW l \in Lock, Honest(l.reports),
         DOMAIN l.reports \subseteq DOMAIN P
  PROVE  Fresh(Layered(P, run_probes(l)))
<1>. DEFINE Q == Layered(P, run_probes(l))
<1>1. /\ DOMAIN Q = DOMAIN P \cup DOMAIN run_probes(l)
      /\ \A p \in DOMAIN run_probes(l) : Q[p] = build_requires_report(l, p)
      /\ DOMAIN run_probes(l) = {q \in Pkgs : Via(l, q) \subseteq Buildable(l)}
  BY AnswersAre, LayeredIs
<1>. QED  BY <1>1 DEF Fresh

LEMMA BelowThrough ==
  ASSUME NEW P, NEW Q, NEW R, Below(P, Q), Below(Q, R)  PROVE Below(P, R)
  BY DEF Below

LEMMA BelowItself == ASSUME NEW P PROVE Below(P, P)  BY DEF Below

\* Nothing a further pass answers is new when nothing is unmet.
LEMMA NothingNew ==
  ASSUME w \in Worlds, NEW Q, Honest(Q), NEW l, l.reports = Q,
         \A q \in DOMAIN run_probes(l) :
            q \in DOMAIN Q /\ (Q[q].unmet => build_requires_report(l, q) = Q[q])
  PROVE  Layered(Q, run_probes(l)) = Q
<1>. DEFINE R == run_probes(l)
<1>0. Q \in Reports  BY DEF Honest
<1>1. ASSUME NEW q \in DOMAIN R PROVE R[q] = Q[q]
  <2>1. R[q] = build_requires_report(l, q) /\ q \in Pkgs /\ q \in DOMAIN Q
    BY AnswersAre
  <2>2. HonestReport(q, Q[q]) /\ HonestReport(q, R[q])
    BY <2>1, AnswersAre DEF Honest
  <2>3. CASE ~Q[q].unmet
    <3>1. Full(q, Q[q])  BY <2>2, <2>3 DEF HonestReport
    <3>2. Complete(l, q)  BY <2>1, <3>1 DEF Full, Complete, Buildroot
    <3>3. ~R[q].unmet  BY <2>1, <3>2, Answer
    <3>4. Full(q, R[q])  BY <2>2, <3>3 DEF HonestReport
    <3>5. Q[q].unmet \in BOOLEAN /\ R[q].unmet \in BOOLEAN
      BY <2>2 DEF HonestReport, Report
    <3>6. Q[q].unmet = R[q].unmet  BY <2>3, <3>3, <3>5
    <3>7. Q[q].caps = R[q].caps  BY <3>1, <3>4 DEF Full
    <3>. QED  BY <2>2, <3>6, <3>7, SameReport
  <2>4. CASE Q[q].unmet  BY <2>1, <2>4
  <2>. QED  BY <2>3, <2>4
<1>2. DOMAIN Q \cup DOMAIN R = DOMAIN Q
  <2>1. \A q \in DOMAIN R : q \in DOMAIN Q  OBVIOUS
  <2>. QED  BY <2>1
<1>3. Q = [p \in DOMAIN Q |-> Q[p]]  BY <1>0, ReportsAre
<1>4. \A p \in DOMAIN Q : (IF p \in DOMAIN R THEN R[p] ELSE Q[p]) = Q[p]  BY <1>1
<1>5. [p \in DOMAIN Q |-> IF p \in DOMAIN R THEN R[p] ELSE Q[p]] = [p \in DOMAIN Q |-> Q[p]]
  BY <1>4
<1>. HIDE DEF R
<1>6. Layered(Q, R) = Q  BY <1>2, <1>3, <1>5 DEF Layered
<1>. QED  BY <1>6 DEF R

-----------------------------------------------------------------------------
(***************************************************************************)
(* A state that came back.  The state keeps of a report only whether it is *)
(* unmet, and its dynamic capabilities then; both states being equal, the  *)
(* reports in between are the same where there was one (Unmoved), so what  *)
(* builds is the same (BuildsTheSame), and what was answered then is what  *)
(* would be answered now.                                                  *)
(***************************************************************************)
LEMMA SameState ==
  ASSUME NEW k, NEW l, convergence_state(k) = convergence_state(l)
  PROVE  /\ unmet(k) = unmet(l)
         /\ \A p \in unmet(k) : k.reports[p].dynamic = l.reports[p].dynamic
<1>1. [p \in unmet(k) |-> k.reports[p].dynamic] = [p \in unmet(l) |-> l.reports[p].dynamic]
  BY DEF convergence_state
<1>. QED  BY <1>1

LEMMA Unmoved ==
  ASSUME w \in Worlds, NEW R, NEW Q, Honest(R), Honest(Q), Below(R, Q),
         convergence_state(Solved(R)) = convergence_state(Solved(Q))
  PROVE  /\ DOMAIN R \subseteq DOMAIN Q
         /\ \A p \in DOMAIN R : Q[p] = R[p]
         /\ \A p \in DOMAIN Q \ DOMAIN R : ~Q[p].unmet
<1>1. /\ \A p \in Pkgs : (p \in DOMAIN R /\ R[p].unmet) <=> (p \in DOMAIN Q /\ Q[p].unmet)
      /\ \A p \in DOMAIN R : R[p].unmet => R[p].dynamic = Q[p].dynamic
  BY SameState, ReportsAre DEF unmet, Solved, Honest
<1>2. DOMAIN R \subseteq DOMAIN Q /\ DOMAIN Q \subseteq Pkgs
  BY ReportsAre DEF Below, Honest
<1>3. ASSUME NEW p \in DOMAIN R PROVE Q[p] = R[p]
  <2>1. HonestReport(p, R[p]) /\ HonestReport(p, Q[p]) /\ p \in Pkgs
    BY <1>2 DEF Honest
  <2>2. R[p].unmet \in BOOLEAN /\ Q[p].unmet \in BOOLEAN
    BY <2>1 DEF HonestReport, Report
  <2>3. R[p].unmet = Q[p].unmet  BY <1>1, <1>2, <2>1, <2>2
  <2>4. R[p].caps = Q[p].caps
    <3>1. CASE R[p].unmet
      <4>1. R[p].dynamic = Q[p].dynamic  BY <1>1, <3>1
      <4>2. /\ R[p].dynamic = R[p].caps \ w.asks[p][1]
            /\ Q[p].dynamic = Q[p].caps \ w.asks[p][1]
        BY <2>1 DEF HonestReport
      <4>3. w.asks[p][1] \subseteq R[p].caps /\ w.asks[p][1] \subseteq Q[p].caps
        BY <2>1, CapsAreAsked
      <4>. QED  BY <4>1, <4>2, <4>3
    <3>2. CASE ~R[p].unmet
      <4>1. Full(p, R[p]) /\ Full(p, Q[p])  BY <2>1, <2>3, <3>2 DEF HonestReport
      <4>. QED  BY <4>1 DEF Full
    <3>. QED  BY <3>1, <3>2
  <2>. QED  BY <2>1, <2>3, <2>4, SameReport
<1>4. \A p \in DOMAIN Q \ DOMAIN R : ~Q[p].unmet  BY <1>1, <1>2
<1>. QED  BY <1>2, <1>3, <1>4

LEMMA Stuck ==
  ASSUME w \in Worlds, NEW R, NEW Q, Honest(R), Fresh(R), Honest(Q), Below(After(R), Q),
         convergence_state(Solved(R)) = convergence_state(Solved(Q))
  PROVE  Layered(Q, run_probes(Solved(Q))) = Q
<1>. DEFINE then == Solved(R)
            now == Solved(Q)
<1>0. /\ then.reports = R /\ now.reports = Q
      /\ DOMAIN R \subseteq Pkgs /\ DOMAIN Q \subseteq Pkgs
  BY ReportsAre DEF Solved, Honest
<1>1. Below(R, After(R))  BY <1>0, PassGrows DEF After
<1>2. /\ DOMAIN R \subseteq DOMAIN Q
      /\ \A p \in DOMAIN R : Q[p] = R[p]
      /\ \A p \in DOMAIN Q \ DOMAIN R : ~Q[p].unmet
  BY <1>1, BelowThrough, Unmoved
<1>. HIDE DEF then, now
\* What the earlier pass answered has not been answered better since.
<1>3. ASSUME NEW p \in Pkgs, Via(then, p) \subseteq Buildable(then)
      PROVE  /\ p \in DOMAIN Q
             /\ p \in DOMAIN R /\ R[p].unmet =>
                  build_requires_report(then, p) = R[p]
  <2>1. /\ p \in DOMAIN After(R) /\ After(R)[p] = build_requires_report(then, p)
    <3>. DEFINE T == run_probes(then)
    <3>1. Honest(T) /\ p \in DOMAIN T /\ T[p] = build_requires_report(then, p)
      BY <1>3, AnswersAre
    <3>. HIDE DEF T
    <3>2. p \in DOMAIN Layered(R, T) /\ Layered(R, T)[p] = T[p]
      BY <3>1 DEF Layered
    <3>. QED  BY <3>1, <3>2 DEF After, T, then
  <2>2. p \in DOMAIN Q /\ After(R)[p].caps \subseteq Q[p].caps
        /\ (~After(R)[p].unmet => ~Q[p].unmet)
    BY <2>1 DEF Below
  <2>3. ASSUME p \in DOMAIN R, R[p].unmet PROVE build_requires_report(then, p) = R[p]
    <3>1. R[p].caps \subseteq After(R)[p].caps  BY <1>1, <2>3 DEF Below
    <3>2. Q[p] = R[p]  BY <1>2, <2>3
    <3>3. /\ HonestReport(p, R[p])
          /\ HonestReport(p, build_requires_report(then, p))
      BY <2>3, Answer DEF Honest
    <3>4. R[p].unmet \in BOOLEAN /\ build_requires_report(then, p).unmet \in BOOLEAN
      BY <3>3 DEF HonestReport, Report
    <3>. DEFINE a == build_requires_report(then, p)
    <3>. HIDE DEF a
    <3>5. a.caps = R[p].caps
      <4>1. R[p].caps \subseteq a.caps  BY <2>1, <3>1 DEF a
      <4>2. a.caps \subseteq Q[p].caps  BY <2>1, <2>2 DEF a
      <4>. QED  BY <3>2, <4>1, <4>2
    <3>6. a.unmet  BY <2>1, <2>2, <2>3, <3>2 DEF a
    <3>7. a.unmet = R[p].unmet  BY <2>3, <3>4, <3>6 DEF a
    <3>8. a = R[p]  BY <3>3, <3>5, <3>7, SameReport DEF a
    <3>. QED  BY <3>8 DEF a
  <2>. QED  BY <2>2, <2>3
<1>4. \A p \in DOMAIN R : Via(now, p) = Via(then, p) /\ (Complete(now, p) <=> Complete(then, p))
  <2>. SUFFICES ASSUME NEW p \in DOMAIN R
                PROVE  Via(now, p) = Via(then, p) /\ (Complete(now, p) <=> Complete(then, p))
    OBVIOUS
  <2>1. Buildroot(now, p) = Buildroot(then, p)  BY <1>0, <1>2 DEF Buildroot
  <2>. QED  BY <2>1 DEF Via, Complete
\* What is unmet did not build then, or it would have been met since.
<1>5. \A p \in Buildable(then) : p \in DOMAIN R => ~R[p].unmet
  <2>. SUFFICES ASSUME NEW p \in Buildable(then), p \in DOMAIN R, R[p].unmet PROVE FALSE
    OBVIOUS
  <2>1. p \in Pkgs /\ Complete(then, p) /\ Via(then, p) \subseteq Buildable(then)
    BY BuildableSays
  <2>2. ~build_requires_report(then, p).unmet  BY <2>1, Answer
  <2>3. build_requires_report(then, p) = R[p]  BY <1>3, <2>1
  <2>. QED  BY <2>2, <2>3
<1>6. Buildable(now) \subseteq Buildable(then)
  <2>. DEFINE S == Buildable(now) \ Buildable(then)
  <2>. SUFFICES ASSUME S # {} PROVE FALSE  OBVIOUS
  <2>0. S \in SUBSET Pkgs  BY BuildableSays
  <2>1. PICK p \in S : (w.uses[p] \cup Makers(w, Asked(w, p))) \cap S = {}
    BY <2>0, Lowest
  <2>2. p \in Pkgs /\ Complete(now, p) /\ Via(now, p) \subseteq Buildable(now)
    BY BuildableSays
  <2>3. Via(now, p) \subseteq Buildable(then)
    BY <1>0, <2>1, <2>2, ViaAsked
  <2>4. p \in DOMAIN R
    <3>1. w.uses[p] \subseteq Buildable(then)  BY <2>3 DEF Via
    <3>. QED  BY <1>0, <1>5, <2>2, <3>1, Ripe
  <2>. QED  BY <1>4, <2>2, <2>3, <2>4, BuildableHas
<1>7. ASSUME NEW q \in DOMAIN run_probes(now)
      PROVE  q \in DOMAIN Q /\ (Q[q].unmet => build_requires_report(now, q) = Q[q])
  <2>1. q \in Pkgs /\ Via(now, q) \subseteq Buildable(then)
    BY <1>6, AnswersAre
  <2>2. q \in DOMAIN Q
    <3>1. CASE q \in DOMAIN R  BY <1>2, <3>1
    <3>2. CASE q \notin DOMAIN R
      <4>1. w.uses[q] \subseteq Buildable(then)  BY <2>1 DEF Via
      <4>. QED  BY <1>0, <1>5, <2>1, <3>2, <4>1, Ripe
    <3>. QED  BY <3>1, <3>2
  <2>3. ASSUME Q[q].unmet PROVE build_requires_report(now, q) = Q[q]
    <3>1. q \in DOMAIN R /\ R[q] = Q[q]  BY <1>2, <2>2, <2>3
    <3>2. Via(then, q) \subseteq Buildable(then)  BY <1>4, <2>1, <3>1
    <3>3. build_requires_report(then, q) = R[q]  BY <1>3, <2>1, <2>3, <3>1, <3>2
    <3>4. Buildroot(now, q) = Buildroot(then, q)  BY <1>0, <3>1, <2>2 DEF Buildroot
    <3>5. build_requires_report(now, q) = build_requires_report(then, q)
      BY <3>4 DEF build_requires_report
    <3>. QED  BY <3>1, <3>3, <3>5
  <2>. QED  BY <2>2, <2>3
<1>8. Layered(Q, run_probes(now)) = Q  BY <1>0, <1>7, NothingNew
<1>. QED  BY <1>8 DEF now

\* The state of a lock solved with nothing: every report is full by now.
LEMMA StuckFromNothing ==
  ASSUME w \in Worlds, NEW Q, Honest(Q), Fresh(Q),
         convergence_state(Empty) = convergence_state(Solved(Q))
  PROVE  Layered(Q, run_probes(Solved(Q))) = Q
<1>0. Solved(Q).reports = Q /\ Empty.reports = NoReports  BY DEF Solved, Empty
<1>1. unmet(Empty) = {}  BY <1>0, NothingHonest DEF unmet
<1>2. unmet(Solved(Q)) = {}  BY <1>1, SameState
<1>3. \A p \in DOMAIN Q : ~Q[p].unmet  BY <1>0, <1>2 DEF unmet
<1>4. DOMAIN Q = Pkgs  BY <1>3, AllMet
<1>5. \A q \in DOMAIN run_probes(Solved(Q)) : q \in DOMAIN Q /\ ~Q[q].unmet
  BY <1>3, <1>4, AnswersAre
<1>. QED  BY <1>0, <1>5, NothingNew

-----------------------------------------------------------------------------
(***************************************************************************)
(* The invariant of a run.                                                 *)
(***************************************************************************)
RunRecord == [step |-> run.step, tool |-> run.tool, probing |-> run.probing,
              cross |-> run.cross, current |-> run.current, pass |-> run.pass,
              seen |-> run.seen, new |-> run.new]
Typed ==
  /\ w \in Worlds
  /\ lock \in Lock \cup {Torn}
  /\ probe \in Reports \cup {Missing, Torn}
  /\ gen \in Lock
  /\ run = RunRecord
  /\ run.step \in Steps
  /\ run.tool \in {"relock", "rpm_relock"}
  /\ {run.probing, run.cross, run.current} \subseteq BOOLEAN
  /\ run.pass \in {"first", "again", "final"}

\* The files: a probe file that parses has honest answers, those of a whole
\* pass among them, and one under way will lose none the lock was solved with.
Steady ==
  /\ Intact(probe) => Honest(probe) /\ Fresh(probe)
  /\ NothingForgotten
  /\ At("probing") =>
       /\ probe = Torn /\ Honest(run.new) /\ Fresh(run.new)
       /\ Intact(lock) /\ lock.probe => DOMAIN lock.reports \subseteq DOMAIN run.new

\* From a solve to the next pass the lock is the one of the probe file, if
\* the run reads it, and the targets are those of the lock.
Solution == IF run.current THEN Solved(probe) ELSE Empty
InStep ==
  /\ ~At("idle") => outcome = "none"
  /\ run.current /\ run.step \in {"solving", "generate", "decide", "probe"}
       => Intact(probe)
  /\ At("solving") => run.new = Solution
  /\ run.step \in {"generate", "decide", "probe"} => lock = Solution
  /\ run.step \in {"decide", "probe"} => gen = lock

\* The last solve is of a probe file that had converged.
AtLast ==
  /\ run.step \in {"decide", "probe", "probing"} => run.pass # "final" /\ run.probing
  /\ run.pass = "final" =>
       /\ run.probing /\ run.current /\ Intact(probe)
       /\ converged(convergence_state(Solved(probe)))

\* A state seen is of a lock whose pass the reports Q include.
Past(s, Q) ==
  \/ s = convergence_state(Empty)
  \/ \E R \in Reports : /\ Honest(R) /\ Fresh(R)
                        /\ s = convergence_state(Solved(R))
                        /\ Below(After(R), Q)
Remembers ==
  /\ At("idle") => run.seen = {}
  /\ \A s \in run.seen :
       IF At("probing") THEN Past(s, run.new)
       ELSE \/ run.current /\ Intact(probe) /\ Past(s, probe)
            \/ At("probe") /\ s = convergence_state(lock)

RelockInv == Typed /\ Steady /\ InStep /\ AtLast /\ Remembers /\ SaysWhatIsSo

\* The world stays, and so does what depends on nothing else.
LEMMA WorldStays ==
  ASSUME w' = w
  PROVE  /\ \A l, p : Buildroot(l, p)' = Buildroot(l, p)
         /\ \A l, p : Complete(l, p)' <=> Complete(l, p)
         /\ \A l : problems(l)' = problems(l)
         /\ \A l : convergence_state(l)' = convergence_state(l)
         /\ \A l : run_probes(l)' = run_probes(l)
         /\ \A R : Honest(R)' <=> Honest(R)
         /\ \A R : Fresh(R)' <=> Fresh(R)
         /\ \A s, Q : Past(s, Q)' <=> Past(s, Q)
<1>1. \A l, p : Buildroot(l, p)' = Buildroot(l, p)  BY DEF Buildroot
<1>2. \A l, p : Complete(l, p)' <=> Complete(l, p)  BY <1>1 DEF Complete
<1>3. \A l, p : Via(l, p)' = Via(l, p)  BY <1>1 DEF Via
<1>4. \A l : Buildable(l)' = Buildable(l)  BY <1>2, <1>3 DEF Buildable
<1>5. \A l, p : build_requires_report(l, p)' = build_requires_report(l, p)
  <2>. SUFFICES ASSUME NEW l, NEW p
                PROVE  build_requires_report(l, p)' = build_requires_report(l, p)
    OBVIOUS
  <2>1. Buildroot(l, p)' = Buildroot(l, p)  BY <1>1
  <2>2. \A i : (\A j \in 1..i : w.asks[p][j] \subseteq Buildroot(l, p))'
                <=> \A j \in 1..i : w.asks[p][j] \subseteq Buildroot(l, p)
    BY <2>1
  <2>3. ({j \in DOMAIN w.asks[p] : \A k \in 1..(j - 1) : w.asks[p][k] \subseteq Buildroot(l, p)})'
        = {j \in DOMAIN w.asks[p] : \A k \in 1..(j - 1) : w.asks[p][k] \subseteq Buildroot(l, p)}
    BY <2>2
  <2>. QED  BY <2>2, <2>3 DEF build_requires_report
<1>6. \A l : run_probes(l)' = run_probes(l)  BY <1>3, <1>4, <1>5 DEF run_probes
<1>7. \A l : problems(l)' = problems(l)  BY DEF problems
<1>8. \A l : convergence_state(l)' = convergence_state(l)
  BY <1>7 DEF convergence_state, unprobed, unmet
<1>9. \A R : Honest(R)' <=> Honest(R)
  BY DEF Honest, HonestReport, Full
<1>10. \A R : Fresh(R)' <=> Fresh(R)
  BY <1>3, <1>4, <1>5, <1>9 DEF Fresh
<1>11. \A R : After(R)' = After(R)  BY <1>6 DEF After
<1>12. \A s, Q : Past(s, Q)' <=> Past(s, Q)
  BY <1>8, <1>9, <1>10, <1>11 DEF Past
<1>. QED  BY <1>1, <1>2, <1>6, <1>7, <1>8, <1>9, <1>10, <1>12

-----------------------------------------------------------------------------
(***************************************************************************)
(* The steps.                                                              *)
(***************************************************************************)
LEMMA RunIs ==
  ASSUME Typed
  PROVE  DOMAIN run = {"step", "tool", "probing", "cross", "current", "pass", "seen", "new"}
<1>. HIDE DEF Typed
<1>1. run = RunRecord  BY DEF Typed
<1>. QED  BY <1>1 DEF RunRecord

LEMMA IntactIs ==
  ASSUME Typed
  PROVE  /\ Intact(probe) <=> probe \in Reports
         /\ Intact(lock) <=> lock \in Lock
         /\ previous_packages(probe) = IF Intact(probe) THEN probe ELSE NoReports
  BY FilesAssumption DEF Typed, Intact, previous_packages

LEMMA SolutionIs ==
  ASSUME Typed, run.current => Intact(probe)
  PROVE  Solution \in Lock
<1>1. NoReports \in Reports  BY NothingHonest DEF Honest, Typed
<1>. QED  BY <1>1, IntactIs DEF Solution, Solved, Empty, Lock

\* A run that ends leaves the files as they are.
LEMMA Ending ==
  ASSUME RelockInv, NEW how, End(how), UNCHANGED <<w, lock, probe, gen>>, SaysWhatIsSo'
  PROVE  RelockInv'
<1>1. /\ run'.step = "idle" /\ run'.tool = run.tool /\ run'.probing = run.probing
      /\ run'.cross = run.cross /\ run'.current = FALSE /\ run'.pass = "first"
      /\ run'.seen = {} /\ run'.new = Missing /\ run' = RunRecord'
  BY DEF End, Ended, RunRecord
<1>2. Typed'  BY <1>1 DEF RelockInv, Typed, Steps
<1>3. Steady'
  <2>1. Intact(probe') => Honest(probe') /\ Fresh(probe')  BY DEF RelockInv, Steady
  <2>2. (Intact(probe) => Honest(probe) /\ Fresh(probe))'  BY <2>1, WorldStays DEF Intact
  <2>3. NothingForgotten'  BY DEF RelockInv, Steady, NothingForgotten, Intact
  <2>. QED  BY <1>1, <2>2, <2>3 DEF Steady, At
<1>4. InStep'  BY <1>1 DEF InStep, At
<1>5. AtLast'  BY <1>1 DEF AtLast
<1>6. Remembers'  BY <1>1 DEF Remembers
<1>. QED  BY <1>2, <1>3, <1>4, <1>5, <1>6 DEF RelockInv

\* A run that goes on says nothing yet.
LEMMA Silent == ASSUME outcome' = "none" PROVE SaysWhatIsSo'
  BY DEF SaysWhatIsSo, ConvergedIsComplete, GivesUpOnlyWhenStuck, FinalSolveHolds

LEMMA InvInit == ASSUME Init PROVE RelockInv
<1>1. w \in Worlds /\ probe = Missing /\ gen = lock /\ outcome = "none"  BY DEF Init
<1>2. Missing \notin Reports  BY FilesAssumption
<1>3. NoReports \in Reports  BY <1>1, NothingHonest DEF Honest
<1>4. lock \in Lock
  <2>1. run_probes([probe |-> FALSE, reports |-> NoReports]) \in Reports
    BY <1>1, AnswersAre DEF Honest
  <2>2. lock \in {[probe |-> FALSE, reports |-> NoReports],
                 [probe |-> TRUE,
                  reports |-> run_probes([probe |-> FALSE, reports |-> NoReports])]}
    BY DEF Init
  <2>3. \A b \in BOOLEAN, R \in Reports : [probe |-> b, reports |-> R] \in Lock
    BY DEF Lock
  <2>4. [probe |-> FALSE, reports |-> NoReports] \in Lock  BY <1>3, <2>3
  <2>5. [probe |-> TRUE,
         reports |-> run_probes([probe |-> FALSE, reports |-> NoReports])] \in Lock
    BY <2>1, <2>3
  <2>. QED  BY <2>2, <2>4, <2>5
<1>5. /\ run.step = "idle" /\ run.tool = "relock" /\ run.probing = FALSE
      /\ run.cross = FALSE /\ run.current = FALSE /\ run.pass = "first"
      /\ run.seen = {} /\ run.new = Missing /\ run = RunRecord
  BY DEF Init, Ended, RunRecord
<1>6. Typed  BY <1>1, <1>4, <1>5 DEF Typed, Steps
<1>7. Steady  BY <1>1, <1>5 DEF Steady, NothingForgotten, Intact, At
<1>8. InStep /\ AtLast /\ Remembers  BY <1>1, <1>5 DEF InStep, AtLast, Remembers, At
<1>9. SaysWhatIsSo
  BY <1>1 DEF SaysWhatIsSo, ConvergedIsComplete, GivesUpOnlyWhenStuck, FinalSolveHolds
<1>. QED  BY <1>6, <1>7, <1>8, <1>9 DEF RelockInv

LEMMA StartKeeps == ASSUME RelockInv, NEW kept \in Kept, Start(kept) PROVE RelockInv'
<1>0. UNCHANGED <<w, lock, probe, gen>>  BY DEF Start
<1>1. /\ run'.step \in {"idle", "solve"} /\ run'.tool = kept.tool /\ run'.probing = kept.probing
      /\ run'.cross = kept.cross /\ run'.current \in BOOLEAN /\ run'.pass = "first"
      /\ run'.seen = {} /\ run'.new = Missing /\ run' = RunRecord'
      /\ outcome' \in {"lock_torn", "probe_missing", "none"}
      /\ run'.step # "idle" => outcome' = "none"
  <2>. DEFINE named == ~kept.cross /\ Intact(lock) /\ lock.probe
              refused == IF ~kept.cross /\ ~Intact(lock) THEN "lock_torn"
                         ELSE IF named /\ probe = Missing THEN "probe_missing"
                         ELSE "none"
  <2>1. /\ run' = IF refused # "none" THEN Ended(kept)
                  ELSE [Ended(kept) EXCEPT !.step = "solve", !.current = named]
        /\ outcome' = refused
    BY DEF Start
  <2>2. refused \in {"lock_torn", "probe_missing", "none"}  OBVIOUS
  <2>3. named \in BOOLEAN
    <3>1. Intact(lock) => lock.probe \in BOOLEAN
      BY IntactIs DEF RelockInv, Lock
    <3>. QED  BY <3>1 DEF Intact
  <2>. HIDE DEF named, refused
  <2>4. CASE refused # "none"  BY <2>1, <2>2, <2>4 DEF Ended, RunRecord
  <2>5. CASE refused = "none"  BY <2>1, <2>3, <2>5 DEF Ended, RunRecord
  <2>. QED  BY <2>4, <2>5
<1>2. Typed'  BY <1>0, <1>1 DEF RelockInv, Typed, Steps, Kept
<1>3. Steady'
  <2>1. (Intact(probe) => Honest(probe) /\ Fresh(probe))'
    BY <1>0, WorldStays DEF RelockInv, Steady, Intact
  <2>2. NothingForgotten'  BY <1>0 DEF RelockInv, Steady, NothingForgotten, Intact
  <2>. QED  BY <1>1, <2>1, <2>2 DEF Steady, At
<1>4. InStep' /\ AtLast' /\ Remembers'  BY <1>1 DEF InStep, AtLast, Remembers, At
<1>5. SaysWhatIsSo'
  BY <1>1 DEF SaysWhatIsSo, ConvergedIsComplete, GivesUpOnlyWhenStuck, FinalSolveHolds
<1>. QED  BY <1>2, <1>3, <1>4, <1>5 DEF RelockInv

LEMMA SolveKeeps == ASSUME RelockInv, Solve PROVE RelockInv'
<1>. DEFINE solved == [probe |-> run.current,
                       reports |-> IF run.current THEN probe ELSE NoReports]
<1>0. /\ UNCHANGED <<w, probe, gen>> /\ run.step = "solve" /\ Typed
      /\ run.current \in BOOLEAN
  BY DEF Solve, At, RelockInv, Typed
<1>1. solved = Solution  BY <1>0 DEF Solution, Solved, Empty
<1>2. CASE run.current /\ ~Intact(probe)
  <2>1. End("probe_torn") /\ UNCHANGED lock  BY <1>2 DEF Solve
  <2>2. SaysWhatIsSo'
    BY <2>1 DEF End, SaysWhatIsSo, ConvergedIsComplete, GivesUpOnlyWhenStuck, FinalSolveHolds
  <2>. QED  BY <1>0, <2>1, <2>2, Ending
<1>3. CASE ~(run.current /\ ~Intact(probe)) /\ strict /\ problems(solved) # {}
  <2>1. End("unresolved") /\ UNCHANGED lock  BY <1>3 DEF Solve
  <2>2. run'.probing = run.probing /\ outcome' = "unresolved"
    BY <2>1 DEF End, Ended
  <2>3. ASSUME run.pass = "final" PROVE FALSE
    <3>1. run.current /\ converged(convergence_state(Solved(probe)))
      BY <2>3 DEF RelockInv, AtLast
    <3>2. problems(Solved(probe)) = {}  BY <3>1 DEF converged, convergence_state
    <3>. QED  BY <1>1, <1>3, <3>1, <3>2 DEF Solution
  <2>4. ~run.probing  BY <1>3, <2>3 DEF strict
  <2>5. SaysWhatIsSo'
    BY <2>2, <2>4 DEF SaysWhatIsSo, ConvergedIsComplete, GivesUpOnlyWhenStuck, FinalSolveHolds
  <2>. QED  BY <1>0, <2>1, <2>5, Ending
<1>4. CASE ~(run.current /\ ~Intact(probe)) /\ ~(strict /\ problems(solved) # {})
  <2>1. /\ run' = [run EXCEPT !.step = "solving", !.new = solved]
        /\ lock' = Torn /\ UNCHANGED outcome
    BY <1>4 DEF Solve
  <2>. HIDE DEF solved
  <2>2. /\ run'.step = "solving" /\ run'.tool = run.tool /\ run'.probing = run.probing
        /\ run'.cross = run.cross /\ run'.current = run.current /\ run'.pass = run.pass
        /\ run'.seen = run.seen /\ run'.new = Solution /\ run' = RunRecord'
    BY <1>0, <1>1, <2>1, RunIs DEF RunRecord, Typed
  <2>3. outcome' = "none"  BY <1>0, <2>1 DEF RelockInv, InStep, At
  <2>4. Typed'  BY <1>0, <2>1, <2>2 DEF RelockInv, Typed, Steps
  <2>5. Steady'
    <3>1. (Intact(probe) => Honest(probe) /\ Fresh(probe))'
      BY <1>0, WorldStays DEF RelockInv, Steady, Intact
    <3>2. NothingForgotten'  BY <2>1 DEF NothingForgotten, Intact
    <3>. QED  BY <2>2, <3>1, <3>2 DEF Steady, At
  <2>6. InStep'
    <3>1. Solution' = Solution  BY <1>0, <2>2 DEF Solution
    <3>. QED  BY <1>0, <1>4, <2>2, <2>3, <3>1 DEF InStep, At, Intact
  <2>7. AtLast'
    <3>1. convergence_state(Solved(probe))' = convergence_state(Solved(probe))
      BY <1>0, WorldStays DEF Solved
    <3>. QED  BY <1>0, <2>2, <3>1 DEF RelockInv, AtLast, Intact, converged
  <2>8. Remembers'
    <3>1. \A s \in run.seen : run.current /\ Intact(probe) /\ Past(s, probe)
      BY <1>0 DEF RelockInv, Remembers, At
    <3>2. \A s \in run'.seen : run'.current /\ Intact(probe)' /\ Past(s, probe)'
      BY <1>0, <2>2, <3>1, WorldStays DEF Intact
    <3>. QED  BY <2>2, <3>2 DEF Remembers, At
  <2>. QED  BY <2>3, <2>4, <2>5, <2>6, <2>7, <2>8, Silent DEF RelockInv
<1>. QED  BY <1>2, <1>3, <1>4

LEMMA DumpKeeps == ASSUME RelockInv, dump_lockfile PROVE RelockInv'
<1>0. /\ UNCHANGED <<w, probe, gen, outcome>> /\ run.step = "solving" /\ Typed
      /\ lock' = run.new /\ run.new = Solution
      /\ run.current => Intact(probe)
  BY DEF dump_lockfile, At, RelockInv, InStep
<1>1. /\ run'.step = "generate" /\ run'.tool = run.tool /\ run'.probing = run.probing
      /\ run'.cross = run.cross /\ run'.current = run.current /\ run'.pass = run.pass
      /\ run'.seen = run.seen /\ run'.new = run.new /\ run' = RunRecord'
  BY <1>0, RunIs DEF dump_lockfile, GoTo, RunRecord, Typed
<1>2. outcome' = "none"  BY <1>0 DEF RelockInv, InStep, At
<1>3. Typed'
  <2>1. Solution \in Lock  BY <1>0, SolutionIs
  <2>. QED  BY <1>0, <1>1, <2>1 DEF Typed, Steps
<1>4. Steady'
  <2>1. (Intact(probe) => Honest(probe) /\ Fresh(probe))'
    BY <1>0, WorldStays DEF RelockInv, Steady, Intact
  <2>2. NothingForgotten'
    BY <1>0 DEF NothingForgotten, Solution, Solved, Empty
  <2>. QED  BY <1>1, <2>1, <2>2 DEF Steady, At
<1>5. InStep'
  <2>1. Solution' = Solution  BY <1>0, <1>1 DEF Solution
  <2>. QED  BY <1>0, <1>1, <1>2, <2>1 DEF InStep, At, Intact
<1>6. AtLast'
  <2>1. convergence_state(Solved(probe))' = convergence_state(Solved(probe))
    BY <1>0, WorldStays DEF Solved
  <2>. QED  BY <1>0, <1>1, <2>1 DEF RelockInv, AtLast, Intact, converged
<1>7. Remembers'
  <2>1. \A s \in run.seen : run.current /\ Intact(probe) /\ Past(s, probe)
    BY <1>0 DEF RelockInv, Remembers, At
  <2>2. \A s \in run'.seen : run'.current /\ Intact(probe)' /\ Past(s, probe)'
    BY <1>0, <1>1, <2>1, WorldStays DEF Intact
  <2>. QED  BY <1>1, <2>2 DEF Remembers, At
<1>. QED  BY <1>2, <1>3, <1>4, <1>5, <1>6, <1>7, Silent DEF RelockInv

\* Read off a lock of the probe file, "converged" is complete.
LEMMA ConvergedComplete ==
  ASSUME w \in Worlds, NEW R, Honest(R), Fresh(R), NEW l, l.reports = R,
         converged(convergence_state(l))
  PROVE  problems(l) = {} /\ \A p \in Pkgs : Complete(l, p)
<1>1. problems(l) = {} /\ unmet(l) = {}
  <2>1. DOMAIN convergence_state(l).unmet = unmet(l)  BY DEF convergence_state
  <2>. QED  BY <2>1 DEF converged, convergence_state
<1>2. \A p \in DOMAIN R : ~R[p].unmet  BY <1>1 DEF unmet
<1>3. DOMAIN R = Pkgs /\ \A p \in Pkgs : Full(p, R[p])  BY <1>2, AllMet
<1>. QED  BY <1>1, <1>3 DEF Complete, Full, Buildroot

LEMMA GenerateKeeps == ASSUME RelockInv, Generate PROVE RelockInv'
<1>0. /\ UNCHANGED <<w, lock, probe>> /\ gen' = lock /\ run.step = "generate" /\ Typed
      /\ lock = Solution /\ outcome = "none"
      /\ run.current => Intact(probe)
  BY DEF Generate, At, RelockInv, InStep
<1>a. lock \in Lock  BY <1>0, SolutionIs
\* The targets are those of the lock now; nothing else has moved.
<1>b. /\ (Intact(probe) => Honest(probe) /\ Fresh(probe))'
      /\ NothingForgotten'
      /\ convergence_state(Solved(probe))' = convergence_state(Solved(probe))
      /\ \A s \in run.seen : run.current /\ Intact(probe)' /\ Past(s, probe)'
  <2>1. (Intact(probe) => Honest(probe) /\ Fresh(probe))'
    BY <1>0, WorldStays DEF RelockInv, Steady, Intact
  <2>2. NothingForgotten'  BY <1>0 DEF RelockInv, Steady, NothingForgotten, Intact
  <2>3. convergence_state(Solved(probe))' = convergence_state(Solved(probe))
    BY <1>0, WorldStays DEF Solved
  <2>4. \A s \in run.seen : run.current /\ Intact(probe) /\ Past(s, probe)
    BY <1>0 DEF RelockInv, Remembers, At
  <2>5. \A s \in run.seen : run.current /\ Intact(probe)' /\ Past(s, probe)'
    BY <1>0, <2>4, WorldStays DEF Intact
  <2>. QED  BY <2>1, <2>2, <2>3, <2>5
<1>1. ASSUME NEW next \in {"probe", "decide"}, GoTo(next), UNCHANGED outcome,
             run.pass # "final", run.probing
      PROVE  RelockInv'
  <2>1. /\ run'.step = next /\ run'.tool = run.tool /\ run'.probing = run.probing
        /\ run'.cross = run.cross /\ run'.current = run.current /\ run'.pass = run.pass
        /\ run'.seen = run.seen /\ run'.new = run.new /\ run' = RunRecord'
    BY <1>0, <1>1, RunIs DEF GoTo, RunRecord, Typed
  <2>2. Typed'  BY <1>0, <1>a, <2>1 DEF Typed, Steps
  <2>3. Steady'  BY <1>b, <2>1 DEF Steady, At
  <2>4. InStep'
    <3>1. Solution' = Solution  BY <1>0, <2>1 DEF Solution
    <3>. QED  BY <1>0, <1>1, <2>1, <3>1 DEF InStep, At, Intact
  <2>5. AtLast'  BY <1>1, <2>1 DEF AtLast
  <2>6. Remembers'  BY <1>b, <2>1 DEF Remembers, At
  <2>7. SaysWhatIsSo'  BY <1>0, <1>1, Silent
  <2>. QED  BY <2>2, <2>3, <2>4, <2>5, <2>6, <2>7 DEF RelockInv
<1>2. ASSUME End(IF run.pass # "final" THEN "refreshed"
                 ELSE IF converged(convergence_state(lock)) THEN "converged"
                 ELSE "incomplete")
      PROVE  RelockInv'
  <2>1. /\ run'.step = "idle" /\ run'.tool = run.tool /\ run'.probing = run.probing
        /\ run'.cross = run.cross /\ run'.current = FALSE /\ run'.pass = "first"
        /\ run'.seen = {} /\ run'.new = Missing /\ run' = RunRecord'
    BY <1>2 DEF End, Ended, RunRecord
  <2>2. Typed'  BY <1>0, <1>a, <2>1 DEF Typed, Steps
  <2>3. Steady'  BY <1>b, <2>1 DEF Steady, At
  <2>4. InStep' /\ AtLast' /\ Remembers'  BY <2>1 DEF InStep, AtLast, Remembers, At
  <2>5. CASE run.pass # "final"
    <3>1. outcome' = "refreshed"  BY <1>2, <2>5 DEF End
    <3>2. SaysWhatIsSo'
      BY <3>1 DEF SaysWhatIsSo, ConvergedIsComplete, GivesUpOnlyWhenStuck, FinalSolveHolds
    <3>. QED  BY <2>2, <2>3, <2>4, <3>2 DEF RelockInv
  <2>6. CASE run.pass = "final"
    <3>1. /\ run.current /\ Intact(probe)
          /\ converged(convergence_state(Solved(probe)))
      BY <2>6 DEF RelockInv, AtLast
    <3>2. lock = Solved(probe)  BY <1>0, <3>1 DEF Solution
    <3>3. outcome' = "converged"  BY <1>2, <2>6, <3>1, <3>2 DEF End
    <3>4. Honest(probe) /\ Fresh(probe) /\ w \in Worlds
      BY <1>0, <3>1 DEF RelockInv, Steady, Typed
    <3>5. lock.probe /\ lock.reports = probe  BY <3>2 DEF Solved
    <3>6. problems(lock) = {} /\ \A p \in Pkgs : Complete(lock, p)
      BY <3>1, <3>2, <3>4, <3>5, ConvergedComplete
    <3>7. problems(lock)' = {} /\ \A p \in Pkgs : Complete(lock, p)'
      BY <1>0, <3>6, WorldStays
    <3>8. ConvergedIsComplete'  BY <1>0, <3>5, <3>7 DEF ConvergedIsComplete
    <3>9. SaysWhatIsSo'
      BY <3>3, <3>8 DEF SaysWhatIsSo, GivesUpOnlyWhenStuck, FinalSolveHolds
    <3>. QED  BY <2>2, <2>3, <2>4, <3>9 DEF RelockInv
  <2>. QED  BY <2>5, <2>6
<1>3. CASE run.probing /\ run.tool = "relock" /\ run.pass = "first"
  <2>1. GoTo("probe") /\ UNCHANGED outcome  BY <1>3 DEF Generate
  <2>. QED  BY <1>1, <1>3, <2>1
<1>4. CASE run.probing /\ run.tool = "rpm_relock" /\ run.pass # "final"
  <2>1. GoTo("decide") /\ UNCHANGED outcome  BY <1>4 DEF Generate
  <2>. QED  BY <1>1, <1>4, <2>1
<1>5. CASE /\ ~(run.probing /\ run.tool = "relock" /\ run.pass = "first")
           /\ ~(run.probing /\ run.tool = "rpm_relock" /\ run.pass # "final")
  <2>1. End(IF run.pass # "final" THEN "refreshed"
            ELSE IF converged(convergence_state(lock)) THEN "converged"
            ELSE "incomplete")
    BY <1>5 DEF Generate
  <2>. QED  BY <1>2, <2>1
<1>. QED  BY <1>3, <1>4, <1>5

LEMMA DecideKeeps == ASSUME RelockInv, Decide PROVE RelockInv'
<1>. DEFINE state == convergence_state(lock)
<1>0. /\ UNCHANGED <<w, lock, probe, gen>> /\ run.step = "decide" /\ Typed
      /\ lock = Solution /\ gen = lock /\ outcome = "none" /\ run.pass # "final"
      /\ run.current => Intact(probe)
      /\ run.current \in BOOLEAN /\ run.probing
  BY DEF Decide, At, RelockInv, InStep, AtLast, Typed
<1>1. /\ (Intact(probe) => Honest(probe) /\ Fresh(probe))'
      /\ NothingForgotten'
      /\ convergence_state(Solved(probe))' = convergence_state(Solved(probe))
      /\ convergence_state(lock)' = convergence_state(lock)
      /\ \A s \in run.seen : run.current /\ Intact(probe)' /\ Past(s, probe)'
  <2>1. (Intact(probe) => Honest(probe) /\ Fresh(probe))'
    BY <1>0, WorldStays DEF RelockInv, Steady, Intact
  <2>2. NothingForgotten'  BY <1>0 DEF RelockInv, Steady, NothingForgotten, Intact
  <2>3. convergence_state(Solved(probe))' = convergence_state(Solved(probe))
    BY <1>0, WorldStays DEF Solved
  <2>4. convergence_state(lock)' = convergence_state(lock)  BY <1>0, WorldStays
  <2>5. \A s \in run.seen : run.current /\ Intact(probe) /\ Past(s, probe)
    BY <1>0 DEF RelockInv, Remembers, At
  <2>6. \A s \in run.seen : run.current /\ Intact(probe)' /\ Past(s, probe)'
    BY <1>0, <2>5, WorldStays DEF Intact
  <2>. QED  BY <2>1, <2>2, <2>3, <2>4, <2>6
<1>2. CASE ~probe_required(state)
  <2>1. run' = [run EXCEPT !.step = "solve", !.pass = "final"] /\ UNCHANGED outcome
    BY <1>2 DEF Decide
  <2>2. /\ run'.step = "solve" /\ run'.tool = run.tool /\ run'.probing = run.probing
        /\ run'.cross = run.cross /\ run'.current = run.current /\ run'.pass = "final"
        /\ run'.seen = run.seen /\ run'.new = run.new /\ run' = RunRecord'
    BY <1>0, <2>1, RunIs DEF RunRecord, Typed
  <2>3. Typed'  BY <1>0, <2>2 DEF Typed, Steps
  <2>4. Steady'  BY <1>1, <2>2 DEF Steady, At
  <2>5. InStep'  BY <1>0, <2>1, <2>2 DEF InStep, At
  <2>6. AtLast'
    <3>1. run.current /\ converged(state)  BY <1>0, <1>2 DEF probe_required
    <3>2. lock = Solved(probe)  BY <1>0, <3>1 DEF Solution
    <3>. QED  BY <1>0, <1>1, <2>2, <3>1, <3>2 DEF AtLast, Intact, converged
  <2>7. Remembers'  BY <1>1, <2>2 DEF Remembers, At
  <2>8. SaysWhatIsSo'  BY <1>0, <2>1, Silent
  <2>. QED  BY <2>3, <2>4, <2>5, <2>6, <2>7, <2>8 DEF RelockInv
\* The state came back: a pass would answer nothing new.
<1>3. CASE probe_required(state) /\ state \in run.seen
  <2>1. End("gave_up")  BY <1>3 DEF Decide
  <2>2. run.current /\ Intact(probe) /\ Past(state, probe)
    BY <1>0, <1>3 DEF RelockInv, Remembers, At
  <2>3. gen = Solved(probe) /\ state = convergence_state(Solved(probe))
    BY <1>0, <2>2 DEF Solution
  <2>4. w \in Worlds /\ Honest(probe) /\ Fresh(probe)
    BY <1>0, <2>2 DEF RelockInv, Steady, Typed
  <2>5. Layered(probe, run_probes(Solved(probe))) = probe
    <3>1. CASE state = convergence_state(Empty)
      BY <2>3, <2>4, <3>1, StuckFromNothing
    <3>2. CASE \E R \in Reports : /\ Honest(R) /\ Fresh(R)
                                  /\ state = convergence_state(Solved(R))
                                  /\ Below(After(R), probe)
      <4>1. PICK R \in Reports : /\ Honest(R) /\ Fresh(R)
                                 /\ state = convergence_state(Solved(R))
                                 /\ Below(After(R), probe)
        BY <3>2
      <4>. QED  BY <2>3, <2>4, <4>1, Stuck
    <3>. QED  BY <2>2, <3>1, <3>2 DEF Past
  <2>6. Layered(previous_packages(probe), run_probes(gen)) = probe
    BY <1>0, <2>2, <2>3, <2>5, IntactIs
  <2>7. (Layered(previous_packages(probe), run_probes(gen)) = probe)'
    <3>1. run_probes(gen)' = run_probes(gen)  BY <1>0, WorldStays
    <3>. QED  BY <1>0, <2>6, <3>1 DEF Layered, previous_packages
  <2>8. outcome' = "gave_up"  BY <2>1 DEF End
  <2>9. SaysWhatIsSo'
    BY <2>7, <2>8 DEF SaysWhatIsSo, ConvergedIsComplete, GivesUpOnlyWhenStuck, FinalSolveHolds
  <2>. QED  BY <1>0, <2>1, <2>9, Ending
<1>4. CASE probe_required(state) /\ state \notin run.seen
  <2>1. run' = [run EXCEPT !.step = "probe", !.seen = @ \cup {state}] /\ UNCHANGED outcome
    BY <1>4 DEF Decide
  <2>. HIDE DEF state
  <2>2. /\ run'.step = "probe" /\ run'.tool = run.tool /\ run'.probing = run.probing
        /\ run'.cross = run.cross /\ run'.current = run.current /\ run'.pass = run.pass
        /\ run'.seen = run.seen \cup {state} /\ run'.new = run.new /\ run' = RunRecord'
    BY <1>0, <2>1, RunIs DEF RunRecord, Typed
  <2>3. Typed'  BY <1>0, <2>2 DEF Typed, Steps
  <2>4. Steady'  BY <1>1, <2>2 DEF Steady, At
  <2>5. InStep'
    <3>1. Solution' = Solution  BY <1>0, <2>2 DEF Solution
    <3>. QED  BY <1>0, <2>1, <2>2, <3>1 DEF InStep, At, Intact
  <2>6. AtLast'  BY <1>0, <2>2 DEF AtLast
  <2>7. Remembers'
    <3>1. \A s \in run.seen : run'.current /\ Intact(probe)' /\ Past(s, probe)'
      BY <1>1, <2>2
    <3>2. state = convergence_state(lock)'  BY <1>1 DEF state
    <3>. QED  BY <2>2, <3>1, <3>2 DEF Remembers, At
  <2>8. SaysWhatIsSo'  BY <1>0, <2>1, Silent
  <2>. QED  BY <2>3, <2>4, <2>5, <2>6, <2>7, <2>8 DEF RelockInv
<1>. QED  BY <1>2, <1>3, <1>4

LEMMA WriteKeeps == ASSUME RelockInv, write_probe_file PROVE RelockInv'
<1>. DEFINE old == previous_packages(probe)
            fresh == run_probes(gen)
            new == Layered(old, fresh)
<1>0. /\ UNCHANGED <<w, lock, gen>> /\ run.step = "probe" /\ Typed /\ w \in Worlds
      /\ lock = Solution /\ gen = lock /\ outcome = "none" /\ run.pass # "final"
      /\ run.current => Intact(probe)
      /\ run.current \in BOOLEAN /\ run.probing
      /\ gen \in Lock
  BY DEF write_probe_file, At, RelockInv, InStep, AtLast, Typed
<1>1. /\ Honest(old)
      /\ old = IF Intact(probe) THEN probe ELSE NoReports
  BY <1>0, IntactIs, NothingHonest DEF RelockInv, Steady
<1>2. /\ Honest(gen.reports)
      /\ DOMAIN gen.reports \subseteq DOMAIN old
      /\ run.current => gen = Solved(probe) /\ old = probe
      /\ ~run.current => gen = Empty
  <2>1. CASE run.current
    BY <1>0, <1>1, <2>1 DEF Solution, Solved
  <2>2. CASE ~run.current
    BY <1>0, <2>2, NothingHonest DEF Solution, Empty
  <2>. QED  BY <2>1, <2>2
<1>3. Honest(new) /\ DOMAIN new = DOMAIN old \cup DOMAIN fresh
  BY <1>0, <1>1, AnswersAre, LayeredIs
<1>4. Fresh(new)  BY <1>0, <1>1, <1>2, PassIsFresh
<1>5. ASSUME run.current PROVE new = After(probe) /\ Below(probe, new)
  <2>1. gen = Solved(probe) /\ old = probe  BY <1>2, <1>5
  <2>2. new = After(probe)  BY <2>1 DEF After
  <2>3. gen.reports = probe  BY <2>1 DEF Solved
  <2>4. Below(probe, new)  BY <1>0, <1>1, <2>1, <2>3, PassGrows
  <2>. QED  BY <2>2, <2>4
<1>6. \A s \in run.seen : Past(s, new)
  <2>. SUFFICES ASSUME NEW s \in run.seen PROVE Past(s, new)  OBVIOUS
  <2>. HIDE DEF new
  <2>1. \/ run.current /\ Intact(probe) /\ Past(s, probe)
        \/ s = convergence_state(lock)
    BY <1>0 DEF RelockInv, Remembers, At
  <2>2. CASE run.current /\ Past(s, probe)
    <3>1. CASE s = convergence_state(Empty)  BY <3>1 DEF Past
    <3>2. CASE \E R \in Reports : /\ Honest(R) /\ Fresh(R)
                                  /\ s = convergence_state(Solved(R))
                                  /\ Below(After(R), probe)
      <4>1. PICK R \in Reports : /\ Honest(R) /\ Fresh(R)
                                 /\ s = convergence_state(Solved(R))
                                 /\ Below(After(R), probe)
        BY <3>2
      <4>2. Below(After(R), new)  BY <1>5, <2>2, <4>1, BelowThrough
      <4>. QED  BY <4>1, <4>2 DEF Past
    <3>. QED  BY <2>2, <3>1, <3>2 DEF Past
  <2>3. CASE s = convergence_state(lock) /\ run.current
    <3>1. s = convergence_state(Solved(probe))  BY <1>0, <1>2, <2>3
    <3>2. probe \in Reports /\ Honest(probe) /\ Fresh(probe)
      BY <1>0, <2>3 DEF RelockInv, Steady, Honest
    <3>3. Below(After(probe), new)  BY <1>5, <2>3, BelowItself
    <3>. QED  BY <3>1, <3>2, <3>3 DEF Past
  <2>4. CASE s = convergence_state(lock) /\ ~run.current
    BY <1>0, <1>2, <2>4 DEF Past
  <2>. QED  BY <1>0, <2>1, <2>2, <2>3, <2>4
<1>7. CASE fresh = NoReports
  <2>1. End("no_answers") /\ UNCHANGED probe  BY <1>7 DEF write_probe_file
  <2>2. SaysWhatIsSo'
    BY <2>1 DEF End, SaysWhatIsSo, ConvergedIsComplete, GivesUpOnlyWhenStuck, FinalSolveHolds
  <2>. QED  BY <1>0, <2>1, <2>2, Ending
<1>8. CASE fresh # NoReports
  <2>1. run' = [run EXCEPT !.step = "probing", !.new = new] /\ probe' = Torn /\ UNCHANGED outcome
    BY <1>8 DEF write_probe_file
  <2>. HIDE DEF new, fresh, old
  <2>2. /\ run'.step = "probing" /\ run'.tool = run.tool /\ run'.probing = run.probing
        /\ run'.cross = run.cross /\ run'.current = run.current /\ run'.pass = run.pass
        /\ run'.seen = run.seen /\ run'.new = new /\ run' = RunRecord'
    BY <1>0, <2>1, RunIs DEF RunRecord, Typed
  <2>3. Typed'  BY <1>0, <2>1, <2>2 DEF Typed, Steps
  <2>4. Steady'
    <3>1. ~Intact(probe')  BY <2>1 DEF Intact
    <3>2. Honest(run.new)' /\ Fresh(run.new)'  BY <1>0, <1>3, <1>4, <2>2, WorldStays
    <3>3. lock'.probe => DOMAIN lock'.reports \subseteq DOMAIN run'.new
      BY <1>0, <1>2, <1>3, <2>2
    <3>4. NothingForgotten' /\ (Intact(probe) => Honest(probe) /\ Fresh(probe))'
      BY <3>1 DEF NothingForgotten, Intact
    <3>. QED  BY <2>1, <3>2, <3>3, <3>4 DEF Steady
  <2>5. InStep'  BY <1>0, <2>1, <2>2 DEF InStep, At
  <2>6. AtLast'  BY <1>0, <2>2 DEF AtLast
  <2>7. Remembers'
    <3>1. \A s \in run'.seen : Past(s, run.new)'  BY <1>0, <1>6, <2>2, WorldStays
    <3>. QED  BY <2>2, <3>1 DEF Remembers, At
  <2>8. SaysWhatIsSo'  BY <1>0, <2>1, Silent
  <2>. QED  BY <2>3, <2>4, <2>5, <2>6, <2>7, <2>8 DEF RelockInv
<1>. QED  BY <1>7, <1>8

LEMMA ProbedKeeps == ASSUME RelockInv, Probed PROVE RelockInv'
<1>0. /\ UNCHANGED <<w, lock, gen, outcome>> /\ run.step = "probing" /\ Typed /\ w \in Worlds
      /\ outcome = "none" /\ run.pass # "final" /\ run.probing
      /\ Honest(run.new) /\ Fresh(run.new) /\ probe' = run.new
      /\ Intact(lock) /\ lock.probe => DOMAIN lock.reports \subseteq DOMAIN run.new
      /\ \A s \in run.seen : Past(s, run.new)
  BY DEF Probed, At, RelockInv, InStep, AtLast, Typed, Steady, Remembers
<1>1. /\ run'.step = "solve" /\ run'.tool = run.tool /\ run'.probing = run.probing
      /\ run'.cross = run.cross /\ run'.current = TRUE /\ run'.pass = "again"
      /\ run'.seen = run.seen /\ run'.new = Missing /\ run' = RunRecord'
  BY <1>0, RunIs DEF Probed, RunRecord, Typed
<1>2. probe' \in Reports  BY <1>0 DEF Honest
<1>3. Intact(probe')  BY <1>2, FilesAssumption DEF Intact
<1>4. Typed'  BY <1>0, <1>1, <1>2 DEF Typed, Steps
<1>5. Steady'
  <2>1. Honest(probe)' /\ Fresh(probe)'  BY <1>0, WorldStays
  <2>2. NothingForgotten'  BY <1>0 DEF NothingForgotten, Intact
  <2>. QED  BY <1>1, <2>1, <2>2 DEF Steady, At
<1>6. InStep' /\ AtLast'  BY <1>0, <1>1 DEF InStep, AtLast, At
<1>7. Remembers'
  <2>1. \A s \in run'.seen : Past(s, probe)'  BY <1>0, <1>1, WorldStays
  <2>. QED  BY <1>1, <1>3, <2>1 DEF Remembers, At, Intact
<1>8. SaysWhatIsSo'  BY <1>0, Silent
<1>. QED  BY <1>4, <1>5, <1>6, <1>7, <1>8 DEF RelockInv

LEMMA CrashKeeps == ASSUME RelockInv, Crash PROVE RelockInv'
<1>1. End("crashed") /\ UNCHANGED <<w, lock, probe, gen>>  BY DEF Crash
<1>2. SaysWhatIsSo'
  BY <1>1 DEF End, SaysWhatIsSo, ConvergedIsComplete, GivesUpOnlyWhenStuck, FinalSolveHolds
<1>. QED  BY <1>1, <1>2, Ending

LEMMA StutterKeeps == ASSUME RelockInv, UNCHANGED vars PROVE RelockInv'
<1>1. UNCHANGED <<w, lock, probe, gen, run, outcome, runs>>  BY DEF vars
<1>2. Typed' /\ InStep'
  BY <1>1 DEF RelockInv, Typed, RunRecord, InStep, At, Solution, Intact
<1>3. Steady'
  <2>1. (Intact(probe) => Honest(probe) /\ Fresh(probe))'
    BY <1>1, WorldStays DEF RelockInv, Steady, Intact
  <2>2. (At("probing") => Honest(run.new) /\ Fresh(run.new))'
    BY <1>1, WorldStays DEF RelockInv, Steady, At
  <2>. QED  BY <1>1, <2>1, <2>2 DEF RelockInv, Steady, NothingForgotten, Intact, At
<1>4. AtLast'
  <2>1. convergence_state(Solved(probe))' = convergence_state(Solved(probe))
    BY <1>1, WorldStays DEF Solved
  <2>. QED  BY <1>1, <2>1 DEF RelockInv, AtLast, Intact, converged
<1>5. Remembers'
  <2>1. convergence_state(lock)' = convergence_state(lock)  BY <1>1, WorldStays
  <2>2. \A s \in run.seen : /\ Past(s, run.new)' <=> Past(s, run.new)
                            /\ Past(s, probe)' <=> Past(s, probe)
    BY <1>1, WorldStays
  <2>. QED  BY <1>1, <2>1, <2>2 DEF RelockInv, Remembers, At, Intact
<1>6. SaysWhatIsSo'
  <2>1. /\ problems(lock)' = problems(lock) /\ run_probes(gen)' = run_probes(gen)
        /\ \A p : Complete(lock, p)' <=> Complete(lock, p)
    BY <1>1, WorldStays
  <2>. QED
    BY <1>1, <2>1 DEF RelockInv, SaysWhatIsSo, ConvergedIsComplete, GivesUpOnlyWhenStuck,
                      FinalSolveHolds, Layered, previous_packages
<1>. QED  BY <1>2, <1>3, <1>4, <1>5, <1>6 DEF RelockInv

LEMMA RelockStep == RelockInv /\ [Next]_vars => RelockInv'
<1>. SUFFICES ASSUME RelockInv, [Next]_vars PROVE RelockInv'  OBVIOUS
<1>1. CASE \E kept \in Kept : Start(kept)  BY <1>1, StartKeeps
<1>2. CASE Solve  BY <1>2, SolveKeeps
<1>3. CASE dump_lockfile  BY <1>3, DumpKeeps
<1>4. CASE Generate  BY <1>4, GenerateKeeps
<1>5. CASE Decide  BY <1>5, DecideKeeps
<1>6. CASE write_probe_file  BY <1>6, WriteKeeps
<1>7. CASE Probed  BY <1>7, ProbedKeeps
<1>8. CASE Crash  BY <1>8, CrashKeeps
<1>9. CASE UNCHANGED vars  BY <1>9, StutterKeeps
<1>. QED  BY <1>1, <1>2, <1>3, <1>4, <1>5, <1>6, <1>7, <1>8, <1>9 DEF Next, Step

LEMMA RelockHolds == Spec => []RelockInv
<1>1. Init => RelockInv  BY InvInit
<1>. QED  BY <1>1, RelockStep, PTL DEF Spec

(* However many runs of either tool follow one another, wherever they are       *)
(* killed: one that says "converged" leaves buildroots that hold all the specs  *)
(* ask for, one that gives up could learn nothing from a further pass, and the  *)
(* strict solve at the end finds no problem the loop did not see.               *)
(* (rpm_relock.main, convergence_state)                                         *)
THEOREM RunsSayWhatIsSo == Spec => []SaysWhatIsSo
<1>1. RelockInv => SaysWhatIsSo  BY DEF RelockInv
<1>. QED  BY <1>1, RelockHolds, PTL

(* A package the lock was solved with a report for is in the probe file while   *)
(* there is one that parses. (probe.write_probe_file)                           *)
THEOREM AnswersAreKept == Spec => []NothingForgotten
<1>1. RelockInv => NothingForgotten  BY DEF RelockInv, Steady
<1>. QED  BY <1>1, RelockHolds, PTL
=============================================================================
