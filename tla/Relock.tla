------------------------------- MODULE Relock -------------------------------
(***************************************************************************)
(* The solve/probe loop of an RPM release: tools/relock.py (one probe pass)*)
(* and tools/rpm_relock.py (as many as it takes), with the parts of        *)
(* tools/probe.py, tools/solve.py and tools/generate.py they call.         *)
(*                                                                         *)
(* Repodata does not list everything a spec asks for.  The rest is learned *)
(* by running the package's generator in the buildroot of the last solve,  *)
(* recorded in the probe file and solved again, until nothing new is asked.*)
(* The probe of a package needs the source-built packages of its buildroot *)
(* built, so a package whose buildroot is incomplete blocks the probes     *)
(* above it.  Every file is written in place: a crash leaves it torn.      *)
(***************************************************************************)
EXTENDS Integers, FiniteSets, Sequences

CONSTANTS Pkgs,      \* source packages on the build list
          Caps,      \* capabilities that repodata does not attribute
          Worlds,    \* what the specs ask for and the repositories have
          MaxRuns,   \* bound: runs of either tool in a behaviour
          Seed,      \* no source of the build list
          Torn,      \* a file truncated by a write that never finished
          Missing    \* no file

(***************************************************************************)
(* A world.  asks[p] is a sequence of rounds: the first is what rpmspec    *)
(* reads from the spec (%ifarch conditionals evaluated), each later one is *)
(* what the generator emits once the rounds before it are installed.       *)
(* maker[c] is the source on the build list that makes the provider of c,  *)
(* or Seed; uses[p] the sources p's repodata BuildRequires come from;    *)
(* suspect the packages whose repodata names a generator; known the        *)
(* capabilities some package provides; rotten says that an override no     *)
(* longer resolves.  No package needs itself built.                        *)
(***************************************************************************)
Asked(w, p) == UNION {w.asks[p][i] : i \in DOMAIN w.asks[p]}
Makers(w, C) == {w.maker[c] : c \in C} \ {Seed}

ASSUME WorldsAssumption ==
  \A w \in Worlds :
     /\ w.asks \in [Pkgs -> Seq(SUBSET Caps) \ {<<>>}]
     /\ w.maker \in [Caps -> Pkgs \cup {Seed}]
     /\ w.uses \in [Pkgs -> SUBSET Pkgs]
     /\ w.suspect \subseteq Pkgs
     /\ w.known \subseteq Caps
     /\ w.rotten \in BOOLEAN
     /\ \A S \in (SUBSET Pkgs) \ {{}} :
           \E p \in S : (w.uses[p] \cup Makers(w, Asked(w, p))) \cap S = {}

Report == [caps : SUBSET Caps, dynamic : SUBSET Caps, unmet : BOOLEAN]
Reports == UNION {[S -> Report] : S \in SUBSET Pkgs}
NoReports == [p \in {} |-> 0]

VARIABLES w,        \* the world
          lock,     \* the lockfile: [probe, reports] it was solved with
          probe,    \* the probe file beside it
          gen,      \* the lock the generated Buck targets come from
          run,      \* the run in progress: tool, flags, step and memory
          outcome,  \* how the last run ended
          runs
vars == <<w, lock, probe, gen, run, outcome, runs>>

Lock == [probe : BOOLEAN, reports : Reports]

\* A torn file and a missing one parse as nothing.
ASSUME FilesAssumption ==
  Torn # Missing /\ \A f \in {Torn, Missing} : f \notin Lock /\ f \notin Reports

-----------------------------------------------------------------------------
(***************************************************************************)
(* What a lock solved with the reports R says.  A lock is a function of    *)
(* the reports and the world, so it is recorded as the reports.            *)
(***************************************************************************)
\* The capabilities in the buildroot of p, those repodata shows left out.
Buildroot(l, p) == IF p \in DOMAIN l.reports
                   THEN l.reports[p].caps \cap w.known ELSE {}
problems(l) == (UNION {{p} \X (l.reports[p].caps \ w.known) : p \in DOMAIN l.reports})
               \cup {r \in {<<"override">>} : w.rotten}
unprobed(l) == w.suspect \ DOMAIN l.reports
unmet(l) == {p \in DOMAIN l.reports : l.reports[p].unmet}

\* What the loop compares from pass to pass: of an unmet package, the
\* dynamic capabilities only.
convergence_state(l) ==
  [problems |-> problems(l),
   unprobed |-> unprobed(l),
   unmet |-> [p \in unmet(l) |-> l.reports[p].dynamic]]
converged(s) == s.problems = {} /\ s.unprobed = {} /\ DOMAIN s.unmet = {}

-----------------------------------------------------------------------------
(***************************************************************************)
(* A probe pass over the targets generated from the lock g.                *)
(***************************************************************************)
Via(g, p) == w.uses[p] \cup Makers(w, Buildroot(g, p))
Complete(g, p) == Asked(w, p) \subseteq Buildroot(g, p)
\* The packages whose own build succeeds, and what it needs built with it.
Buildable(g) == UNION {S \in SUBSET Pkgs :
                         \A p \in S : Complete(g, p) /\ Via(g, p) \subseteq S}

\* rpmspec always answers; rpmbuild -br runs the generator until a round is
\* not installed, and not at all when the static round is not.
build_requires_report(g, p) ==
  LET rounds == w.asks[p]
      met(i) == \A j \in 1..i : rounds[j] \subseteq Buildroot(g, p)
      seen == UNION {rounds[i] : i \in {j \in DOMAIN rounds : met(j - 1)}}
  IN [caps |-> seen,
      dynamic |-> IF met(1) THEN seen \ rounds[1] ELSE {},
      unmet |-> ~met(Len(rounds))]

run_probes(g) == [p \in {q \in Pkgs : Via(g, q) \subseteq Buildable(g)} |->
                    build_requires_report(g, p)]

\* The last results, or none when the file does not parse.
previous_packages(f) == IF f \in {Missing, Torn} THEN NoReports ELSE f
Layered_replace(old, fresh) == fresh   \* mutant: written in place of it
Layered(old, fresh) == [p \in DOMAIN old \cup DOMAIN fresh |->
                          IF p \in DOMAIN fresh THEN fresh[p] ELSE old[p]]

-----------------------------------------------------------------------------
(***************************************************************************)
(* A run.  tool is which script; probing its --probe flag; cross says that *)
(* the template is another architecture's lock; current whether the solve  *)
(* is given the probe file; new what the write under way will leave.       *)
(***************************************************************************)
Steps == {"idle", "solve", "solving", "generate", "decide", "probe",
          "probing"}
Kept == [tool : {"relock", "rpm_relock"}, probing : BOOLEAN, cross : BOOLEAN]
Ended(kept) == [step |-> "idle", tool |-> kept.tool, probing |-> kept.probing,
                cross |-> kept.cross, current |-> FALSE, pass |-> "first",
                seen |-> {}, new |-> Missing]

Intact(file) == file \notin {Missing, Torn}
At(step) == run.step = step
GoTo(step) == run' = [run EXCEPT !.step = step]
End(how) == run' = Ended(run) /\ outcome' = how

\* relock.py never solves strictly; rpm_relock does when it will not probe,
\* and once more when the loop has converged.
strict == /\ run.tool = "rpm_relock"
          /\ run.pass = "final" \/ ~run.probing

Init ==
  /\ w \in Worlds
  /\ lock \in {[probe |-> FALSE, reports |-> NoReports],
               [probe |-> TRUE,
                reports |-> run_probes([probe |-> FALSE, reports |-> NoReports])]}
  /\ probe = Missing
  /\ gen = lock
  /\ run = Ended([tool |-> "relock", probing |-> FALSE, cross |-> FALSE])
  /\ outcome = "none"
  /\ runs = 0

\* The recorded probe must be there; a template that does not parse, or
\* whose probe is gone, ends the run before anything is written.
Start(kept) ==
  /\ At("idle") /\ runs < MaxRuns
  /\ kept.cross => kept.tool = "rpm_relock"
  /\ runs' = runs + 1
  /\ LET named == ~kept.cross /\ Intact(lock) /\ lock.probe
         refused == IF ~kept.cross /\ ~Intact(lock) THEN "lock_torn"
                    ELSE IF named /\ probe = Missing THEN "probe_missing"
                    ELSE "none"
     IN /\ run' = IF refused # "none" THEN Ended(kept)
                  ELSE [Ended(kept) EXCEPT !.step = "solve", !.current = named]
        /\ outcome' = refused
  /\ UNCHANGED <<w, lock, probe, gen>>

\* read_probe parses the file or the run ends; so does a strict solve with
\* problems, before it writes.
Solve ==
  /\ At("solve")
  /\ LET solved == [probe |-> run.current,
                    reports |-> IF run.current THEN probe ELSE NoReports]
     IN IF run.current /\ ~Intact(probe)
        THEN End("probe_torn") /\ UNCHANGED lock
        ELSE IF strict /\ problems(solved) # {}
        THEN End("unresolved") /\ UNCHANGED lock
        ELSE /\ run' = [run EXCEPT !.step = "solving", !.new = solved]
             /\ lock' = Torn
             /\ UNCHANGED outcome
  /\ UNCHANGED <<w, probe, gen, runs>>

dump_lockfile ==
  /\ At("solving")
  /\ lock' = run.new
  /\ GoTo("generate")
  /\ UNCHANGED <<w, probe, gen, outcome, runs>>

\* What follows depends on the tool: relock.py probes once, rpm_relock
\* decides again after every pass and checks what the final solve wrote.
Generate ==
  /\ At("generate")
  /\ gen' = lock
  /\ IF run.probing /\ run.tool = "relock" /\ run.pass = "first"
     THEN GoTo("probe") /\ UNCHANGED outcome
     ELSE IF run.probing /\ run.tool = "rpm_relock" /\ run.pass # "final"
     THEN GoTo("decide") /\ UNCHANGED outcome
     ELSE End(IF run.pass # "final" THEN "refreshed"
              ELSE IF converged(convergence_state(lock)) THEN "converged"
              ELSE "incomplete")
  /\ UNCHANGED <<w, lock, probe, runs>>

probe_required_never(state) == ~converged(state)
                             \* mutant: a lock without a report can be clean

probe_required(state) == ~run.current \/ ~converged(state)
Decide_forever ==                  \* mutant: does not remember the states
  /\ At("decide")
  /\ run' = [run EXCEPT !.step = IF probe_required(convergence_state(lock))
                                 THEN "probe" ELSE "solve",
                        !.pass = IF probe_required(convergence_state(lock))
                                 THEN @ ELSE "final"]
  /\ UNCHANGED <<w, lock, probe, gen, outcome, runs>>

Decide ==
  /\ At("decide")
  /\ LET state == convergence_state(lock)
     IN IF ~probe_required(state)
        THEN /\ run' = [run EXCEPT !.step = "solve", !.pass = "final"]
             /\ UNCHANGED outcome
        ELSE IF state \in run.seen THEN End("gave_up")
        ELSE /\ run' = [run EXCEPT !.step = "probe", !.seen = @ \cup {state}]
             /\ UNCHANGED outcome
  /\ UNCHANGED <<w, lock, probe, gen, runs>>

\* Reads the recorded answers, then truncates the file it read them from.
write_probe_file ==
  /\ At("probe")
  /\ LET fresh == run_probes(gen)
     IN IF fresh = NoReports THEN End("no_answers") /\ UNCHANGED probe
        ELSE /\ run' = [run EXCEPT !.step = "probing",
                          !.new = Layered(previous_packages(probe), fresh)]
             /\ probe' = Torn
             /\ UNCHANGED outcome
  /\ UNCHANGED <<w, lock, gen, runs>>

Probed ==
  /\ At("probing")
  /\ probe' = run.new
  /\ run' = [run EXCEPT !.step = "solve", !.pass = "again", !.current = TRUE,
                        !.new = Missing]
  /\ UNCHANGED <<w, lock, gen, outcome, runs>>

Crash ==
  /\ ~At("idle")
  /\ End("crashed")
  /\ UNCHANGED <<w, lock, probe, gen, runs>>

Step == Solve \/ dump_lockfile \/ Generate \/ Decide \/ write_probe_file \/ Probed
Next == (\E kept \in Kept : Start(kept)) \/ Step \/ Crash

\* A tool that runs and is not killed takes its next step.
Spec == Init /\ [][Next]_vars /\ WF_vars(Step)

-----------------------------------------------------------------------------
\* What a run says in the end is so.  (rpm_relock.main)
\* "converged": every buildroot of the lock holds everything the spec asks for,
\* whether or not its probe ever answered or its repodata named a generator,
\* and the targets are the ones of that lock.
\* "did not converge": a further pass would record nothing new, so running the
\* tool again cannot help until a spec or a repository changes; yet the states
\* compared leave out every package that is neither unmet nor suspected.
\* The strict solve at the end finds nothing that the loop did not see.
ConvergedIsComplete ==
  outcome = "converged" =>
     /\ lock.probe /\ gen = lock /\ lock.reports = probe
     /\ problems(lock) = {}
     /\ \A p \in Pkgs : Complete(lock, p)
GivesUpOnlyWhenStuck ==
  outcome = "gave_up" =>
     Layered(previous_packages(probe), run_probes(gen)) = probe
FinalSolveHolds == /\ outcome # "incomplete"
                   /\ outcome = "unresolved" => ~run.probing
SaysWhatIsSo == ConvergedIsComplete /\ GivesUpOnlyWhenStuck /\ FinalSolveHolds

\* A package the lock was solved with a report for is in the probe file as
\* long as there is one that parses: an answer is refreshed, and never falls
\* back to the repodata because one probe failed.  (probe.write_probe_file)
NothingForgotten ==
  Intact(lock) /\ Intact(probe) /\ lock.probe =>
     DOMAIN lock.reports \subseteq DOMAIN probe

\* Every run ends: the states the loop compares cannot all be new.
\* (rpm_relock.main, while True)
RunsEnd == ~At("idle") ~> At("idle")

=============================================================================
