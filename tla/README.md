# A TLA+ model of buckos-distro

The specifications here are written from the source under `src/` and kept beside it. They say what the
dependency solver, the metadata it reads, the bootstrap planner, the solve/probe loop, the lockfile commands, the
launcher of isolated actions and the programs that prepare, admit and test remote-execution hosts promise, check it
with TLC on small instances, and prove some of it with TLAPS for every instance.

- [The system](#the-system): its parts, their state, what is hard about them
- [The modules](#the-modules): how each corresponds to the code
- [The runs](#the-runs): what each checks, its bounds, and what it shows
- [Fairness](#fairness)
- [The proofs](#the-proofs)
- [Where the code departs from what is said of it](#where-the-code-departs-from-what-is-said-of-it)
- [What is not modelled](#what-is-not-modelled)
- [Plan](#plan)

## The system

buckos-distro rebuilds Linux distributions under buck2. Repository metadata is solved into a lockfile,
the lockfile is turned into Starlark, and buck2 builds the targets, each action in a user namespace. A second,
independent part provisions NativeLink remote-execution workers in SDME containers, decides which hosts and
deployments may serve, and tests them.

```
  repodata ──relock/rpm_relock──> solve ──> lockfile ──generate──> generated/*.bzl ──buck2──> targets
               ^                   │  universe, source_policy,               │ rpm_family.bzl   │
               │                   │  runtime_closure, SCC, staging          │        run_isolated (_isolation.py)
               │                   └─ reads probe.json <──── probe.py <──────┘ (probe targets)
  lockfiles command: edit, replace, convert, generate, check          (same lock, other encoding)

  oci_acquire ──> archives ──prepare-runtime──> image fs ──> runtime fs ──apply──> container
   (oci_archive)                       sdme-provision.sh         │                   │
                                                                 v                   │
  prepare_worker_probe_root ──> probe root ──> preflight_worker (drives _isolation)  │
                                                                                     │
  check_deployment, reapi_readiness ──> may clients share it?  ──────────────────────┤ (REAPI)
  smoke-test.sh: two checkouts, buck2 and its daemons, .buckconfig.local  ───────────┘
```

| Component | State | Operations | Interacts through | What is hard | What makes it correct |
|---|---|---|---|---|---|
| Package universe (`relock.sync_repo`, `solve.py`, `rpmvercmp.py`) | files of each repository, merged tables, two universes, the pins | sync, merge, combine, index, close, derive, pin | repositories that move, the probe's findings | torn and stale files; order of entries; version order; second architectures; two tables corrected one after the other | newest build wins, a capability is answered by who has it, the universes agree, the lock's sets are closed |
| Source policy (`source_policy.py`) | exceptions, payload, a recorded policy | validate, record, validate again from the lock | the image, the lockfile, the generator | the policy is computed twice from different data | every rpm of an image is built or excused, no excuse outlives its reason |
| Runtime closure (`depgraph.py` `runtime_closure`) | the closure, a worklist, waiting conditions, open choices, problems | pop a package, re-ask conditions, close choices, settle `unless`, report | the merged universe, overrides; result feeds buildroots and image sets | the questions are about the set being computed; order of the worklist; four passes feeding each other | every requirement of a member holds of the result or is reported; the result does not depend on order; the loop ends |
| Components (`strongly_connected_components`) | explicit call stack, indices, links, component stack | descend, cross, retreat | the source graph | recursion unrolled by hand | exactly the mutual-dependency classes, dependencies first |
| Planner and package graph (`depgraph.py`, `solve.py`, `generate.py`, `defs/rpm_family.bzl`) | source graph, staged entries, targets | project, find cycles, stage, cut built/prebuilt, define targets | lockfile, Starlark | four pieces of code in two languages each derive the edges again | the target graph is acyclic, complete, routed as asked, and what ships is self-hosted |
| Solve/probe loop (`relock.py`, `rpm_relock.py`, `probe.py`, `rpmbuild_replay.py`) | lockfile, probe file, Starlark; a run's memory | solve, write, generate, decide, probe, record | files written in place; buck2 | a fixed point over an oracle; convergence read off the lock; a crash between any two writes | "converged" means complete; gives up only when stuck; no answer is lost; runs end |
| Lock store (`_lockfile.py`, `lockfile.py`, `lockfile_convert.py`) | two encodings of one lock, a temporary file, the Starlark | edit, replace, convert, generate, check, refresh | the lock directory | two names for one thing; kills between rename and unlink; in-place and atomic writers side by side | encodings never disagree; a lock is never lost; success means consistent |
| Isolation (`_isolation.py`) | a namespace holder, two pipes, id maps, a command | fork, map, enter, run, reap | the kernel, newuidmap and newgidmap, bwrap or unshare | hand-over through pipes, either side dying anywhere, reaping on every path | nothing starts unmapped, nothing outlives the action, nobody waits for ever |
| Worker preflight (`preflight_worker.py`) | findings, a scratch tree, a sandbox's results | check the host, try the scratch directory, run a sandbox, read back, clean up | the host, `_isolation.py`, the probe root | the proof is in files written inside; interrupts while the tree is up | a pass means every requirement; a sound worker passes; nothing stays unsaid |
| Probe root (`prepare_worker_probe_root.py`) | a tree and its manifest | plan, copy, freeze, digest, publish, roll back | an SDME rootfs, the destination | discovery while copying; partial publication and rollback; several runs at one place | a digest printed is that of a tree Python runs in; a manifest vouches for a whole tree |
| OCI acquisition (`oci_acquire.py`, `oci_archive.py`) | a staging directory per run, the output directory | check, fetch, assemble, verify, move | registries, other runs | wrong and missing answers, expiring tokens, a kill between two moves | what is published is what the metadata tracks; what is admitted imports what is pinned |
| SDME provisioner (`sdme-provision.sh`) | archives and provenance, image and runtime filesystems, intent records, container, its files and services | prepare-runtime, apply, start, stop, restart | the data root, the host's filesystem names, the container | every step may be the last; a retry must recognise its own leftovers and nothing else | an identical retry always succeeds; nothing published is lost; the service runs only on a whole installation |
| Readiness helper (`reapi_readiness.py`) | a channel, a blob under way | read capabilities, round trip through the CAS | the service, protobuf by hand | every legal encoding; damaged and missing answers | accepts what is fit in any encoding, nothing else |
| Stage-zero check (`check_deployment.py`) | a report, evidence, a count of inotify use | every check in order, then one verdict | the deployment, a collector's file, `/proc` | the clock, the workers and the processes move while it looks | a verdict is about what was there; sound deployments are admitted |
| Smoke test (`smoke-test.sh`) | two configuration files, daemons, a background command, traps, evidence | install, run a stage, clean up, handle a signal | the checkouts, buck2's daemons | signals between any two commands; other users of the same checkout | it leaves nothing, removes only its own, and buck runs under its settings |
| Builds, images, kernels, signing, Debian family, rules | output directories of one action | one straight-line action each | buck2 | external tools | see [What is not modelled](#what-is-not-modelled) |

`PROJECT.json` lists all components with their sources, the hazards of each at its line, and the definitions
that stand for each stretch of code.

## The modules

| Module | Models | Used by |
|---|---|---|
| `RpmVersions` | `rpmvercmp`, epoch:version-release | `Universe` |
| `Universe` | the pure part between repodata and lockfile: merging, the index of capabilities, architectures, makers | `Repodata` |
| `SourcePolicy` | `source_policy.py` | `Repodata` |
| `Repodata` | `sync_repo`, `main` and `emit_lockfile` of the solver, composed of the three above | `MCRepodata`, `SolveProofs` |
| `BooleanDeps` | capability resolution, version constraints, ranges, boolean dependencies | `RuntimeClosure` |
| `RuntimeClosure` | the worklist of `runtime_closure` | `MCRuntimeClosure`, `SolveProofs` |
| `Condensation` | abstract: components emitted one by one, dependencies first | `SourcePlan`, `BuildGraph` |
| `SourceComponents` | the iterative Tarjan algorithm | `SourcePlan`, `LockProofs` |
| `BuildGraph` | projection, staging, the lockfile's cut, `rpm_packages` | `SourcePlan`, `LockProofs` |
| `SourcePlan` | `BuildGraph` with `SourceComponents` in the place of its promise; refines `Condensation` | `MCBuildGraph`, `LockProofs` |
| `Relock` | runs of `relock.py` and `rpm_relock.py`, crashes between them | `MCRelock`, `RelockProofs` |
| `LockStore` | the `lockfiles` command and a refresh on one lock | `MCLockStore`, `LockProofs` |
| `Isolation` | `run_isolated` and `remove_tree` of `_isolation.py` | `Preflight` |
| `Preflight` | `preflight_worker.py`, driving `Isolation` step by step | `MCPreflight`, `PreflightProofs` |
| `ProbeRoot` | `prepare_worker_probe_root.py`, several runs at one destination | `MCProbeRoot`, `ProbeRootProofs` |
| `OciArchive` | the validator of archives | `OciAcquire` |
| `OciAcquire` | `oci_acquire.py`, several runs at one output directory | `MCOciAcquire`, `OciAcquireProofs` |
| `RuntimeImages` | `prepare-runtime`: archives, image and runtime filesystems, their intent records | `Provision` |
| `Provision` | `apply` and the lifecycle commands, composed with `RuntimeImages` | `MCProvision`, `ProvisionProofs` |
| `Wire` | protobuf's wire format as the helper writes and reads it | `Readiness` |
| `Readiness` | `reapi_readiness.py` against one service | `DeploymentCheck` |
| `DeploymentCheck` | `check_deployment.py` | `Admission` |
| `Admission` | either of the two on the same service, and what their verdicts are worth | `MCAdmission` |
| `SmokeTest` | the lifecycle of `smoke-test.sh`, several at once | `MCSmokeTest`, `SmokeTestProofs` |

**Universe, SourcePolicy, Repodata.** A version is the sequence of segments `rpmvercmp` sees; a build is a record; a
package of a universe is a name, or a name with its architecture when its build lost the plain name. `Repodata` walks a run of
the refresh: the files of each repository (`Sync`), its entries in any order (`ReadEntry`; the code keeps the
document's), one layer after the other, the two universes, the probe's corrections, the closures, the pins (`Emit`).
A file is named after its content, so it is the snapshot it holds, whole or torn. `Push` moves upstream, `Kill` and `faults` are kills and
failing calls. Capabilities have no versions here: conditions and ranges are `BooleanDeps`.

**BooleanDeps, RuntimeClosure.** An expression is a text with the node the parser makes of it (`node`), whose operands are shorter texts (`length`); what
`require` may do with it in a given closure is an *effect*: packages to add, conditions that wait, choices that
stay open, problems. `Pop`, `RecheckPending`, `RecheckChoices`, `SettleUnless` and `Report` are the passes of
the loop. The code pops a list whose order is the repodata's; the model pops any member, so a property that
holds, holds for every order. `Inputs` are pairs of a repository and of what is asked of it.
A problem found while reading is filed under the package that asks. What is still open at the end is grouped by its text: one problem per
decision, filed under one of its `Askers`, however many there are (:1107–1126; the message names three of them and counts the rest, so a fourth is
not told by name). `FiledFor` is what that gives an asker. Versions are naturals; one is compared at the precision the constraint
states, so a constraint carries the interval of versions equal to the one it names. A text the parser gives up on is `garbled` and reported. A range
is overridden under its bounds `joined` by "with", without the parentheses (`Texts`).

**Condensation, SourceComponents, BuildGraph, SourcePlan.** `BuildGraph` takes its components from `Condensation`, any
legal order of them; `SourcePlan` replaces that step by the loop of `SourceComponents`, one turn at a time, and is shown to
refine `Condensation` (property `Condenses`, the emitted components being `comps`). `Condense`, `Plan` and `Define`
are the three stages; a target is a source and a stage, an overlay says from which target (or the seed) a
binary comes.

**Relock.** A *world* says what each spec asks for: the rounds of its generator, who makes what, which
repodata admits to a generator. Reports, lock and probe file are functions from packages to what is known. A
file written in place is `Torn` while its writer is inside the write; `Crash` ends a run between any two steps and
a second run starts from the files.

**LockStore.** A command is a record that walks through its file operations. `Stop` ends it at any of them,
cleanly (the temporary file is removed) or not.

**Isolation, Preflight.** A pipe is who holds its ends and the byte in it, so an inherited descriptor that is not closed
is a reader or a writer that is still there. The driver, the shell under `unshare` and the command are processes of
their own. `Preflight` has the launcher of the repository or the one its tests put in its place (`facts.launcher`); with the
latter, `Isolation`'s actions are the body of its sandbox step. `facts` is what there is to find on the host. In the same module
`pf.pc = "none"` is an action of a build that calls the launcher directly.

**ProbeRoot.** A path of the rootfs and of the copy is one name, a tree is the set of its paths, its digest is the tree.
`Dequeue` and `Dependency` are the worklist of ELF files. `Interrupt` is an exception, after which the handlers run
(`Unmark`, `Thaw`, `RemoveRoot`); `Kill` is no handler at all; `blame` keeps the causes that the properties exclude by name. A path `Resolves` when it
is in the least set that holds the copied files and the copied links into it. The code asks of a link of the standard library only that what it leads to was
copied (:581–594), so a loop of such links passes; `Whole` asks of them no more than that no link leads out of the tree (`Unbroken`).

**OciArchive, OciAcquire.** A digest is the document it is the digest of, so content is right when it is its name. `verify_archive`
is the validator as an operator on archives; `OciAcquire` has one action per request and per file operation, with the
token that can expire and the one retry that follows.

**RuntimeImages, Provision.** One action per step that touches the disk or the container. An object is published
when its provenance is beside it; until then an intent record under the data root covers it. `Fail` is the EXIT
trap, `Kill` is no trap at all. `Provision` adds the deployment of the container and lets it be started, stopped
or removed at any point; `Up` says what systemd starts in it. The lock makes the runs of one data root exclude each
other, so a root has one run at a time.

**Wire, Readiness, DeploymentCheck, Admission.** `Wire` encodes and decodes bytes, with a smaller radix: a
message of the helper is the sequence of bytes the code builds, and the service answers with any legal encoding of the truth
(packed or not, fields reversed, a field of its own), or oddly. `DeploymentCheck` has one action per check;
`Tick`, `Collect` and `ProcessMoves` are the clock, the collector and the processes. They move around the reading of the
evidence and around the scan, the only checks that read them: a move earlier is the same as one just before. `Admission`
starts either program on the same kind of service; they share no state, and neither changes the other's.

**SmokeTest.** A file is its inode, as the script sees it: `ln` gives a second name, cleanup compares inodes, and
a freed inode is the next one used. Each command of `install_client_config` after which a signal can leave
something different is an action; so are the start of the background command and the store of its process id.
`on_signal` runs, as bash runs a trap, between two commands. `Over` drops the shell's variables when the process
ends. That a trap whose handler calls `exit` inside the EXIT trap does not start that trap again, and that a
pending signal is handled between `&` and `$!`, was tried with bash.

## The runs

All bounds are constants of a `.cfg` or sets in an `MC` module.

| Run | Instance | What it shows |
|---|---|---|
| `closure` | 4 packages, one capability with 0–3 providers; up to two requirements at the root and one at each other package, from conditions, choices, conjunctions, versions, ranges, `without`, overrides and `unless` | `ClosureSound` (every requirement of a member holds or is reported), `PlainSettled` (the same of plain capabilities, whatever stands beside them), `GrowingOrderIndependent` (where every requirement only asks for more as the closure grows, `Growing`, the closure is the least closed set), `Terminates` |
| `build_graph` | every graph on 4 packages; every requirement table over 3 packages with base, unbuilt and host-prebuilt ones; a second build of one package with routed consumers; 3 stages | `Condenses` (Tarjan's loop refines `Condensation`), `Descends`, `Delivered`, `ShipsSelfHosted` |
| `relock_loop` | 3 packages, 2 capabilities, up to 3 rounds, 2 runs with a crash anywhere | `SaysWhatIsSo` ("converged" is complete, giving up is being stuck, the last solve holds), `NothingForgotten`, `RunsEnd` |
| `lockstore` | 3 contents, 4 commands, a kill at any file operation | `EncodingsAgree`, `SuccessIsConsistent`, `KeepsALock` |
| `provision` | 1 data root, 2 images of which one is saved from a registry with varying bytes, 2 topologies, both security modes, proxy on and off; any number of runs | `RefusedOnlyWhenChanged`, `ReadyIsWhole`, `ServesOnlyComplete`, `PublishedIsFinal`, `DeployOutcomeHolds` |
| `smoke` | 2 harnesses given the same 2 checkouts in opposite order, one with an event directory used before; 1 signal or kill, 1 file of an operator | `LeavesNothing`, `RunsUnderOwnConfig`, `RemovesOnlyItsOwn` |
| `probe_root` | 2 runs at one destination, `plan` or `apply`, five rootfs (sound, a loop of links, a foreign library, a device node, one SDME does not list), each flaw of the environment; 1 fault, 1 act of an operator | `ReportedWhole`, `MarkerMeansWhole`, `Ends` |
| `preflight` | every call of the launcher on every host; preflights on workers that differ from a sound one in up to two ways; 2 faults | `MappedBeforeEntry`, `PassProves`, `SoundWorkerPasses`, `LeavesNothingUnsaid`, `EverythingEnds` |
| `preflight_production` | a sound worker, the launcher of the repository | violation: `ProvesEveryWorker` |
| `oci_acquire` | 2 runs into one directory, 2 images, 26 states of registry and metadata; 2 faults, 1 foreign act | `PublishedIsTracked`, `WholeUnlessCut`, `AdmittedIsPinned` (every archive that could be offered, not only those built) |
| `repodata` | 5 repositories; every order of entries; any three of eight version shapes; second architectures, build tags, probed producers, variants, overrides, source policies; torn and stale files with 2 runs and 2 faults | `NewestOfWhole`, `CapabilityHonest`, `UniversesAgree`, `PayloadAccounted`, `LockHolds` |
| `admission` | every command line of the helper and every service, with 2 odd answers; deployments that differ from a sound one in up to two ways, 2 ticks, 2 events of processes | `AdmittedIsSo`, `SoundIsAdmitted` |

Why these bounds are enough to be interesting:

- *Closure.* Re-reading needs a condition, the package that turns it, and a package that brings that one: three
  besides the root. Two providers make a choice, three versions make "newest that fits" differ from "newest" and from
  "first". An input that needs a fifth package to go wrong would have a chain of conditions longer than three.
- *Build graph.* Four nodes hold two cycles that share a node, a cycle below another, and a cross edge into a
  finished component; the mutants that drop one clause of the algorithm are all caught. Cycles of two and three, a package outside the
  cycle on either side, and a variant inside and outside. Three stages tell the first, a middle and the last apart.
- *Relock.* Three packages make a chain in which the middle one's probe waits for the lowest one's build. Three rounds
  exceed what a single pass learns. Two runs give every crash a successor.
- *Lock store.* Four commands: one that leaves something behind, one that trips over it, one that repairs, one that
  relies on the repair.
- *Provision.* Nothing is bounded but the data: the graph of one root is finite. Two images give an order between
  them, two saves make content differ under one name.
- *Smoke.* Two harnesses contend for both checkouts, in the order that lets each take one; a signal and a kill need one
  each.
- *Probe root.* The sound rootfs has a library reached only through another, two that need each other, a candidate
  that dangles and a chain of links in the standard library. One run is a sound `apply`, so the other always meets one. Two runs are what it takes to
  find a tree, a manifest or half of either.
- *Preflight.* Every check reads at most two facts, so up to two differences reach every verdict that can be wrong; fields read together are
  varied together. Needed ids are 5 for 65536 and the largest id 17 for 2^32 − 2: the ranges lie on both sides of each comparison.
- *OCI.* One image is enough to be wrong and a second one to be published without it. A token can be asked for, expire and be asked for again. The
  archives offered to the validator are all subsets of the image's documents with any of them damaged and any root.
- *Repodata.* Three builds of a package, two of them in one repository, give "first", "last" and "newest" three answers; the version
  shapes are the ones `rpmvercmp` treats apart (tilde, caret, a longer number, letters, a release, an epoch). Each set of worlds varies one
  group of inputs and holds the others fixed.
- *Admission.* The radix is 8 for 2^7, with varints of up to three bytes, so that a value has one, two or too many;
  limits (32, 4, 65536) are 2, at values around which sums fall on either side. Two ticks let evidence be of two moments or too old, two events let a
  process change between the listing, the visit and the reading.

`CHECK_DEADLOCK FALSE` appears only where the programs end: in the runs of `Relock` and `LockStore` when their command bound is used up, in the others when
every process has ended. Every property of a passing run has a mutant in `PROJECT.json`: a change to one mapped definition of the kind a bug
would make, under which TLC finds the property violated in that same run. The mutated forms stand before the
definitions they replace and are used by nothing else.

## Fairness

`WF` of a program's own steps says that a running program takes its next step unless it is killed: `RuntimeClosure`, `SourcePlan` and `Relock` for the
single loop they are, `ProbeRoot` and `OciAcquire` for each run, `Isolation` for the driver, the shell and the command,
`Preflight` for the gate, the launcher, the holder and the probe inside. Starts, crashes, interrupts, kills, operators and other faults are
never fair, and nothing is assumed about the order in which packages are popped. That the command of the launcher ends by itself is an assumption about the
action, not about the code: the launcher waits for as long as it takes. `BuildGraph`, `LockStore`, `RuntimeImages`, `Provision`, `Repodata`, `Admission` and
`SmokeTest` state safety only: their runs may be killed anywhere, and whether an operator retries is up to him.

## The proofs

`tlapm` checks eight modules; the constants are arbitrary sets that satisfy the named assumptions of the modules.

- `SolveProofs!TypeCorrect`: `ClosureSpec => []TypeOK`, for any repository and any expressions. `EffectTypes` and `BatchTypes` say what an effect and a whole
  pass may produce, `RequireType` that reading any expression yields an effect. `require` and its helpers descend the tree, and a recursive function is defined only if
  a function satisfying its equation exists: `RecursionExists` shows that one does, from solutions on the texts shorter than `n` (`SolutionsExist`) of which any two agree
  (`SolutionsAgree`), by the least `n` for which the claim fails (`LeastOf`). `TreeInduction` does the same for a set of expressions. `TreeAssumption`
  asks for what the parser ensures: known kinds, operands that are shorter texts, finitely many, and none missing but an `else`.
- `SolveProofs!PlainRequiresSettled`: `ClosureSpec => []PlainSettled`. When the function returns, every plain
  requirement of every member is provided, overridden, dismissed as the code dismisses it, or reported: a failure under that member, an ambiguity as the one problem of the
  decision, the member being among its askers. `PlainSettled` says
  nothing until the end, so it is not inductive; `PlainInv` says that a requirement of a package already read
  is settled *or its provider is still in the worklist or its choice is still open* (`PlainOpen`). `OpenGrows` shows that
  arrivals never unsettle one, `PopOpens` that reading a package settles or opens each of its requirements,
  `ClosingSettles` that a choice is closed only when a candidate is there. `frontier = {}` from `SettleUnless` on, and the report of every open
  choice, turn `PlainInv` into `PlainSettled` (`PlainInvSettles`).
- `SolveProofs!TameRequiresHold` and `TameClosureIsSound`: `ClosureSpec => [](AllTame => ClosureSound)`, and for one requirement at a time whatever stands beside it. `ClosureSound`
  (a requirement holds, or is reported as above) is not true of every expression, because the code departs from rpm for some (next section). `Tame` names those it does settle, by their shape and all the way down: names and
  conjunctions of them, unreadable texts, `or` and `with` of names, ranges, `without`, conditions without `else` whose condition can only become true (`Sure`), an `unless` whose request is not ambiguous, no
  candidate named like a capability of something else (`OwnNames`). Every input of the run `closure` is of this kind. What a requirement is waiting for is spread over four
  lists and over the operands, so the invariant is `Handed`: a requirement waits, is reported, has an open choice that *any* candidate closes (`Offered`, `Closing`), holds already,
  or its operands are handed. `Tame`, `Sure` and `Handed` are the greatest such sets, so that they need no recursion and a proof that something is handed is
  one by coinduction (`HandedFolds`). `ReadHands` shows that every reading hands its requirement, kind by kind (`ReadCap`, `ReadOr`, `ReadRange`, `ReadAmong`), `HandKeeps` that
  it stays handed when the lists grow, `RereadKeeps` and `CloseKeeps` that what leaves a list is handed anew. `WaitInv` says that what waits after a round has deferred *in that round*, which at the end
  makes it true (`DeferredHolds`); `OpenInv`, with `QuietLast`, that the last pass opens no choice. `HandEnds` puts them together by `TreeInduction`.
- `SolveProofs!GrowingClosureIsLeast`: `ClosureSpec => []GrowingOrderIndependent`. The worklist may be popped in any order, and conditions and choices are read against a set that is
  not finished; yet where every requirement is `Rising`, the closure returned is the least closed set, hence the same for every order. `Rising` excludes what would make
  an early reading differ from a late one, and none of the exclusions can be dropped (for each, a repository of four packages refutes the property without it): an `unless`, an `else`, a negation in a condition, an `or` of names that a package other than the one
  pulled in could answer (`OneAnswer`), an override of an `or` or a range whose choice may have been settled by then. Such a text never withdraws what it asked
  (`TruthGrows`, `RisingReads`), and the crux is `DemandTurns`: what it demands of a set `S` is what it demanded of any part `R` of `S`, and what it then left waiting. So a set
  satisfies the readings made so far whenever they were made (`MemberTurns`, `CallerTurns`, `WaitTurns`), and the invariant `Grown` holds: every closed set contains the worklist and meets
  what waits (`Bound`), and every set that does is closed as far as the loop has come (`Given`). At the end what waits asks for nothing (`WaitInv`), so the closure meets
  it too: it is closed, and inside every closed set (`GrownEnds`).
- `SolveProofs` on `Repodata`, for any repositories, snapshots, builds, versions, number of runs, pushes by upstream and kills. `VersionsCompared`: for any two versions
  `rpmvercmp` answers 1, 0 or -1 as the first is newer, equal or older in an order that is stated from the first place where the segments differ (`FirstDifference`), not from the loop.
  `EvrOrder` makes of it a strict and total order of builds, so that "newest" has one meaning.
  `SolveReadsTheNewestOfWhole` (`[]NewestOfWhole`) rests on `RefreshInv` (a whole file is a snapshot upstream served, whoever was killed where; a repository passed over may be
  left out) and `MergeInv` (what is merged is the newest of each package in the whole files read *so far*, which entries arriving in any order keep: `ConsiderKeeps`, `LayerKeeps`).
  `SolveAnswersHonestly` (`[]CapabilityHonest`) and `SolveUniversesAgree` (`[]UniversesAgree`) add `UniverseInv`: the universes are those of the merged
  lists, corrected by at most one probe. Which build gets a plain name is decided by pairwise comparison; `BeatsOrder` and `OnlyWinner` show that it has one winner, `SameWinner` that the larger universe has the same.
  `SolveAccountsForThePayload` (`[]PayloadAccounted`) adds `SelectInv` and `LockInv`: the build list is that of the image's sources, and a written lock's policy stays the one its payload gives.
  `SolveLockIsDependable` (`[]Dependable`) is `LockHolds` without two clauses (below), with `AskInv`: every capability that is asked for is a known one, and the image is what
  its closure gave. The closures of `Repodata` are `runtime_closure` on plain capabilities, in rounds: `RoundsExist` defines them without recursion over data, `RoundsEnd` shows by the least
  counterexample that some round adds nothing, `ClosureSettles` that what is then unanswered is reported. `ReposAssumption` and `WorldAssumption` say what repodata and lockfile
  arguments look like: finite lists, versions and sources by name, architectures that have a place in string order, files of the first run fetched whole or torn. All invariants were checked by TLC on the instance of `repodata` first.
- `LockProofs!TargetGraphDescends`: `Spec => []Descends`, for any packages, tables, variants, base, host choices and number
  of stages: the targets form no cycle. `OrderInv` says that a component is a class of mutual reachability and that what
  it depends on is placed before it; `PlanInv` that the staged entries are those of `stage_cycle` for the components in
  place. `ComponentClass` and `EmitKeepsOrder` carry the first, `TwoMakeACycle` and `CallFacts` the second, `OverlayFacts` lists where an overlay can
  come from, and `Descent` goes through those cases.
  `EveryBuildIsDelivered` (`RoutedBasesAreBuilt => (Spec => []Delivered)`) and `WhatShipsIsSelfHosted` (`Stages > 1 => (Spec => []ShipsSelfHosted)`) follow
  from the same invariant: `StagedFacts` and `ShippingStage` say which stages of a package there are and that exactly the last ships,
  `VariantFacts` which build a requirement is routed to, `OverlayOf` that a call has at most one overlay for a binary, and `BuiltDepFacts` that a dependency
  on a built package is an overlay. The first assumes that the base of every variant is built, which `solve.py` does not ensure (:1615, see
  the next section); the second leaves out `--stages 1`, where the only stage is built against the seed and ships.
- `LockProofs!ComponentsAsPromised`: `SSpec => Promise!CInit /\ [][Promise!CNext]_<<graph, comps>>`, the safety part of `Condenses`, for any graph on any finite set of packages: Tarjan's algorithm as
  the code has it, with its own call stack, emits what `Condensation` promises. `TarjanInv` says that what was seen is in a component or on the stack, in the order of the numbers, and that a component needs nothing outside those already
  out (`Stacked`); that a call reaches all that was stacked since, and everything stacked reaches a call no younger than itself (`Connected`); and what the links are worth (`Linked`): a call's link is the number of a stacked package it reaches, and
  no greater than that of any stacked package which the call's own stretch of the stack was seen to require. The last part is what is not inductive without the others: when a call that is not its own root returns, the package its link names is on the stack and
  so reaches an older call (`ReturnKeeps`). `Segment` turns all of it, for a call that is its own root and has no neighbour left, into "what lies above it is a class, and all it requires is out"; `Cut` reads that off the slice of the
  stack. There is one lemma per step of the loop. `NothingLeftOut` adds that after the last step no package is missing, `PlanImplementsBuildGraph` (`SSpec => Spec`) that the planner with the
  algorithm in it does no more than `BuildGraph`, so that `PlannedTargetsHold` states the three properties of the targets for it, as the run checks them.
- `RelockProofs`: `RunsSayWhatIsSo` (`[]SaysWhatIsSo`) and `AnswersAreKept` (`[]NothingForgotten`), for any packages, capabilities and worlds, any number of runs, and a kill or a
  failing probe anywhere. `SaysWhatIsSo` speaks of runs that ended and `NothingForgotten` of files, so neither says what a run under way relies on. `RelockInv` does: every report in a
  file that parses holds the first rounds of its spec, all of them if nothing is unmet (`Honest`), and the reports include all the answers of one pass over some lock (`Fresh`; both part of
  `Steady`); from the solve to
  the next pass the lock is the solution of the probe file and the targets come from that lock (`InStep`); a final solve repeats one that had converged (`AtLast`); a state
  in the loop's memory is that of a lock whose pass the present reports include (`Remembers`). `Answer` and `AnswerGrows` say that a probe run in a larger buildroot answers no less. The two ends of the loop are the hard part: `AllMet` shows
  that with nothing unmet every package has its full report, `Stuck` that after a pass from a lock whose state comes back a further pass adds nothing. Both find, of the packages
  that do not build, one that builds on none of the others, and so was probed; it exists by the last conjunct of `WorldsAssumption` (no package needs itself built, directly or round about).
  `FilesAssumption` says that a torn or missing file parses as nothing. There is one lemma per action.
- `LockProofs`, on `StoreSpec`: `TypeCorrect`, `EncodingsNeverDisagree` (`[]EncodingsAgree`), `LockIsKept` (`KeepsALock`) and `SuccessMeansConsistent`
  (`[]SuccessIsConsistent`), for any set of contents and any number of commands. None of the three says enough about a command under way:
  `LockInv` adds, step by step, which encoding is the only one, what the command has read of it and what it will write, so
  that a kill before the unlink of a conversion is seen to leave the same content twice and a kill anywhere else a single
  lock. A refresh writes in place and may leave a torn lock; `KeepsALock` excepts it, as the code does.
- `SmokeTestProofs`: `TypeCorrect` (`[]TypeOK`) and `OnlyOwnFilesRemoved` (`RemovesOnlyItsOwn`), for any number of harnesses, checkouts, signals and operator's
  files, any plan and any inodes. Cleanup compares inodes and inodes are reused, so what has to be invariant is `OwnInv`: until a
  run has cleaned a side, the inode it recorded there is in use, under the temporary name or the published one, and was last
  written by that run. `LeastFree` and `FreeFacts` say that a new file takes an inode nobody uses, `OthersOwn` that a step which keeps the
  inodes in use and the files of others disturbs no other run; then there is one lemma per step of the script. It rests on an operator who
  does not remove the harness's file: see the last item of the next section.
  `NothingIsLeft` (`[]LeavesNothing`) and `OwnSettingsInPlace` (`[]RunsUnderOwnConfig`) follow from `OwnInv` and a second
  invariant on a run of which no cleanup step failed and no signal was lost (`Lucky`). `Serving` says at which steps it can have a command or
  daemons, and that both files are published by then: with the daemons of a side killed before its file is taken away, buck never outlives its settings.
  `Accounted` says that a temporary name is known to the cleanup, or about to be (the window before `NameTemp`), and that a published file
  of the run is the inode it recorded, until the cleanup of that side is over. `TidyStep` shows that a step of one harness leaves the others' accounts alone.
- `ProvisionProofs`, under one data root (`OneRoot`; see the next section for two): `ReadyHolds` (`[]ReadyIsWhole`), `FinalHolds` (`PublishedIsFinal`) and
  `ServesHolds` (`[]ServesOnlyComplete`), for any number of images, saved archives, forced imports, requests and topologies. `ImageInv` says what a run has
  behind it at each step: an archive with provenance is the one named (`Published`), images before the current one are imported and their records cleared
  (`Behind`), a discard happens only where there is no provenance (`AtImage`, `AtRuntime`), and a runtime with provenance was built from those images
  (`RuntimePublished`). `ServesOnlyComplete` says nothing of a container at rest, which a start would bring up with whatever is enabled; `Vouched` does:
  an identity is there only with what it vouches for, the unit is enabled only under an identity. `Installing` says what a deployment has put in place at each step *if the
  container is still there*, since the operator may remove it; `Locked` that no image run moves while a deployment goes on. There is one lemma per step or group of steps.
  `RefusalsHold` (`[]RefusedOnlyWhenChanged`) and `OutcomesHold` (`DeployOutcomeHolds`) need what those leave out, the intent records: `Recorded` says that whatever lies without its
  provenance is under a record of the very request that made it (`ArchiveRecord`, `ImageRecord`, `RuntimeRecord`), so that an identical retry recognises it; `UnderWay` what a run has in
  its hands, `Because` why it ended, `Answering` the same of a deployment. `InvocationAssumption` asks that requests have the shape option parsing gives them.

- `PreflightProofs`: `NothingEntersUnmapped` (`[]MappedBeforeEntry`), `NoProcessLeft` (`[]NothingOutlives`, the launcher's part of
  `LeavesNothingUnsaid`) and `OnlySoundWorkersPass` (`[]PassProves`), for any hosts, workers, owners and number of faults. The launcher's own properties say nothing of the pipes;
  `LauncherInv` does: before the shell is started nothing has happened (`Unstarted`); a shell that lives holds the ready pipe, so an empty read means there
  is none, and the byte on the other pipe is written when the maps are in or to nobody (`MapsFirst`); under bubblewrap the shell is never let go and
  the command is the driver's own (`HeldUnderBwrap`). `PreflightInv` says what each recorded success stands for while nothing was raised (`ChecksHold`,
  `Decided`), that the sandbox came back from a call under bubblewrap (`SandboxReturned`), what the files say (`ProbeFound`) and that a clean exit keeps all of it
  (`ProofKept`). `DriverKeeps`, `OthersKeep`, `PreflightKeeps`, `ProbeKeeps` and `RestKeeps` go through the steps.
  `NothingLeftUnsaid` (`[]LeavesNothingUnsaid`) adds that the tree is removed by the shell, which is waited for (`RemovalInShell`), and that between the two places that put something under
  scratch there is nothing or a failure that says so (`NothingUnsaid`). `SoundWorkersPass` (`[]SoundWorkerPasses`) is the converse of `PassProves`: `AllGoesWell` follows a preflight of a sound
  worker in which nothing fails, through both calls of the launcher (`SandboxRuns`, `RemovalRuns`), and `ProbeSucceeds` does the arithmetic of the ranges. `PreflightAssumption` gives the ranges and the
  owners their types and asks for at least one needed id and for the four tools the launcher runs among the required ones.
- `ProbeRootProofs`: `TypesHold` (`[]TypeOK`), `MarkerHolds` (`[]MarkerMeansWhole`) and `ReportsHold` (`[]ReportedWhole`), for any rootfs, links, candidates and ELF files, any number of runs at
  one destination, any faults and operator's acts. `PlaceInv` says at each step what of the destination is the run's own: it knows that it made the tree (`Knows`); with no operator
  and outside the two windows the tree stands until the rollback removes it, and the manifest only from the link to the rollback's first step (`Holds`); a run that ended leaves both or neither
  (`Leaves`). `CopyInv` follows the copy: a chain under way still leads on from what it was asked for (`Leads`, `PythonIn`), every ELF file in the tree is on the work list, and of each one read the interpreter and the
  libraries are there or still owed (`Settled`, `ElvesIn`), so an empty work list is a whole tree (`WholeAtFreeze`). `ProbeRootAssumption` asks that links and candidates lead to paths
  and that a mount point which is in the image is a directory.
- `OciAcquireProofs`: `OnlyTrackedArchives` (`[]PublishedIsTracked`), `PublishedTogether` (`[]WholeUnlessCut`) and `AdmittedArchivesArePinned`
  (`[]AdmittedIsPinned`), for any images, registries, number of runs, faults and foreign acts. `OInv` says how many archives a run holds at each step and that each is the tracked one
  (`Holding`), and, until somebody was stopped between two moves or somebody else acted, that a moving run's earlier archives are in place (`InPlace`).
  `PositionMatches`, `SelectedChild` and `AdmittedMeansPinned` are about the validator alone: the position it finds is that of the tracked child, and the
  archive's root leads SDME there. `OciAssumption` asks that documents have the shape the parser enforces.

Checked by TLC only:

- All liveness (out of the prover's reach): the fairness in `Condenses`, and that closures, relocks, probe roots and preflights end.
- `ClosureSound` for expressions outside `Tame`: there the code departs, as the next section says.
- Of `LockHolds`, `ConsumersFollow`, which speaks of a variant whose version is in the merged lists (an older build in the same repository is dropped from them, so what is true in
  general needs a list of hypotheses about the variants), and `PayloadSettles` where an override of the release names a package that only a build tag has
  (`OverridesInRelease`): that override answers in the closure, and `pin_binary` finds nothing to pin.
- `Admission`, whose properties compare what the helper decodes with what a service encoded: both are recursive over bytes, and their round trip is an induction over data.

## Where the code departs from what is said of it

One departure is a run of its own, `preflight_production`: the preflight's sandbox command names paths of the host that the launcher refuses
(`PROJECT.json`, findings). The others were met while modelling; each is excluded in a model by name or by the inputs given, as said here.

Solver:

- `runtime_closure` (`depgraph.py`). An `else` read early is not read again when its condition turns true (:978, against the fixed point the docstring at :715 promises).
  The last `unless` pass can append a choice that a member already settles; it is reported as unsettled. `((a and b) or v)` is
  dismissed by `a` alone (:904), and an overridden `or` (:1069) depends on order. A choice is dismissed by a member that provides a capability of a candidate's
  name, related or not. The inputs of `MCRuntimeClosure` contain none of these; `PlainSettled` states the dismissal the code makes.
- `solve.py`. A variant whose base package is not built is emitted (:1615) without what `depgraph.py:1147` expects of it, and its consumers are routed to nothing; the inputs of
  `MCBuildGraph` build the base of a variant. `merge_packages` keeps "Every build seen for a key" (:326), but only the newest
  of each repository, so a variant cannot name another one.
  Releases that share a repodata directory and differ in architectures read each other's files. What an rpm that is routed to a variant requires
  is not walked, so `LockHolds` speaks of buildroots without routed rpms.
  An override of the release that names a package of a build tag alone answers in the image's closure, and is pinned as `unresolved` (:1550) with no problem reported.
- `relock.py`. When a recorded probe file is gone, :221 says "re-run with --probe to regenerate it", and that run stops at the same place. After a crash inside `write_probe_file`, `previous_packages` treats the torn file as
  empty and would recover, but `read_probe` (`solve.py:1078`) fails on it first, so every run stops until the file is restored. The second solve of a refresh
  reads what is on disk (:472–479), which the comment above calls what the first one synced: it is another file where two lie in a directory whose newest is "unchanged"
  (`sync_repo` returns before it removes the stale one), or where an optional repository could not be read, for whatever reason (:170). `NewestOfWhole` asks of either
  solve that what it reads is whole and was served, not that both read the same.
- Lock commands. A command killed between writing and renaming leaves its temporary file (`_lockfile.py:217`), which a directory listing (`lockfile.py:118`)
  does not expect. `rpm_relock.py --output` with the other extension creates the second encoding that `_lockfile.py` says must not exist. Two commands at once
  are excluded by nothing (`_lockfile.py:232`), so a `convert` can unlink what another has just written; `LockStore` runs them one after the other.
- `deb_lock.py` (not modelled) appends a binary once for each source set that needs it (:342–368), so two sets that share a package give an entry twice, which
  `defs/deb_family.bzl` refuses; and without a source set named `live` its last message raises `KeyError` after the lock is written.

Hosts:

- `_isolation.py`. An empty read from the shell is answered by writing to its pipe, which has no reader by then: `BrokenPipeError` (:587) where the comment at :583
  promises the shell's own report. `Isolation` takes either as a failed call. An exception while `Popen` returns, or inside the `finally` that closes the pipes and
  reaps the holder (:301–307), leaves that undone: the holder may stay behind. `Cut` is that step, and `NothingOutlives` excepts it by name (`driver.result = "cut"`).
- `prepare_worker_probe_root.py`. Between creating the tree or the manifest and the flag that says so (two windows), an exception leaves it behind; `MarkerMeansWhole` names them (`window`).
- `oci_acquire.py`. After a kill between two moves every retry is refused until the lone archive is removed by hand; two runs that both saw an empty directory
  replace each other's archives, with the same bytes.
- `sdme-provision.sh`. Records and lock are per `--data-root` (:2005), filesystem names are per host. With
  `Roots = {d1, d2}`, `Images = 1`, `Forced = {}`, `Saves = {s1}`, `PublishedIsFinal` fails: a run killed under one root and
  retried after another root completed the same name takes the published filesystem back.
  An apply to a whole deployment rewrites its environment file in place (:2841–2847) while its service may be enabled; started in between, NativeLink comes up on half of
  it. `ServesOnlyComplete` asks that the environment was written once (`Written`), so it excepts a rewrite under way.
- `check_deployment.py`. A path over which a second file system is mounted passes `storage.identity` (:185), and evidence whose `observed_at` is `NaN` never ages
  (:615–624): `StageZeroProves` excludes both by name. Two things end the program with a traceback and without a verdict, which `AdmittedIsSo` does not take for
  one: a mount point that is not UTF-8 (:193–197), and a health service that does not speak HTTP or a URL `http.client` refuses (`BadStatusLine` and `InvalidURL` are neither `OSError` nor
  `ValueError`, so they pass :363 and :112). A process that ends while its descriptors are read gives ESRCH, which is not the `FileNotFoundError` that :759–763 expects and is
  caught only at :1163: the four inotify checks fail and a sound deployment is refused. `SoundIsAdmitted` says so: every other sound deployment is admitted, and one refused for
  this reason fails exactly those four checks. Processes of the user that are not dumpable cannot be read and are not counted. Evidence given both as a file
  and as a command by the environment is refused.
- `reapi_readiness.py` refuses an empty `ReadResponse` (:298–302), which a server may stream; the service of the model sends none.
- `smoke-test.sh`. In three places a signal escapes the handlers: while `mktemp` runs, between `&` and the store of `$!`, and in
  `on_exit` before the second `trap`. `LeavesNothing` names them (`unlucky`); without that exclusion it fails in each. An event directory
  used before makes cleanup refuse its own log (:517) and leave the daemon; the run then fails. The
  operator of the model creates files but does not remove the harness's: with removal, inode reuse (:432) would make
  cleanup remove a file it did not write.

## What is not modelled

- Text: parsing of dependency expressions (the tree is the input), XML, JSON, tar, ELF, Starlark syntax, names, messages, digests (equality of contents).
- Buildroot and rootfs assembly, package builds beyond the probe, images, kernel, signing, upstream and bundle locks: one straight-line
  action each over a fresh directory; what they compute is done by rpm, dpkg, mksquashfs and the like.
- The Debian family: apt computes the closures; its source policy is the one `SourcePolicy` models.
- `relock.py` over several releases in one run, `--fetch-only`, `--dry-run`, `--no-generate`; selectors over several locks, and the index and shards the generator writes.
- Power loss (as against a kill): what was renamed but not synced.
- Read-only commands (`plan` and `status` of the provisioner, `hostcheck.py`), option parsing where it only refuses, and timeouts on external commands.
- Sizes, media types and provenance records of OCI archives; the JSON client, HTTP and TCP behind the stage-zero check (facts of the deployment).
- The conclusions `smoke-test.sh` draws from buck's logs: a command whose evidence is rejected is `EvidenceRejected`.

## Plan

In order of what they add:

1. `Wire` with recursive functions in the place of its recursive operators, for what can be said of one message at a time.
2. `DebLock`: the closure records, the source sets and the lock, with the defects named above fixed or stated.
3. `LockStore` with two commands at once, once something excludes them.
