------------------------------ MODULE Repodata ------------------------------
(***************************************************************************)
(* From upstream's repositories to a lockfile: tools/relock.py brings each *)
(* primary.xml into a directory of the repository, tools/solve.py reads    *)
(* them, merges them, closes the images and the buildroots and pins what   *)
(* they contain.  With a probe pass the same release is solved twice, the  *)
(* second time from the directories alone.                                 *)
(*                                                                         *)
(* Upstream serves one snapshot of a repository after another; a file is   *)
(* named after its content, so its name is the snapshot it holds, and it   *)
(* is written in place: until then it is torn.  The order of the entries   *)
(* in a primary.xml is upstream's and any order may be met.  What the      *)
(* probe finds is part of the world; how it is found is Relock.            *)
(***************************************************************************)
EXTENDS Universe, SourcePolicy

CONSTANTS Worlds,    \* what upstream serves and what is asked of the solve
          Repos,     \* sequence: the repositories in the order they are layered
          RepoKind,  \* each one's kind: "binary", "buildroot" or "source"
          Optional   \* those that may not exist yet

VARIABLES world,     \* never assigned
          serving,   \* the snapshot upstream serves
          cache,     \* repository -> its files, <<snapshot, whole>>
          run,       \* [phase, offline, pass, at, want, faults]
          paths,     \* repository -> the snapshot this solve reads, or 0
          unread,    \* entries of the current primary.xml still to come
          best,      \* the newest of each key in it so far
          merged,    \* kind -> index
          candidates, \* kind -> the best of each repository of that kind
          universe, compose,
          images,    \* the image's payload and its problems
          build,     \* the sources on the build list
          lock,      \* the lockfile last written
          runs

syncVars  == <<cache, serving>>
mergeVars == <<unread, best, merged, candidates>>
solveVars == <<universe, compose, images, build>>
vars == <<world, run, paths, syncVars, mergeVars, solveVars, lock, runs>>

(***************************************************************************)
(* A world: upstream[r][s] is the set of builds of snapshot s of r; probe  *)
(* what rpmspec says each source makes here, asks what a probed one        *)
(* requires; roots the image; select that the image's sources are built,   *)
(* but for prebuilt; exceptions the approved ones; explicit the build      *)
(* list; implicit the group of every buildroot; seeds what else the seed   *)
(* holds; variants at most one; overrides and image_overrides, naming      *)
(* packages some repository has; cache and offline what a run finds on     *)
(* disk and how it may be started.  Bounds: faults, how many things go     *)
(* wrong; runs, how often the tool is run.                                 *)
(***************************************************************************)
Kinds == {"binary", "buildroot", "source"}
Builds(r, s) == world.upstream[r][s]
Snapshots(r) == DOMAIN world.upstream[r]
Nobody == [k \in {} |-> 0]
NoPaths == [i \in DOMAIN Repos |-> 0]
Here == Repos[run.at]

ASSUME ReposAssumption ==
  /\ RepoKind \in [{Repos[i] : i \in DOMAIN Repos} -> Kinds]
  /\ FallbackRepos = {r \in DOMAIN RepoKind : RepoKind[r] = "buildroot"}
  /\ \A w \in Worlds, i \in DOMAIN Repos :
        \A s \in DOMAIN w.upstream[Repos[i]] :
           \A p \in w.upstream[Repos[i]][s] : p.repo = Repos[i]

\* Every architecture has its place in string order, every entry of a
\* primary.xml its version and, by name, a source, which no variant is named
\* after; the files of the first run were fetched whole or are torn.
ASSUME WorldAssumption ==
  /\ Repos # <<>> /\ Repos \in Seq(DOMAIN RepoKind)
  /\ \A i, j \in DOMAIN Arches : Arches[i] = Arches[j] => i = j
  /\ DOMAIN Arches \subseteq Nat
  /\ \A x \in Worlds :
       /\ x.faults \in Nat
       /\ x.cache \in [DOMAIN Repos -> SUBSET ((Nat \ {0}) \X BOOLEAN)]
       /\ \A i \in DOMAIN Repos :
            /\ \A f \in x.cache[i] : f[2] => f[1] = 1 /\ 1 \in DOMAIN x.upstream[Repos[i]]
            /\ DOMAIN x.upstream[Repos[i]] \subseteq Nat \ {0}
            /\ \A s \in DOMAIN x.upstream[Repos[i]] :
                 /\ IsFiniteSet(x.upstream[Repos[i]][s])
                 /\ \A p \in x.upstream[Repos[i]][s] :
                      /\ p.evr \in Triples
                      /\ \E k \in DOMAIN Arches : Arches[k] = p.arch
                      /\ p.src # NoSource /\ \A v \in x.variants : v.name # p.src
                      /\ p.requires \subseteq Caps
       /\ x.implicit \subseteq Caps /\ DOMAIN x.probe \subseteq DOMAIN x.asks
       /\ \A s \in DOMAIN x.asks : x.asks[s] \subseteq Caps

At(phase) == run.phase = phase
GoTo(phase) == [run EXCEPT !.phase = phase]
Idle == [run EXCEPT !.phase = "idle"]

Init ==
  /\ world \in Worlds
  /\ serving = [i \in DOMAIN Repos |-> 1]
  /\ cache = world.cache
  /\ run = [phase |-> "idle", offline |-> FALSE, pass |-> 1, at |-> 1,
            want |-> 0, faults |-> world.faults]
  /\ paths = NoPaths
  /\ unread = {} /\ best = Nobody
  /\ merged = [k \in Kinds |-> Nobody] /\ candidates = [k \in Kinds |-> {}]
  /\ universe = Nobody /\ compose = Nobody /\ images = Nobody /\ build = {}
  /\ lock = Nobody
  /\ runs = 0

Start(offline) ==
  /\ At("idle") /\ runs < world.runs /\ offline \in world.offline
  /\ run' = [run EXCEPT !.phase = "sync", !.offline = offline, !.pass = 1,
                        !.at = 1, !.want = 0]
  /\ paths' = NoPaths
  /\ merged' = [k \in Kinds |-> Nobody] /\ candidates' = [k \in Kinds |-> {}]
  /\ runs' = runs + 1
  /\ UNCHANGED <<world, syncVars, unread, best, solveVars, lock>>

-----------------------------------------------------------------------------
(* repo_list and sync_repo. *)

\* After the last repository comes the solve.
Next_repo == IF run.at < Len(Repos)
             THEN [run EXCEPT !.phase = "sync", !.at = run.at + 1, !.want = 0]
             ELSE [run EXCEPT !.phase = "arguments", !.at = 1, !.want = 0]

Take(snapshot) == /\ paths' = [paths EXCEPT ![run.at] = snapshot]
                  /\ run' = Next_repo

\* Without a file an optional repository is left out, any other is fatal.
LeaveOut == IF Here \in Optional THEN run' = Next_repo ELSE run' = Idle

Fault == run.faults > 0

\* repomd.xml: whatever urllib raises, the repository is taken to be
\* unpublished when it may be.
ReadRepomd ==
  /\ At("sync") /\ ~run.offline /\ run.pass = 1
  /\ \/ /\ serving[run.at] \in Snapshots(Here)
        /\ run' = [run EXCEPT !.phase = "compare", !.want = serving[run.at]]
     \/ /\ serving[run.at] \notin Snapshots(Here)
        /\ LeaveOut
     \/ /\ Fault
        /\ IF Here \in Optional
           THEN run' = [Next_repo EXCEPT !.faults = run.faults - 1]
           ELSE run' = [Idle EXCEPT !.faults = run.faults - 1]
  /\ UNCHANGED <<world, paths, syncVars, mergeVars, solveVars, lock, runs>>

Compare ==
  /\ At("compare")
  /\ IF <<run.want, TRUE>> \in cache[run.at]
     THEN Take(run.want)
     ELSE run' = GoTo("fetch") /\ UNCHANGED paths
  /\ UNCHANGED <<world, syncVars, mergeVars, solveVars, lock, runs>>

Others(want) == {f \in cache[run.at] : f[1] # want}

\* The blob, then open(path, "wb"): truncated under its final name.
Fetch ==
  /\ At("fetch")
  /\ \/ /\ cache' = [cache EXCEPT ![run.at] = Others(run.want) \cup {<<run.want, FALSE>>}]
        /\ run' = GoTo("write")
     \/ /\ Fault
        /\ run' = [Idle EXCEPT !.faults = run.faults - 1]
        /\ UNCHANGED cache
  /\ UNCHANGED <<world, serving, paths, mergeVars, solveVars, lock, runs>>

Write ==
  /\ At("write")
  /\ cache' = [cache EXCEPT ![run.at] = Others(run.want) \cup {<<run.want, TRUE>>}]
  /\ run' = GoTo("stale")
  /\ UNCHANGED <<world, serving, paths, mergeVars, solveVars, lock, runs>>

RemoveStale ==
  /\ At("stale")
  /\ IF Others(run.want) = {}
     THEN Take(run.want) /\ UNCHANGED cache
     ELSE /\ \E f \in Others(run.want) : cache' = [cache EXCEPT ![run.at] = cache[run.at] \ {f}]
          /\ UNCHANGED <<run, paths>>
  /\ UNCHANGED <<world, serving, mergeVars, solveVars, lock, runs>>

\* local_primary: the first file in the directory, by name.
UseLocal ==
  /\ At("sync")
  /\ run.offline \/ run.pass = 2
  /\ IF cache[run.at] = {}
     THEN LeaveOut /\ UNCHANGED paths
     ELSE \E f \in cache[run.at] : Take(f[1])
  /\ UNCHANGED <<world, syncVars, mergeVars, solveVars, lock, runs>>

\* An upstream push.
Push(i) ==
  /\ run.faults > 0 /\ ~At("idle")
  /\ serving[i] + 1 \in Snapshots(Repos[i])
  /\ serving' = [serving EXCEPT ![i] = serving[i] + 1]
  /\ run' = [run EXCEPT !.faults = run.faults - 1]
  /\ UNCHANGED <<world, cache, paths, mergeVars, solveVars, lock, runs>>

\* Later steps of a run leave nothing behind before the lockfile is written.
Kill ==
  /\ run.faults > 0 /\ run.phase \in {"compare", "fetch", "write", "stale"}
  /\ run' = [Idle EXCEPT !.faults = run.faults - 1]
  /\ UNCHANGED <<world, paths, syncVars, mergeVars, solveVars, lock, runs>>

-----------------------------------------------------------------------------
(* What solve.main refuses before it reads anything; parse_primary and     *)
(* merge_packages.                                                         *)

arguments_fit ==
  /\ world.explicit # {} \/ world.select \/ world.seeds # {}
  /\ world.explicit \cap world.prebuilt = {}
  /\ world.exceptions # {} => world.select

Arguments ==
  /\ At("arguments")
  /\ run' = IF arguments_fit THEN GoTo("open") ELSE Idle
  /\ UNCHANGED <<world, paths, syncVars, mergeVars, solveVars, lock, runs>>

Torn(i) == <<paths[i], TRUE>> \notin cache[i]

NextToRead == IF run.at < Len(Repos) THEN [run EXCEPT !.phase = "open", !.at = run.at + 1]
              ELSE GoTo("combine")

Open ==
  /\ At("open")
  /\ IF paths[run.at] = 0
     THEN run' = NextToRead /\ UNCHANGED <<unread, best>>
     ELSE IF Torn(run.at)
     THEN run' = Idle /\ UNCHANGED <<unread, best>>
     ELSE /\ unread' = Builds(Here, paths[run.at])
          /\ best' = Nobody
          /\ run' = GoTo("read")
  /\ UNCHANGED <<world, paths, syncVars, merged, candidates, solveVars, lock, runs>>

ReadEntry(pkg) ==
  /\ At("read") /\ pkg \in unread
  /\ unread' = unread \ {pkg}
  /\ best' = Consider(best, pkg)
  /\ UNCHANGED <<world, run, paths, syncVars, merged, candidates, solveVars, lock, runs>>

LayerRepo ==
  /\ At("read") /\ unread = {}
  /\ merged' = [merged EXCEPT ![RepoKind[Here]] = Layer(merged[RepoKind[Here]], best)]
  /\ candidates' = [candidates EXCEPT ![RepoKind[Here]] = candidates[RepoKind[Here]] \cup List(best)]
  /\ best' = Nobody
  /\ run' = NextToRead
  /\ UNCHANGED <<world, paths, syncVars, unread, solveVars, lock, runs>>

-----------------------------------------------------------------------------
(* main, from the merged lists to the lockfile. *)

Combine ==
  /\ At("combine")
  /\ universe' = build_universe(merge_fallback_packages(List(merged["binary"]),
                                                        List(merged["buildroot"])),
                                List(merged["source"]))
  /\ compose' = build_universe(List(merged["binary"]), List(merged["source"]))
  /\ run' = GoTo("producers")
  /\ UNCHANGED <<world, paths, syncVars, mergeVars, images, build, lock, runs>>

\* The first solve of a run that probes has no report yet.
Reports == IF world.probing /\ run.pass = 1 THEN Nobody ELSE world.probe

Producers_one ==         \* Mutation: only the combined universe is corrected
  /\ At("producers")
  /\ universe' = apply_probed_producers(universe, Reports)
  /\ run' = GoTo("images")
  /\ UNCHANGED <<world, paths, syncVars, mergeVars, compose, images, build, lock, runs>>

Producers ==
  /\ At("producers")
  /\ universe' = apply_probed_producers(universe, Reports)
  /\ compose' = apply_probed_producers(compose, Reports)
  /\ run' = GoTo("images")
  /\ UNCHANGED <<world, paths, syncVars, mergeVars, images, build, lock, runs>>

\* solve_image_sets: the image's own overrides come before the release's.
Images ==
  /\ At("images")
  /\ LET scoped == Layered(world.overrides, world.image_overrides)
         set == solve_package_set(compose, scoped, world.roots)
     IN images' = [members |-> set.members,
                   problems |-> set.problems \cup validate_overrides(world.image_overrides, compose)]
  /\ run' = IF world.strict /\ images'.problems # {} THEN Idle ELSE GoTo("sources")
  /\ UNCHANGED <<world, paths, syncVars, mergeVars, universe, compose, build, lock, runs>>

Lost == superseded(candidates["binary"], merged["binary"])
          \cup {f \in superseded(candidates["buildroot"], merged["buildroot"]) :
                  Key(f) \notin DOMAIN merged["binary"]}
LostSources == superseded(candidates["source"], merged["source"])

Declared == {v \in world.variants : Declarable(universe, LostSources, v)}

\* source_build_set, then add_source_variants.
Sources ==
  /\ At("sources")
  /\ IF IF world.select THEN ~Derivable(images.members, compose.source_of, world.prebuilt)
        ELSE world.prebuilt # {}
     THEN run' = Idle /\ UNCHANGED <<universe, build>>
     ELSE /\ build' = world.explicit
                \cup (IF world.select
                      THEN source_build_set(images.members, compose.source_of, world.prebuilt)
                      ELSE {})
                \cup {v.name : v \in Declared}
          /\ universe' = IF Declared = {} THEN universe
                         ELSE LET v == CHOOSE x \in Declared : TRUE
                              IN WithSource(universe, v.name,
                                   CHOOSE p \in Older_source(universe, LostSources, v) : TRUE)
          /\ run' = GoTo("solve")
  /\ UNCHANGED <<world, paths, syncVars, mergeVars, compose, images, lock, runs>>

-----------------------------------------------------------------------------
(* solve and emit_lockfile. *)

\* A probed source is asked by its report; every buildroot holds the group.
Asked(src) == world.implicit \cup (IF src \in DOMAIN Reports THEN world.asks[src]
                                   ELSE universe.sources[src].requires)

Closed(caps) == runtime_closure(universe, world.overrides,
                                UNION {Resolved(universe, world.overrides, c) : c \in caps})
Left(caps) == LET S == Closed(caps)
              IN  Unsettled(universe, world.overrides, S, Requires(universe, S) \cup caps)

build_deps(src) == IF src \in DOMAIN universe.sources THEN Closed(Asked(src)) ELSE {}
base_closure == Closed(world.implicit)
seed_set == solve_package_set(universe, world.overrides, world.seeds)

\* What the group of every buildroot asks has to be answered before any closure
\* is there; an ambiguity elsewhere may be settled by the closure.
solve_problems ==
  validate_overrides(world.overrides, universe)
    \cup (UNION {IF s \in DOMAIN universe.sources THEN Left(Asked(s))
                 ELSE {<<"missing-source", s>>} : s \in build})
    \cup Unsettled(universe, world.overrides, {}, world.implicit) \cup Left(world.implicit)
    \cup {<<"variant", v.name>> : v \in world.variants \ Declared}

\* The build a consumer is routed to, where it is routed.
Routes(src, p) == {v \in Declared : src \in v.consumers /\ p \in Routed(universe, Lost, v)}

pin_source(u, p) == IF p \in DOMAIN u.source_of THEN u.source_of[p]
                    ELSE IF p \in DOMAIN u.foreign_of THEN u.foreign_of[p] ELSE NoSource
pin_binary(u, p) ==
  [name |-> p, build |-> u.index[p], source |-> pin_source(u, p), variants |-> {}]

routed_in_name(src, p) ==          \* Mutation: the pin does not move with it
  [pin_binary(universe, p) EXCEPT !.variants = {v.name : v \in Routes(src, p)}]

routed_binary(src, p) ==
  IF Routes(src, p) = {} THEN pin_binary(universe, p)
  ELSE LET v == CHOOSE x \in Routes(src, p) : TRUE
       IN [name |-> p, source |-> pin_source(universe, p), variants |-> {v.name},
           build |-> CHOOSE o \in Carried(Lost, <<p[1], universe.index[p].arch>>, v.evr) : TRUE]

Built(src) == {p \in build_deps(src) : /\ p \in DOMAIN universe.source_of
                                       /\ universe.source_of[p] \in build}

\* What the policy is about: the image with its recorded makers, and the names
\* of the specs that are built.
rpm_source_policy_inputs(payload, packages) ==
  [images    |-> [n \in {"image"} |-> {[package |-> pin.name, source |-> pin.source] : pin \in payload}],
   producers |-> {IF \E v \in world.variants : v.name = s
                  THEN (CHOOSE v \in world.variants : v.name = s).source ELSE s :
                    s \in packages} \ world.prebuilt]

source_policy ==
  IF ~world.select THEN None
  ELSE LET of == rpm_source_policy_inputs({pin_binary(compose, p) : p \in images.members}, build)
       IN  build_source_policy(of.images, of.producers, world.exceptions)

emit_lockfile ==
  [paths    |-> paths,
   policy   |-> source_policy,
   payload  |-> {pin_binary(compose, p) : p \in images.members},
   sources  |-> [s \in build \cap DOMAIN universe.sources |-> universe.sources[s]],
   built    |-> [s \in build |-> {routed_binary(s, p) : p \in Built(s)}],
   seeded   |-> [s \in build |-> {pin_binary(universe, p) : p \in build_deps(s) \ Built(s)}],
   seed     |-> {pin_binary(universe, p) : p \in base_closure \cup seed_set.members
                                             \cup UNION {build_deps(s) : s \in build}},
   problems |-> images.problems \cup solve_problems \cup seed_set.problems]

\* A strict solve with problems writes nothing (a variant that cannot be had
\* is reported after that), nor does one whose image the policy refuses; after
\* the first solve of a probing run comes the probe pass, which does not fetch.
Emit ==
  /\ At("solve")
  /\ IF \/ world.strict /\ \E q \in solve_problems \cup seed_set.problems : q[1] # "variant"
        \/ world.select /\ source_policy = None
     THEN run' = Idle /\ UNCHANGED lock
     ELSE /\ lock' = emit_lockfile
          /\ run' = IF world.probing /\ run.pass = 1
                    THEN [run EXCEPT !.phase = "again", !.pass = 2, !.at = 1]
                    ELSE Idle
  /\ UNCHANGED <<world, paths, syncVars, mergeVars, solveVars, runs>>

\* Nothing but the files on disk is carried into the second solve.
Again ==
  /\ At("again")
  /\ run' = GoTo("sync") /\ paths' = NoPaths
  /\ merged' = [k \in Kinds |-> Nobody] /\ candidates' = [k \in Kinds |-> {}]
  /\ UNCHANGED <<world, syncVars, unread, best, solveVars, lock, runs>>

-----------------------------------------------------------------------------
Sync  == ReadRepomd \/ Compare \/ Fetch \/ Write \/ RemoveStale \/ UseLocal
Parse == Arguments \/ Open \/ (\E pkg \in unread : ReadEntry(pkg)) \/ LayerRepo
Solve == Combine \/ Producers \/ Images \/ Sources \/ Emit \/ Again
Next  == \/ \E offline \in BOOLEAN : Start(offline)
         \/ Sync \/ Parse \/ Solve
         \/ \E i \in DOMAIN Repos : Push(i)
         \/ Kill

Spec == Init /\ [][Next]_vars

-----------------------------------------------------------------------------
\* Every entry of the repositories of a kind that this solve reads.
Served(kind) ==
  UNION {Builds(Repos[i], paths[i]) :
           i \in {j \in DOMAIN Repos : RepoKind[Repos[j]] = kind /\ paths[j] # 0}}

Merged == run.phase \in {"combine", "producers", "images", "sources", "solve", "again"}
Indexed == run.phase \in {"images", "sources", "solve", "again"}

\* The solve reads whole files only, each a snapshot upstream served -- a
\* truncated list is never a shorter one -- and of every package it keeps the
\* newest build by rpm's order of versions, in whatever order entries and
\* repositories come: an update is never lost.
\* (relock.sync_repo, solve.parse_primary, solve.merge_packages)
NewestOfWhole ==
  /\ Merged => \A kind \in Kinds :
       /\ DOMAIN merged[kind] = {Key(p) : p \in Served(kind)}
       /\ \A p \in Served(kind) : ~OlderEvr(merged[kind][Key(p)].evr, p.evr)
  /\ At("combine") => \A i \in DOMAIN Repos :
       /\ paths[i] # 0 => /\ paths[i] <= serving[i]
                          /\ <<paths[i], TRUE>> \in cache[i]
                          /\ \A p \in Builds(Repos[i], paths[i]) :
                               Key(p) \in DOMAIN merged[RepoKind[Repos[i]]]
       /\ paths[i] = 0 => Repos[i] \in Optional

\* A capability is answered by packages that provide it, by none only when no
\* build does, and by a build of another architecture, or one addressed by its
\* architecture, only when no package of the collapsed universe does: the second
\* architecture never makes an answer ambiguous. (solve.build_universe)
CapabilityHonest ==
  Indexed => \A u \in {universe, compose}, c \in Caps :
    /\ \A p \in u.provides[c] : c \in Offers(u.index[p])
    /\ u.provides[c] = {} => \A p \in DOMAIN u.index : c \notin Offers(u.index[p])
    /\ (\E p \in u.provides[c] : Len(p) = 1) => \A p \in u.provides[c] : Len(p) = 1

\* The universe of the images and the one of the buildroots name the same rpm by
\* a package's name and the same source as its maker, whatever the build tags
\* carry: an image holds the packages its buildroots were solved with, and none
\* from a build tag. (solve.merge_fallback_packages, build_universe, main)
UniversesAgree ==
  Indexed => /\ \A p \in DOMAIN compose.index :
                   /\ ~Fallback(compose.index[p])
                   /\ Len(p) = 1 => universe.index[p] = compose.index[p]
             /\ \A p \in DOMAIN compose.source_of \cup DOMAIN universe.source_of :
                   ~Fallback(universe.index[p]) =>
                     /\ p \in DOMAIN compose.source_of \cap DOMAIN universe.source_of
                     /\ universe.source_of[p] = compose.source_of[p]

\* generate.py asks the lockfile itself: an image whose sources are built has a
\* policy, and it is what the recorded packages give.
validate_lock_source_policy ==
  IF lock.policy = None THEN ~world.select
  ELSE LET of == rpm_source_policy_inputs(lock.payload, DOMAIN lock.built)
       IN  validate_source_policy(lock.policy, of.images, of.producers)

\* When the image's sources are built, every rpm of the image comes from a source
\* on the build list that claims to make it, or from one excused as prebuilt.
\* In a lockfile the excuse is an approved exception for that rpm, no exception
\* is for an rpm that is built or absent, and the generator, which judges by the
\* lockfile alone, accepts it. (solve.source_build_set, apply_probed_producers,
\* source_policy.py, generate.validate_lock_source_policy)
PayloadAccounted ==
  /\ At("solve") /\ world.select =>
       \A p \in images.members :
         \E s \in build \cup world.prebuilt : p \in Subpackages(universe, s)
  /\ lock # Nobody => validate_lock_source_policy
  /\ lock # Nobody /\ world.select =>
       \A pin \in lock.payload :
         (pin.build.src \in DOMAIN lock.built) # \E e \in lock.policy.exceptions :
            e.package = pin.name /\ e.source \in {NoSource, pin.build.src}

Settled(pins, p) == \A c \in p.build.requires : \E q \in pins : c \in Offers(q.build)

\* Every rpm a lockfile's repositories hold, of a kind.
Listed(kind) ==
  UNION {Builds(Repos[i], lock.paths[i]) :
           i \in {j \in DOMAIN Repos : RepoKind[Repos[j]] = kind /\ lock.paths[j] # 0}}

\* The sets a lockfile records, each with what its rpms require in it; a
\* buildroot with rpms routed to a variant is left out.
PayloadSettles == \A p \in lock.payload : Settled(lock.payload, p)
SeedSettles    == \A p \in lock.seed : Settled(lock.seed, p)
BuildrootsSettle ==
  \A s \in DOMAIN lock.built :
    LET pins == lock.built[s] \cup lock.seeded[s]
    IN  (\A p \in pins : p.variants = {}) => \A p \in pins : Settled(pins, p)

\* Who consumes a variant is pinned to its version, who does not to the newest.
ConsumersFollow ==
  \A s \in DOMAIN lock.built : \A pin \in lock.built[s], v \in world.variants :
    /\ s \in v.consumers /\ v.name \in DOMAIN lock.sources
    /\ pin.build.src = v.source
    /\ \E p \in Listed("binary") : Key(p) = Key(pin.build) /\ p.evr = v.evr
    => pin.build.evr = v.evr
OthersAreNewest ==
  \A s \in DOMAIN lock.built : \A pin \in lock.built[s] :
    ~(\E v \in world.variants : s \in v.consumers) =>
      \A p \in Listed("binary") : Key(p) = Key(pin.build) => ~OlderEvr(pin.build.evr, p.evr)

\* What a lockfile records holds together. (solve.solve, solve_image_sets,
\* validate_overrides, routed_binary)
\* Without problems, every rpm of the image, the seed, and a buildroot none of whose
\* rpms is routed to a variant, finds what it requires in rpms of the same set
\* that provide it: neither an override nor a build tag makes it look so.
\* The consumers of a declared variant, and no one else, are pinned to the rpms
\* its version was built as, where it is built otherwise than the newest: the
\* recipe and the recorded rpm never disagree.
LockHolds ==
  lock # Nobody =>
    /\ lock.problems = {} => PayloadSettles /\ SeedSettles /\ BuildrootsSettle
    /\ ConsumersFollow /\ OthersAreNewest
=============================================================================
