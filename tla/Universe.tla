------------------------------ MODULE Universe ------------------------------
(***************************************************************************)
(* The pure part of tools/solve.py between the repodata and the lockfile:  *)
(* which build of a package wins, what the winners provide, who makes      *)
(* them, and which sources an image asks for.                              *)
(*                                                                         *)
(* A build is [name, arch, evr, provides, requires, src, repo]; the rpm    *)
(* itself (location, checksum) is the build.  Capabilities are strings, a  *)
(* package's own name among them, without version ranges: reading those is *)
(* BooleanDeps.  A package of the universe is <<name>>, or <<name, arch>>  *)
(* for a build addressed by its architecture (glibc-devel.i686).           *)
(***************************************************************************)
EXTENDS RpmVersions, FiniteSets

CONSTANTS TargetCpu,
          Arches,          \* sequence: the architectures in string order
          Caps,            \* capabilities, package names included
          FallbackRepos    \* the repositories of kind "buildroot"

Key(pkg)      == <<pkg.name, pkg.arch>>
Plain(name)   == <<name>>
arch_qualified(name, arch) == <<name, arch>>
Fallback(pkg) == pkg.repo \in FallbackRepos

ArchFirst(a, b) == \E i, j \in DOMAIN Arches :
                      i < j /\ Arches[i] = a /\ Arches[j] = b

-----------------------------------------------------------------------------
(* merge_packages. *)

Put(best, pkg) == [k \in DOMAIN best \cup {Key(pkg)} |->
                     IF k = Key(pkg) THEN pkg ELSE best[k]]

\* One more entry of a repository, in whatever order its document has them.
Consider(best, pkg) ==
  IF Key(pkg) \notin DOMAIN best \/ package_is_newer(pkg, best[Key(pkg)])
  THEN Put(best, pkg) ELSE best

\* A repository laid over the ones before it.
Layer(index, best) ==
  [k \in DOMAIN index \cup DOMAIN best |->
     IF k \notin DOMAIN best THEN index[k]
     ELSE IF k \notin DOMAIN index \/ package_is_newer(best[k], index[k])
     THEN best[k] ELSE index[k]]

List(index) == {index[k] : k \in DOMAIN index}
superseded(candidates, index) == candidates \ List(index)

merge_fallback_packages(compose, fallback) ==
  compose \cup {f \in fallback : \A p \in compose : Key(p) # Key(f)}

-----------------------------------------------------------------------------
(* build_universe. *)

_arch_rank(arch) == IF arch = TargetCpu THEN 0
                    ELSE IF arch \in {"noarch", "src"} THEN 1 ELSE 2

better_by_rank(a, b) ==            \* Mutation: a fallback competes by arch
  IF _arch_rank(a.arch) # _arch_rank(b.arch)
  THEN _arch_rank(a.arch) < _arch_rank(b.arch)
  ELSE package_is_newer(a, b)

better(a, b) ==
  IF Fallback(a) # Fallback(b) THEN ~Fallback(a)
  ELSE IF _arch_rank(a.arch) # _arch_rank(b.arch)
  THEN _arch_rank(a.arch) < _arch_rank(b.arch)
  ELSE package_is_newer(a, b)

\* The builds are read in (name, arch) order: of equals, the first stays.
Winner(builds) ==
  CHOOSE p \in builds :
    \A o \in builds \ {p} : better(p, o) \/ (~better(o, p) /\ ArchFirst(p.arch, o.arch))

Collapse(pkgs) == [n \in {p.name : p \in pkgs} |->
                     Winner({p \in pkgs : p.name = n})]

\* The builds that lost their plain name and can be asked for by arch.
Foreign(pkgs, won) ==
  {p \in pkgs : /\ _arch_rank(p.arch) = 2 \/ (Fallback(p) /\ won[p.name] # p)
                /\ won[p.name].arch # p.arch}

Offers(pkg) == pkg.provides \cup {pkg.name}

Natives(won, c) == {Plain(n) : n \in {m \in DOMAIN won : c \in Offers(won[m])}}

ForeignOf(foreign, arch, c) ==
  {arch_qualified(p.name, arch) : p \in {f \in foreign : f.arch = arch /\ c \in Offers(f)}}

\* What architecture `arch` answers to c, once the ones before it have.
FirstForeign(foreign, c) ==
  LET with == {i \in DOMAIN Arches : ForeignOf(foreign, Arches[i], c) # {}}
  IN  IF with = {} THEN {}
      ELSE ForeignOf(foreign, Arches[CHOOSE i \in with : \A j \in with : i <= j], c)

\* Mutation: every build of a name contributes its Provides to it.
Answers_losers(pkgs, won, foreign, c) ==
  {Plain(p.name) : p \in {q \in pkgs : c \in Offers(q)}}

Answers(pkgs, won, foreign, c) ==
  IF Natives(won, c) # {} THEN Natives(won, c) ELSE FirstForeign(foreign, c)

Index(won, foreign) ==
  [p \in {Plain(n) : n \in DOMAIN won} \cup {Key(f) : f \in foreign} |->
     IF Len(p) = 1 THEN won[p[1]]
     ELSE CHOOSE f \in foreign : Key(f) = p]

Assemble(pkgs, sources, won, foreign) ==
  [index       |-> Index(won, foreign),
   provides    |-> [c \in Caps |-> Answers(pkgs, won, foreign, c)],
   source_of   |-> [p \in {Plain(n) : n \in DOMAIN won} |-> won[p[1]].src],
   foreign_of  |-> [p \in {Key(f) : f \in foreign} |->
                      (CHOOSE f \in foreign : Key(f) = p).src],
   subpackages |-> [s \in {won[n].src : n \in DOMAIN won} |->
                      {Plain(n) : n \in {m \in DOMAIN won : won[m].src = s}}],
   sources     |-> Collapse(sources)]

build_universe(pkgs, sources) ==
  LET won == Collapse(pkgs)
      foreign == Foreign(pkgs, won)
  IN  Assemble(pkgs, sources, won, foreign)

-----------------------------------------------------------------------------
(* apply_probed_producers: probe maps a source to the names rpmspec says   *)
(* its build produces here; {} is a report that does not say.              *)

Unmade(u, probe) ==
  UNION {u.subpackages[s] \ probe[s] :
           s \in {x \in DOMAIN probe \cap DOMAIN u.subpackages : probe[x] # {}}}

Without(u, gone) ==
  [u EXCEPT
     !.subpackages = [s \in DOMAIN u.subpackages |-> u.subpackages[s] \ gone],
     !.source_of = [p \in DOMAIN u.source_of \ gone |-> u.source_of[p]]]

apply_probed_producers(u, probe) == Without(u, Unmade(u, probe))

-----------------------------------------------------------------------------
(* Closures over Requires, of capabilities without conditions, under the   *)
(* overrides o: capability -> package.  The general case is RuntimeClosure.*)

Layered(o, scoped) == [c \in DOMAIN o \cup DOMAIN scoped |->
                         IF c \in DOMAIN scoped THEN scoped[c] ELSE o[c]]

validate_overrides(o, u) ==
  {<<"bad-override", c>> : c \in {x \in DOMAIN o : o[x] \notin u.provides[x]}}

\* resolve_capability: the override, the only provider, or the one so named.
Resolved(u, o, c) ==
  IF c \in DOMAIN o THEN {o[c]}
  ELSE IF Cardinality(u.provides[c]) = 1 THEN u.provides[c]
  ELSE u.provides[c] \cap {Plain(c)}

Requires(u, S) == UNION {u.index[p].requires : p \in S}

runtime_closure(u, o, roots) ==
  LET grow[k \in 0..Cardinality(DOMAIN u.index)] ==
        IF k = 0 THEN roots
        ELSE grow[k - 1] \cup UNION {Resolved(u, o, c) : c \in Requires(u, grow[k - 1])}
  IN  grow[Cardinality(DOMAIN u.index)]

\* What nothing provides, and the ambiguities no member settles.
Unsettled(u, o, S, caps) ==
  {<<"unresolved", c>> : c \in {x \in caps : Resolved(u, o, x) = {} /\ u.provides[x] \cap S = {}}}

solve_package_set(u, o, roots) ==
  LET S == runtime_closure(u, o, roots \cap DOMAIN u.index)
  IN  [members  |-> S,
       problems |-> {<<"missing-binary", r[1]>> : r \in roots \ DOMAIN u.index}
                      \cup Unsettled(u, o, S, Requires(u, S))]

-----------------------------------------------------------------------------
(* source_build_set, over the payloads of the selected images.             *)

Unattributed(payload, source_of) == payload \ DOMAIN source_of
Makers(payload, source_of) ==
  {source_of[p] : p \in payload \cap DOMAIN source_of}

\* Not refused: every payload has a source, every prebuilt one is a maker.
Derivable(payload, source_of, prebuilt) ==
  /\ Unattributed(payload, source_of) = {}
  /\ prebuilt \subseteq Makers(payload, source_of)

source_build_set(payload, source_of, prebuilt) ==
  Makers(payload, source_of) \ prebuilt

-----------------------------------------------------------------------------
(* add_source_variants: v is [name, source, evr, consumers].               *)

Carried(lost, key, evr) == {p \in lost : Key(p) = key /\ p.evr = evr}

Older_source(u, lost, v) ==
  Carried(lost, <<v.source, u.sources[v.source].arch>>, v.evr)

Declarable(u, lost, v) ==
  v.source \in DOMAIN u.sources /\ Older_source(u, lost, v) # {}

Subpackages(u, source) ==
  IF source \in DOMAIN u.subpackages THEN u.subpackages[source] ELSE {}

\* The outputs that have a build at that version: the others are one rpm.
Routed(u, lost, v) ==
  {p \in Subpackages(u, v.source) :
     /\ p \in DOMAIN u.index
     /\ Carried(lost, <<p[1], u.index[p].arch>>, v.evr) # {}}

WithSource(u, name, build) ==
  [u EXCEPT !.sources = [s \in DOMAIN u.sources \cup {name} |->
                           IF s = name THEN build ELSE u.sources[s]]]
=============================================================================
