----------------------------- MODULE MCRepodata -----------------------------
(* Bounded worlds for Repodata: two binary repositories, a build tag and   *)
(* two source repositories.                                                *)
EXTENDS Repodata

MCRepos    == <<"rel", "upd", "tag", "srel", "supd">>
MCRepoKind == [r \in {"rel", "upd", "tag", "srel", "supd"} |->
                 CASE r \in {"rel", "upd"} -> "binary"
                   [] r = "tag" -> "buildroot" [] OTHER -> "source"]
MCFallback == {"tag"}
MCOptional == {"upd", "supd"}
MCArches   == <<"i686", "noarch", "src", "x86_64">>
MCCaps     == {"p", "q", "b", "lib64", "lib32", "old", "tool", "devel", "d"}

Evr(epoch, version, release) == [epoch |-> epoch, version |-> version, release |-> release]
One == <<Digits(1)>>
Version(n) == Evr(0, <<Digits(n)>>, One)

\* 1, 1~a, 1^a, 1.1, 1.a, 10, 1-2 and 1:1~a.
Evrs ==
  LET versions == {One, <<Digits(1), Tilde, Letters(1)>>, <<Digits(1), Caret, Letters(1)>>,
                   <<Digits(1), Digits(1)>>, <<Digits(1), Letters(1)>>, <<Digits(10)>>}
  IN  {Evr(0, v, One) : v \in versions}
        \cup {Evr(0, One, <<Digits(2)>>), Evr(1, <<Digits(1), Tilde, Letters(1)>>, One)}

Rpm(name, arch, evr, provides, requires, src, repo) ==
  [name |-> name, arch |-> arch, evr |-> evr, provides |-> provides,
   requires |-> requires, src |-> src, repo |-> repo]
Srpm(name, evr, requires, repo) == Rpm(name, "src", evr, {}, requires, name, repo)

\* p is a library, "old" what only its first version provides; q a tool.
P(arch, n, repo) ==
  Rpm("p", arch, Version(n),
      {IF arch = "i686" THEN "lib32" ELSE "lib64"} \cup (IF n = 1 THEN {"old"} ELSE {}),
      IF n = 3 THEN {"devel"} ELSE {}, "s", repo)
Q(arch, n, repo) == Rpm("q", arch, Version(n), {"tool"}, {"lib64"}, "s", repo)
B(repo) == Rpm("b", "x86_64", Version(3), {"devel", "tool"}, {"lib32"}, "w", repo)

Srpms == {Srpm("s", Version(1), {}, "srel"), Srpm("t", Version(1), {"lib64", "tool", "lib32"}, "srel")}

\* One snapshot of each repository.
Serves(rel, upd, tag, supd) ==
  [r \in {"rel", "upd", "tag", "srel", "supd"} |->
     CASE r = "rel" -> <<rel>> [] r = "upd" -> <<upd>> [] r = "tag" -> <<tag>>
       [] r = "srel" -> <<Srpms>> [] OTHER -> <<supd>>]

NoProbe == [s \in {} |-> {}]
NoOverride == [c \in {} |-> <<"p">>]
Pick(c, name) == [x \in {c} |-> <<name>>]
Whole == [i \in 1..5 |-> {<<1, TRUE>>}]

World(upstream, probe, select, prebuilt, variants, roots) ==
  [upstream |-> upstream, probe |-> probe, asks |-> [s \in {"s", "t"} |-> {"tool", "lib32"}],
   roots |-> roots, select |-> select, prebuilt |-> prebuilt, explicit |-> {"t"},
   exceptions |-> {}, seeds |-> {},
   variants |-> variants, overrides |-> NoOverride, image_overrides |-> NoOverride,
   implicit |-> {}, strict |-> FALSE, probing |-> FALSE,
   cache |-> Whole, offline |-> {TRUE}, faults |-> 0, runs |-> 1]

\* Two builds in one repository and a third above them, of any versions.
MergeWorlds ==
  {World(Serves({Rpm("p", "x86_64", a, {"lib64"}, {}, "s", "rel"),
                 Rpm("p", "x86_64", b, {"lib64", "tool"}, {}, "s", "rel")},
                {Rpm("p", "x86_64", c, {"lib64"}, {}, "s", "upd")}, {}, {}),
         NoProbe, FALSE, {}, {}, {<<"p">>}) : a, b, c \in Evrs}

\* Second architectures and build tags.
ArchWorlds ==
  {World(Serves(rel, upd, tag, {}), NoProbe, FALSE, {}, {}, {<<"p">>, <<"q">>}) :
     rel \in SUBSET {P("x86_64", 1, "rel"), P("i686", 1, "rel"), Q("noarch", 1, "rel")},
     upd \in SUBSET {P("x86_64", 2, "upd"), P("i686", 2, "upd"), Q("x86_64", 2, "upd")},
     tag \in SUBSET {P("x86_64", 3, "tag"), P("i686", 3, "tag"), Q("i686", 3, "tag"), B("tag")}}

\* Probe results, derived build lists and variants.
Variant == [name |-> "s-compat", source |-> "s", evr |-> Version(1), consumers |-> {"t"}]
Overrides ==    \* the release's, the image's, and whether problems are fatal
  {<<NoOverride, NoOverride, FALSE>>, <<NoOverride, NoOverride, TRUE>>,
   <<Pick("tool", "q"), NoOverride, TRUE>>, <<NoOverride, Pick("lib64", "q"), FALSE>>,
   <<Pick("lib32", "p"), NoOverride, FALSE>>,
   <<Pick("lib64", "q"), Pick("lib64", "p"), FALSE>>}

PlanWorlds ==
  {[World(Serves(rel, upd, tag, {Srpm("s", Version(2), {"lib64"}, "supd")}),
          probe, plan[1], plan[2], variants, roots)
      EXCEPT !.strict = over[3], !.implicit = {"lib64"},
             !.overrides = over[1], !.image_overrides = over[2]] :
     rel \in {{P("x86_64", 1, "rel"), Q("x86_64", 1, "rel")},
              {P("x86_64", 1, "rel"), P("i686", 1, "rel"), Q("noarch", 1, "rel")}},
     upd \in {{}, {P("x86_64", 2, "upd")}, {P("x86_64", 2, "upd"), Q("x86_64", 2, "upd")}},
     tag \in {{}, {B("tag")}},
     probe \in {NoProbe, [s \in {"s"} |-> {<<"p">>}], [s \in {"s"} |-> {<<"p">>, <<"q">>}],
                [s \in {"s", "t"} |-> {}]},
     plan \in {<<FALSE, {}>>, <<TRUE, {}>>, <<TRUE, {"s"}>>},
     variants \in {{}, {Variant}}, roots \in {{<<"p">>}, {<<"p">>, <<"q">>}},
     over \in Overrides}

\* Source policies: s makes p and q, t makes d; some of it is prebuilt, excused,
\* excused twice, or excused for nothing.
D == Rpm("d", "x86_64", Version(1), {"tool"}, {"lib64"}, "t", "rel")
For(name, source) == [package |-> <<name>>, source |-> source, fit |-> TRUE]
Exceptions == {{}, {For("p", NoSource)}, {For("p", "s")}, {For("p", "t")}, {For("q", NoSource)},
               {For("d", NoSource)}, {For("p", NoSource), For("q", "s")},
               {For("p", NoSource), For("p", "s")}, {[For("p", "s") EXCEPT !.fit = FALSE]},
               {For("p", "s"), For("q", NoSource), For("d", "t")}}
PolicyWorlds ==
  {[World(Serves(rel, {P("x86_64", 2, "upd")}, {}, {Srpm("s", Version(2), {}, "supd")}),
          probe, select, prebuilt, variants, {<<"p">>, <<"d">>})
      EXCEPT !.exceptions = exceptions, !.explicit = explicit, !.seeds = seeds] :
     rel \in {{P("x86_64", 1, "rel"), D}, {P("x86_64", 1, "rel"), D, Q("x86_64", 1, "rel")}},
     probe \in {NoProbe, [s \in {"s"} |-> {<<"p">>}]}, select \in BOOLEAN,
     prebuilt \in SUBSET {"s", "t"}, explicit \in {{}, {"t"}}, variants \in {{}, {Variant}},
     exceptions \in Exceptions, seeds \in {{}, {<<"q">>}}}

\* Files of other snapshots, torn ones, and things going wrong while they
\* are refreshed.
Twice(a, b) == <<a, b>>
SyncWorlds ==
  {[World([r \in {"rel", "upd", "tag", "srel", "supd"} |->
             CASE r = "rel" -> <<{P("x86_64", 1, "rel")}, {P("x86_64", 2, "rel")}>>
               [] r = "upd" -> IF published THEN <<{Q("x86_64", 1, "upd")}, {}>> ELSE <<>>
               [] r = "tag" -> <<{B("tag")}>> [] r = "srel" -> <<Srpms>> [] OTHER -> <<>>],
          NoProbe, FALSE, {}, {}, {<<"p">>})
    EXCEPT !.cache = [i \in 1..5 |-> CASE i = 1 -> rel [] i = 2 /\ published -> upd
                                      [] i \in {3, 4} -> {<<1, TRUE>>} [] OTHER -> {}],
           !.offline = BOOLEAN, !.probing = probing, !.faults = 2, !.runs = 2] :
     rel \in {{}, {<<1, TRUE>>}, {<<1, FALSE>>}, {<<1, TRUE>>, <<2, FALSE>>}},
     upd \in {{}, {<<1, TRUE>>}}, published \in BOOLEAN, probing \in BOOLEAN}

MCWorlds == LET all == MergeWorlds \cup ArchWorlds \cup PlanWorlds \cup PolicyWorlds \cup SyncWorlds IN all
=============================================================================
