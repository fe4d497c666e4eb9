--------------------------- MODULE ProvisionProofs ---------------------------
(***************************************************************************)
(* What is published is final, what serves is complete and an identical    *)
(* retry is never refused, for any number of images, whatever is saved,    *)
(* forced and asked for, any topologies, and runs, kills and acts of the   *)
(* operator in any order, under one data root.                             *)
(***************************************************************************)
EXTENDS Provision, TLAPS

\* With two data roots one run discards what another published (README).
OneRoot == \A d, e \in Roots : d = e

(***************************************************************************)
(* What the variables hold.                                                *)
(***************************************************************************)
Provenance == [Img -> Contents \cup {None}]
Records == {None} \cup
  [intent : {"offline", "registry"} \cup Contents \cup {None} \cup [prov : Provenance, proxy : BOOLEAN],
   object : Contents \cup {None} \cup Provenance]
ArchivePcs == {"archive", "acquire", "publish", "provenance", "published"}
ImagePcs   == {"image", "import", "prove", "proved"}
RuntimePcs == {"runtime", "discard", "transport", "build", "built", "validate",
               "installed", "proven", "settle"}
Outcomes == {"none", "ready", "refused", "failed", "stopped", "killed"}
ImageRun == [pc : {"idle"} \cup ArchivePcs \cup ImagePcs \cup RuntimePcs, img : Img,
             inv : Invocation, new : Contents \cup {None}, mine : BOOLEAN, outcome : Outcomes]
RuntimeFs == [state : {None, "partial", "clean", "leaky"},
              from : [Img -> Contents \cup {None, Partial}] \cup {None},
              prov : Provenance \cup {None}]

ImageTypes ==
  /\ archive \in [Roots -> Provenance]
  /\ prov \in [Roots -> Provenance]
  /\ rec \in [Roots -> [Targets -> Records]]
  /\ assets \in [Roots -> BOOLEAN]
  /\ fs \in [Img -> Contents \cup {None, Partial}]
  /\ runtime \in RuntimeFs
  /\ run \in [Roots -> ImageRun]

(***************************************************************************)
(* What a run has behind it at each step, and what is published.           *)
(***************************************************************************)
Archived(d, i) ==
  /\ prov[d][i] \in Contents /\ prov[d][i].acq = inv(d).acq[i]
  /\ rec[d][Archive(i)] = None
Imported(d, i) ==
  Archived(d, i) /\ rec[d][Image(i)] = None /\ fs[i] = prov[d][i]

Published(d) == \A i \in Img :
  /\ prov[d][i] # None => archive[d][i] = prov[d][i]
  /\ fs[i] \in {None, Partial, prov[d][i]}

AtArchive(d) ==
  /\ run[d].pc \in {"acquire", "publish", "provenance"} => prov[d][cur(d)] = None
  /\ run[d].pc \in {"publish", "provenance"} =>
       run[d].new \in Contents /\ run[d].new.acq = source(d)
  /\ run[d].pc = "provenance" => archive[d][cur(d)] = run[d].new
  /\ run[d].pc = "published" =>
       prov[d][cur(d)] \in Contents /\ prov[d][cur(d)].acq = source(d)

AtImage(d) ==
  /\ run[d].pc \in ImagePcs => Archived(d, cur(d))
  /\ run[d].pc = "import" => fs[cur(d)] = None
  /\ run[d].pc = "prove" => fs[cur(d)] = Partial

Behind(d) == \A j \in Img :
  run[d].pc \in RuntimePcs \/ (run[d].pc # "idle" /\ j < cur(d)) => Imported(d, j)

RuntimePublished(d) ==
  /\ runtime.prov # None =>
       /\ Clean /\ runtime.prov = prov[d] /\ runtime.from = prov[d]
       /\ \A i \in Img : prov[d][i] \in Contents
  /\ runtime.state = None => runtime.prov = None

AtRuntime(d) ==
  /\ run[d].pc \in {"discard", "transport", "build", "built", "validate"} => runtime.prov = None
  /\ run[d].pc \in {"built", "validate"} => runtime.from = prov[d]
  /\ run[d].pc \in {"proven", "settle"} => Whole(d)
  /\ run[d].pc = "settle" => ~assets[d]

Ready(d) == run[d].outcome = "ready" =>
  /\ run[d].pc = "idle"
  /\ runtime = [state |-> "clean", from |-> prov[d], prov |-> prov[d]]
  /\ fs = prov[d] /\ archive[d] = prov[d]
  /\ \A i \in Img : prov[d][i] \in Contents /\ prov[d][i].acq = inv(d).acq[i]
  /\ rec[d] = [t \in Targets |-> None] /\ ~assets[d]

ImageInv(d) == Published(d) /\ AtArchive(d) /\ AtImage(d) /\ Behind(d)
               /\ RuntimePublished(d) /\ AtRuntime(d) /\ Ready(d)

(***************************************************************************)
(* What a deployment has behind it at each step.                           *)
(***************************************************************************)
DeployPcs == {"decide", "bind", "create", "start", "tls", "publish tls", "assets", "copied",
              "storage", "env", "environment", "identity", "enable", "restart", "finish"}
DeployRun == [pc : {"idle"} \cup DeployPcs, want : Identity \cup {None}, install : BOOLEAN,
              outcome : {"none", "refused", "failed", "stopped", "deployed"}]
Inside == [tls : Identity \cup {None}, stage : BOOLEAN, config : Identity \cup {None, Partial},
           env : {"none", "torn", "whole", "rewritten"}, identity : Identity \cup {None}, enabled : BOOLEAN, active : BOOLEAN]
DeployTypes ==
  /\ con \in Container \cup {None}
  /\ inside \in Inside
  /\ owner \in [Roots -> {"absent", "root", "service"}]
  /\ drec \in [Roots -> Identity \cup {None}]
  /\ app \in [Roots -> DeployRun]

\* The lock is one: a deployment goes on where an image run ended well.
Locked(d) == ~Doing(d, "idle") =>
  /\ want(d) \in Identity /\ want(d).root = d
  /\ run[d].pc = "idle" /\ run[d].outcome = "ready"

\* An identity is there only with what it vouches for, the unit is enabled
\* only under an identity, and NativeLink is up only where it is enabled.
Vouched ==
  /\ con = None => inside = Fresh
  /\ inside.identity # None =>
       /\ con.topo = Topology(inside.identity)
       /\ inside.config = inside.identity /\ inside.tls = Credentials(inside.identity)
  /\ inside.enabled =>
       /\ inside.identity # None /\ Written(inside)
       /\ owner[inside.identity.root] = "service"
       /\ Whole(inside.identity.root) /\ runtime.prov # None
  /\ inside.active => Running /\ inside.enabled

Installing(d) ==
  /\ app[d].pc = "decide" => ~app[d].install
  /\ app[d].pc \in {"bind", "create", "tls", "publish tls", "assets", "copied", "identity"} =>
       app[d].install
  /\ app[d].pc \in {"bind", "create", "start", "tls", "publish tls", "assets", "copied",
                    "storage", "env", "environment", "identity"} /\ app[d].install => inside.identity = None
  /\ con # None =>
       /\ app[d].pc \in {"start", "tls", "publish tls", "assets", "copied", "storage",
                         "env", "environment", "identity"} /\ app[d].install => con.topo = Topology(want(d))
       /\ app[d].pc \in {"assets", "copied", "storage", "env", "environment", "identity"} /\ app[d].install =>
            inside.tls = Credentials(want(d))
       /\ app[d].pc \in {"storage", "env", "environment", "identity"} /\ app[d].install => inside.config = want(d)
       /\ app[d].pc \in {"start", "storage", "env", "environment"} /\ ~app[d].install => inside.identity = want(d)
       /\ app[d].pc \in {"identity", "enable", "restart"} => Written(inside)
       /\ app[d].pc \in {"enable", "restart"} => inside.identity = want(d)
       /\ app[d].pc = "restart" => inside.enabled
  /\ app[d].pc \in {"env", "environment", "identity", "enable", "restart"} => owner[d] = "service"

DeployInv(d) == Locked(d) /\ Installing(d)
AllInv == /\ ImageTypes /\ DeployTypes /\ Vouched
          /\ \A d \in Roots : ImageInv(d) /\ DeployInv(d)

(***************************************************************************)
(* Facts about the constants and the shape of a run.                       *)
(***************************************************************************)
LEMMA Nothing ==
  /\ Img \subseteq Nat /\ Images \in Img /\ 1 \in Img
  /\ None \notin Contents /\ Partial \notin Contents /\ Partial # None
  /\ \A c \in Contents : c.acq \in {"offline", "registry"}
  /\ \A p \in [Img -> Contents] : p # None
  /\ None \notin {"partial", "clean", "leaky"}
  /\ \A v \in Invocations : v \in Invocation
<1>. QED  BY InvocationAssumption DEF Img, Contents

LEMMA TargetFacts ==
  /\ \A i \in Img : Archive(i) \in Targets /\ Image(i) \in Targets
  /\ Runtime \in Targets
  /\ \A i, j \in Img : /\ Archive(i) # Image(j) /\ Archive(i) # Runtime /\ Image(i) # Runtime
                       /\ Archive(i) = Archive(j) => i = j
                       /\ Image(i) = Image(j) => i = j
  /\ \A t \in Targets : t = Runtime \/ \E i \in Img : t \in {Archive(i), Image(i)}
<1>. QED  BY DEF Targets, Archive, Image, Runtime

LEMMA RunFacts == ASSUME ImageTypes, NEW d \in Roots
  PROVE  /\ run[d] \in ImageRun /\ cur(d) \in Img /\ cur(d) \in Nat
         /\ inv(d) \in Invocation /\ inv(d).acq \in [Img -> {"offline", "registry"}]
         /\ inv(d).proxy \in BOOLEAN /\ source(d) \in {"offline", "registry"}
         /\ source(d) = inv(d).acq[cur(d)]
         /\ prov[d] \in Provenance /\ archive[d] \in Provenance
         /\ rec[d] \in [Targets -> Records] /\ runtime \in RuntimeFs
         /\ run \in [Roots -> ImageRun]
<1>. QED  BY Nothing DEF ImageTypes, ImageRun, cur, inv, source, Invocation

LEMMA StartedFacts == ASSUME NEW v \in Invocation
  PROVE  /\ Started(v) \in ImageRun
         /\ Started(v).pc = "archive" /\ Started(v).img = 1 /\ Started(v).inv = v
         /\ Started(v).new = None /\ Started(v).mine = FALSE /\ Started(v).outcome = "none"
<1>. QED  BY Nothing DEF Started, ImageRun, ArchivePcs, Outcomes

\* A run that ends, and one that goes to its next step.
LEMMA ExitFacts == ASSUME ImageTypes, NEW d \in Roots, NEW how \in Outcomes, Exit(d, how)
  PROVE  /\ run' \in [Roots -> ImageRun]
         /\ run'[d].pc = "idle" /\ run'[d].outcome = how /\ run'[d].inv = run[d].inv
<1>. DEFINE r == [Started(inv(d)) EXCEPT !.pc = "idle", !.outcome = how]
<1>1. Started(inv(d)) \in ImageRun /\ Started(inv(d)).inv = inv(d)
  BY RunFacts, StartedFacts
<1>2. r \in ImageRun /\ r.pc = "idle" /\ r.outcome = how /\ r.inv = inv(d)
  BY <1>1 DEF ImageRun
<1>3. run' = [run EXCEPT ![d] = r]
  BY DEF Exit
<1>. HIDE DEF r
<1>. QED  BY <1>2, <1>3, RunFacts DEF inv

LEMMA GoToFacts ==
  ASSUME ImageTypes, NEW d \in Roots,
         NEW pc \in {"idle"} \cup ArchivePcs \cup ImagePcs \cup RuntimePcs, GoTo(d, pc)
  PROVE  /\ run' \in [Roots -> ImageRun]
         /\ run'[d].pc = pc /\ run'[d].img = run[d].img /\ run'[d].inv = run[d].inv
         /\ run'[d].new = run[d].new /\ run'[d].outcome = run[d].outcome
<1>. DEFINE r == [run[d] EXCEPT !.pc = pc]
<1>1. r \in ImageRun /\ r.pc = pc /\ r.img = run[d].img /\ r.inv = run[d].inv
      /\ r.new = run[d].new /\ r.outcome = run[d].outcome
  BY RunFacts DEF ImageRun
<1>2. run' = [run EXCEPT ![d] = r]
  BY RunFacts DEF GoTo, ImageRun
<1>. HIDE DEF r
<1>. QED  BY <1>1, <1>2, RunFacts

LEMMA RecordFacts ==
  ASSUME ImageTypes, NEW d \in Roots, NEW t \in Targets, NEW r \in Records, write_record(d, t, r)
  PROVE  /\ rec' \in [Roots -> [Targets -> Records]] /\ rec'[d][t] = r
         /\ \A u \in Targets : u # t => rec'[d][u] = rec[d][u]
<1>. QED  BY RunFacts DEF write_record, ImageTypes

LEMMA ClearFacts ==
  ASSUME ImageTypes, NEW d \in Roots, NEW t \in Targets, clear_record(d, t)
  PROVE  /\ rec' \in [Roots -> [Targets -> Records]] /\ rec'[d][t] = None
         /\ \A u \in Targets : u # t => rec'[d][u] = rec[d][u]
<1>. QED  BY RecordFacts DEF clear_record, Records

(***************************************************************************)
(* A step of an image run keeps the invariant and touches nothing that has *)
(* its provenance.                                                         *)
(***************************************************************************)
Untouched(d) ==
  /\ \A i \in Img :
       /\ prov[d][i] # None => archive'[d][i] = archive[d][i] /\ prov'[d][i] = prov[d][i]
       /\ fs[i] \in Contents => fs'[i] = fs[i]
  /\ runtime.prov # None => runtime' = runtime

\* A run that ends changes nothing of what was published.
LEMMA EndStep ==
  ASSUME ImageTypes, NEW d \in Roots, ImageInv(d),
         run' \in [Roots -> ImageRun], run'[d].pc = "idle", run'[d].outcome # "ready",
         assets' \in [Roots -> BOOLEAN], UNCHANGED <<archive, prov, rec, fs, runtime>>
  PROVE  ImageTypes' /\ ImageInv(d)' /\ Untouched(d)
<1>1. ImageTypes' /\ Untouched(d)
  BY DEF ImageTypes, Untouched
<1>2. Published(d)' /\ RuntimePublished(d)'
  BY DEF ImageInv, Published, RuntimePublished, Clean
<1>3. AtArchive(d)' /\ AtImage(d)' /\ Behind(d)' /\ AtRuntime(d)' /\ Ready(d)'
  BY DEF AtArchive, AtImage, Behind, AtRuntime, Ready, ArchivePcs, ImagePcs, RuntimePcs
<1>. QED  BY <1>1, <1>2, <1>3 DEF ImageInv

(***************************************************************************)
(* materialize_archive concerns one archive, its provenance and its record.*)
(***************************************************************************)
LEMMA ArchiveStep ==
  ASSUME ImageTypes, NEW d \in Roots, ImageInv(d), run[d].pc \in ArchivePcs,
         run' \in [Roots -> ImageRun], run'[d].pc \in ArchivePcs \cup {"image"},
         run'[d].img = run[d].img, run'[d].inv = run[d].inv, run'[d].outcome = run[d].outcome,
         archive' \in [Roots -> Provenance], prov' \in [Roots -> Provenance],
         rec' \in [Roots -> [Targets -> Records]],
         \A j \in Img : j # cur(d) => archive'[d][j] = archive[d][j] /\ prov'[d][j] = prov[d][j],
         \A t \in Targets : t # Archive(cur(d)) => rec'[d][t] = rec[d][t],
         UNCHANGED <<assets, fs, runtime>>,
         prov[d][cur(d)] # None =>
           archive'[d][cur(d)] = archive[d][cur(d)] /\ prov'[d][cur(d)] = prov[d][cur(d)],
         prov'[d][cur(d)] # None => archive'[d][cur(d)] = prov'[d][cur(d)],
         AtArchive(d)', AtImage(d)'
  PROVE  ImageTypes' /\ ImageInv(d)' /\ Untouched(d)
<1>1. ImageTypes'  BY DEF ImageTypes
<1>2. Untouched(d)  BY DEF Untouched, ImageInv, Published
<1>3. \A j \in Img : prov[d][j] # None => prov'[d][j] = prov[d][j]
  BY <1>2 DEF Untouched
<1>4. Published(d)'
  BY <1>3 DEF ImageInv, Published
<1>5. Behind(d)'
  <2>. SUFFICES ASSUME NEW j \in Img, j < cur(d) PROVE Imported(d, j)'
    BY DEF Behind, cur, ArchivePcs, RuntimePcs
  <2>1. j # cur(d) /\ j \in Nat /\ cur(d) \in Nat /\ Image(j) # Archive(cur(d)) /\ Archive(j) # Archive(cur(d))
        /\ Image(j) \in Targets /\ Archive(j) \in Targets
    BY RunFacts, TargetFacts, Nothing
  <2>2. Imported(d, j)
    BY DEF ImageInv, Behind, cur, ArchivePcs
  <2>. QED  BY <2>1, <2>2 DEF Imported, Archived, inv
<1>6. RuntimePublished(d)'
  <2>. SUFFICES ASSUME runtime.prov # None
                PROVE  prov'[d] = prov[d]
    BY DEF ImageInv, RuntimePublished, Clean
  <2>1. \A j \in Img : prov'[d][j] = prov[d][j]
    BY <1>3, Nothing DEF ImageInv, RuntimePublished
  <2>. QED  BY <2>1, RunFacts DEF Provenance
<1>7. AtRuntime(d)' /\ Ready(d)'
  BY DEF ImageInv, AtRuntime, Ready, ArchivePcs
<1>. QED  BY <1>1, <1>2, <1>4, <1>5, <1>6, <1>7 DEF ImageInv

LEMMA CheckArchiveStep ==
  ASSUME ImageTypes, NEW d \in Roots, ImageInv(d), CheckArchive(d)
  PROVE  ImageTypes' /\ ImageInv(d)' /\ Untouched(d)
<1>. DEFINE i == cur(d)
<1>1. /\ run[d].pc = "archive" /\ i \in Img /\ i \in Nat
      /\ UNCHANGED <<prov, assets, fs, runtime>>
      /\ run[d].outcome # "ready"
      /\ Archive(i) \in Targets
  BY RunFacts, TargetFacts DEF CheckArchive, At, ImageInv, Ready
<1>2. CASE Exit(d, "refused") /\ UNCHANGED <<archive, rec>>
  BY <1>1, <1>2, ExitFacts, EndStep DEF Outcomes, ImageTypes
<1>3. CASE Reusable(d, i) /\ clear_record(d, Archive(i)) /\ GoTo(d, "image") /\ UNCHANGED archive
  <2>1. /\ run' \in [Roots -> ImageRun] /\ run'[d].pc = "image" /\ run'[d].img = i
        /\ run'[d].inv = run[d].inv /\ run'[d].outcome = run[d].outcome
    BY <1>3, GoToFacts DEF ImagePcs, cur
  <2>2. /\ rec' \in [Roots -> [Targets -> Records]] /\ rec'[d][Archive(i)] = None
        /\ \A u \in Targets : u # Archive(i) => rec'[d][u] = rec[d][u]
    BY <1>1, <1>3, ClearFacts
  <2>3. prov[d][i] \in Contents /\ prov[d][i].acq = inv(d).acq[i] /\ archive[d][i] = prov[d][i]
    BY <1>1, <1>3, RunFacts DEF Reusable, Provenance
  <2>4. AtArchive(d)'  BY <2>1 DEF AtArchive
  <2>5. AtImage(d)'
    BY <1>1, <2>1, <2>2, <2>3 DEF AtImage, Archived, inv, cur
  <2>. QED  BY <1>1, <1>3, <2>1, <2>2, <2>3, <2>4, <2>5, ArchiveStep DEF ArchivePcs, ImageTypes, cur
<1>4. CASE /\ Discardable(d, i) /\ archive' = [archive EXCEPT ![d][i] = None]
           /\ GoTo(d, "archive") /\ UNCHANGED rec
  <2>1. /\ run' \in [Roots -> ImageRun] /\ run'[d].pc = "archive" /\ run'[d].img = i
        /\ run'[d].inv = run[d].inv /\ run'[d].outcome = run[d].outcome
    BY <1>4, GoToFacts DEF ArchivePcs, cur
  <2>2. /\ archive' \in [Roots -> Provenance] /\ prov[d][i] = None
        /\ \A j \in Img : j # i => archive'[d][j] = archive[d][j]
    BY <1>1, <1>4, RunFacts DEF Discardable, ImageTypes, Provenance
  <2>3. AtArchive(d)' /\ AtImage(d)'  BY <2>1 DEF AtArchive, AtImage, ImagePcs
  <2>. QED  BY <1>1, <1>4, <2>1, <2>2, <2>3, ArchiveStep DEF ArchivePcs, ImageTypes, cur
<1>5. CASE Unstarted(d, i) /\ clear_record(d, Archive(i)) /\ GoTo(d, "acquire") /\ UNCHANGED archive
  <2>1. /\ run' \in [Roots -> ImageRun] /\ run'[d].pc = "acquire" /\ run'[d].img = i
        /\ run'[d].inv = run[d].inv /\ run'[d].outcome = run[d].outcome
    BY <1>5, GoToFacts DEF ArchivePcs, cur
  <2>2. /\ rec' \in [Roots -> [Targets -> Records]]
        /\ \A u \in Targets : u # Archive(i) => rec'[d][u] = rec[d][u]
    BY <1>1, <1>5, ClearFacts
  <2>3. prov[d][i] = None  BY <1>5 DEF Unstarted
  <2>4. AtArchive(d)' /\ AtImage(d)'
    BY <1>1, <2>1, <2>3 DEF AtArchive, AtImage, ImagePcs, cur
  <2>. QED  BY <1>1, <1>5, <2>1, <2>2, <2>3, <2>4, ArchiveStep DEF ArchivePcs, ImageTypes, cur
<1>. QED  BY <1>2, <1>3, <1>4, <1>5 DEF CheckArchive

\* The record is written before the archive gets its name, and cleared after
\* the provenance got its own.
LEMMA PublishSteps ==
  ASSUME ImageTypes, NEW d \in Roots, ImageInv(d),
         Acquire(d) \/ PublishArchive(d) \/ PublishProvenance(d) \/ ArchiveDone(d)
  PROVE  ImageTypes' /\ ImageInv(d)' /\ Untouched(d)
<1>. DEFINE i == cur(d)
<1>1. /\ run[d].pc \in ArchivePcs /\ i \in Img /\ Archive(i) \in Targets
      /\ UNCHANGED <<assets, fs, runtime>>
  BY RunFacts, TargetFacts
     DEF Acquire, PublishArchive, PublishProvenance, ArchiveDone, At, ArchivePcs
<1>2. CASE Acquire(d)
  <2>1. PICK c \in Contents :
          /\ c.acq = source(d)
          /\ write_record(d, Archive(i), Intent(source(d), c))
          /\ run' = [run EXCEPT ![d].pc = "publish", ![d].new = c]
    BY <1>2 DEF Acquire
  <2>2. Intent(source(d), c) \in Records
    BY <1>1, RunFacts DEF Intent, Records
  <2>. DEFINE r == [run[d] EXCEPT !.pc = "publish", !.new = c]
  <2>3. /\ r \in ImageRun /\ r.pc = "publish" /\ r.img = i /\ r.inv = run[d].inv
        /\ r.new = c /\ r.outcome = run[d].outcome
    BY RunFacts DEF ImageRun, ArchivePcs, cur
  <2>4. run' = [run EXCEPT ![d] = r]
    BY <2>1, RunFacts DEF ImageRun
  <2>. HIDE DEF r
  <2>5. run' \in [Roots -> ImageRun] /\ run'[d] = r
    BY <2>3, <2>4, RunFacts
  <2>6. prov[d][i] = None /\ prov' = prov /\ archive' = archive
    BY <1>2 DEF Acquire, ImageInv, AtArchive, At
  <2>7. AtArchive(d)' /\ AtImage(d)'
    BY <2>1, <2>3, <2>5, <2>6 DEF AtArchive, AtImage, ImagePcs, cur, source, inv
  <2>8. /\ rec' \in [Roots -> [Targets -> Records]]
        /\ \A u \in Targets : u # Archive(i) => rec'[d][u] = rec[d][u]
    BY <1>1, <2>1, <2>2, RecordFacts
  <2>. QED  BY <1>1, <2>3, <2>5, <2>6, <2>7, <2>8, ArchiveStep DEF ArchivePcs, ImageTypes, cur
<1>3. CASE PublishArchive(d)
  <2>1. /\ run' \in [Roots -> ImageRun] /\ run'[d].pc = "provenance" /\ run'[d].img = i
        /\ run'[d].inv = run[d].inv /\ run'[d].outcome = run[d].outcome /\ run'[d].new = run[d].new
    BY <1>3, GoToFacts DEF PublishArchive, ArchivePcs, cur
  <2>2. /\ prov[d][i] = None /\ run[d].new \in Contents /\ run[d].new.acq = source(d)
        /\ prov' = prov /\ rec' = rec
    BY <1>3 DEF PublishArchive, ImageInv, AtArchive, At
  <2>3. /\ archive' \in [Roots -> Provenance] /\ archive'[d][i] = run[d].new
        /\ \A j \in Img : j # i => archive'[d][j] = archive[d][j]
    BY <1>1, <1>3, <2>2, RunFacts DEF PublishArchive, ImageTypes, Provenance
  <2>4. AtArchive(d)' /\ AtImage(d)'
    BY <2>1, <2>2, <2>3 DEF AtArchive, AtImage, ImagePcs, cur, source, inv
  <2>. QED  BY <1>1, <2>1, <2>2, <2>3, <2>4, ArchiveStep DEF ArchivePcs, ImageTypes, cur
<1>4. CASE PublishProvenance(d)
  <2>. DEFINE r == [run[d] EXCEPT !.pc = "published", !.new = None]
  <2>1. /\ r \in ImageRun /\ r.pc = "published" /\ r.img = i /\ r.inv = run[d].inv
        /\ r.outcome = run[d].outcome
    BY RunFacts DEF ImageRun, ArchivePcs, cur
  <2>2. run' = [run EXCEPT ![d] = r]
    BY <1>4, RunFacts DEF PublishProvenance, ImageRun
  <2>. HIDE DEF r
  <2>3. run' \in [Roots -> ImageRun] /\ run'[d] = r
    BY <2>1, <2>2, RunFacts
  <2>4. /\ prov[d][i] = None /\ run[d].new \in Contents /\ run[d].new.acq = source(d)
        /\ archive[d][i] = run[d].new /\ archive' = archive /\ rec' = rec
    BY <1>4 DEF PublishProvenance, ImageInv, AtArchive, At
  <2>5. /\ prov' \in [Roots -> Provenance] /\ prov'[d][i] = run[d].new
        /\ \A j \in Img : j # i => prov'[d][j] = prov[d][j]
    BY <1>1, <1>4, <2>4, RunFacts DEF PublishProvenance, ImageTypes, Provenance
  <2>6. AtArchive(d)' /\ AtImage(d)'
    BY <2>1, <2>3, <2>4, <2>5 DEF AtArchive, AtImage, ImagePcs, cur, source, inv
  <2>. QED  BY <1>1, <2>1, <2>3, <2>4, <2>5, <2>6, ArchiveStep DEF ArchivePcs, ImageTypes, cur
<1>5. CASE ArchiveDone(d)
  <2>1. /\ run' \in [Roots -> ImageRun] /\ run'[d].pc = "image" /\ run'[d].img = i
        /\ run'[d].inv = run[d].inv /\ run'[d].outcome = run[d].outcome
    BY <1>5, GoToFacts DEF ArchiveDone, ImagePcs, cur
  <2>2. /\ rec' \in [Roots -> [Targets -> Records]] /\ rec'[d][Archive(i)] = None
        /\ \A u \in Targets : u # Archive(i) => rec'[d][u] = rec[d][u]
    BY <1>1, <1>5, ClearFacts DEF ArchiveDone
  <2>3. /\ prov[d][i] \in Contents /\ prov[d][i].acq = source(d)
        /\ archive' = archive /\ prov' = prov
    BY <1>5 DEF ArchiveDone, ImageInv, AtArchive, At
  <2>4. AtArchive(d)' /\ AtImage(d)'
    BY <2>1, <2>2, <2>3 DEF AtArchive, AtImage, Archived, cur, source, inv
  <2>5. archive[d][i] = prov[d][i]
    BY <1>1, <2>3, Nothing DEF ImageInv, Published
  <2>. QED  BY <1>1, <2>1, <2>2, <2>3, <2>4, <2>5, ArchiveStep DEF ArchivePcs, ImageTypes, cur
<1>. QED  BY <1>2, <1>3, <1>4, <1>5

(***************************************************************************)
(* ensure_image_fs concerns one filesystem and its record; it goes on to   *)
(* the next image once the filesystem has the archive's provenance.        *)
(***************************************************************************)
LEMMA ImageFsStep ==
  ASSUME ImageTypes, NEW d \in Roots, ImageInv(d), run[d].pc \in ImagePcs,
         run' \in [Roots -> ImageRun], run'[d].inv = run[d].inv, run'[d].outcome = run[d].outcome,
         \/ run'[d].pc \in ImagePcs /\ run'[d].img = cur(d)
         \/ /\ rec'[d][Image(cur(d))] = None /\ fs'[cur(d)] = prov[d][cur(d)]
            /\ \/ cur(d) = Images /\ run'[d].pc = "runtime"
               \/ cur(d) # Images /\ run'[d].pc = "archive" /\ run'[d].img = cur(d) + 1,
         run'[d].pc = "import" => fs'[cur(d)] = None,
         run'[d].pc = "prove" => fs'[cur(d)] = Partial,
         rec' \in [Roots -> [Targets -> Records]], fs' \in [Img -> Contents \cup {None, Partial}],
         \A t \in Targets : t # Image(cur(d)) => rec'[d][t] = rec[d][t],
         \A j \in Img : j # cur(d) => fs'[j] = fs[j],
         fs'[cur(d)] \in {None, Partial, prov[d][cur(d)]},
         fs[cur(d)] \in Contents => fs'[cur(d)] = fs[cur(d)],
         UNCHANGED <<archive, prov, assets, runtime>>
  PROVE  ImageTypes' /\ ImageInv(d)' /\ Untouched(d)
<1>1. ImageTypes'  BY DEF ImageTypes
<1>2. Untouched(d)  BY DEF Untouched
<1>3. Published(d)' /\ RuntimePublished(d)'
  BY DEF ImageInv, Published, RuntimePublished, Clean
<1>4. AtArchive(d)' /\ AtRuntime(d)' /\ Ready(d)'
  BY DEF ImageInv, AtArchive, AtRuntime, Ready, ImagePcs
<1>. DEFINE i == cur(d)
<1>5. /\ i \in Img /\ i \in Nat /\ Images \in Img /\ Images \in Nat
      /\ run'[d].inv.acq = run[d].inv.acq
      /\ \A j \in Img : /\ j \in Nat /\ j <= Images /\ Archive(j) \in Targets /\ Image(j) \in Targets
                        /\ Archive(j) # Image(i) /\ (j # i => Image(j) # Image(i))
  BY RunFacts, TargetFacts, Nothing DEF Img
<1>6. Archived(d, i) /\ \A j \in Img : j < i => Imported(d, j)
  BY <1>5 DEF ImageInv, AtImage, Behind, ImagePcs
<1>7. \A j \in Img : j <= i => /\ prov'[d][j] \in Contents /\ prov'[d][j].acq = run'[d].inv.acq[j]
                               /\ rec'[d][Archive(j)] = None
  <2>. SUFFICES ASSUME NEW j \in Img, j <= i
                PROVE  /\ prov'[d][j] \in Contents /\ prov'[d][j].acq = run'[d].inv.acq[j]
                       /\ rec'[d][Archive(j)] = None
    OBVIOUS
  <2>1. Archived(d, j)
    <3>1. j \in Int /\ i \in Int  BY DEF Img, i, cur, ImageTypes, ImageRun
    <3>. HIDE DEF i
    <3>2. j = i \/ j < i  BY <3>1
    <3>. QED  BY <1>6, <3>2 DEF Imported
  <2>. QED  BY <1>5, <2>1 DEF Archived, inv
<1>8. \A j \in Img : j < i => rec'[d][Image(j)] = None /\ fs'[j] = prov'[d][j]
  BY <1>5, <1>6 DEF Imported
<1>. HIDE DEF i
<1>9. CASE run'[d].pc \in ImagePcs /\ run'[d].img = i
  <2>1. AtImage(d)'
    BY <1>5, <1>7, <1>9 DEF AtImage, Archived, inv, cur, i
  <2>2. Behind(d)'
    BY <1>5, <1>7, <1>8, <1>9 DEF Behind, Imported, Archived, inv, cur, ImagePcs, RuntimePcs
  <2>. QED  BY <1>1, <1>2, <1>3, <1>4, <2>1, <2>2 DEF ImageInv
<1>10. CASE /\ rec'[d][Image(i)] = None /\ fs'[i] = prov[d][i]
            /\ \/ i = Images /\ run'[d].pc = "runtime"
               \/ i # Images /\ run'[d].pc = "archive" /\ run'[d].img = i + 1
  <2>1. \A j \in Img : j <= i => Imported(d, j)'
    <3>. SUFFICES ASSUME NEW j \in Img, j <= i PROVE Imported(d, j)'
      OBVIOUS
    <3>1. rec'[d][Image(j)] = None /\ fs'[j] = prov'[d][j]
      <4>1. CASE j = i  BY <1>10, <4>1
      <4>2. CASE j < i  BY <1>8, <4>2
      <4>. QED  BY <1>5, <4>1, <4>2
    <3>. QED  BY <1>7, <3>1 DEF Imported, Archived, inv
  <2>2. Behind(d)'
    <3>1. CASE i = Images  BY <1>5, <2>1, <3>1 DEF Behind
    <3>2. CASE i # Images /\ run'[d].pc = "archive" /\ run'[d].img = i + 1
      BY <1>5, <2>1, <3>2 DEF Behind, cur, RuntimePcs
    <3>. QED  BY <1>10, <3>1, <3>2
  <2>3. AtImage(d)'
    BY <1>10 DEF AtImage, ImagePcs
  <2>. QED  BY <1>1, <1>2, <1>3, <1>4, <2>2, <2>3 DEF ImageInv
<1>. QED  BY <1>9, <1>10 DEF i

\* NextImage, in the form ImageFsStep takes it.
LEMMA NextFacts == ASSUME ImageTypes, NEW d \in Roots, NextImage(d)
  PROVE  /\ run' \in [Roots -> ImageRun] /\ run'[d].inv = run[d].inv
         /\ run'[d].outcome = run[d].outcome
         /\ \/ cur(d) = Images /\ run'[d].pc = "runtime"
            \/ cur(d) # Images /\ run'[d].pc = "archive" /\ run'[d].img = cur(d) + 1
<1>. DEFINE pc == IF cur(d) = Images THEN "runtime" ELSE "archive"
            i  == IF cur(d) = Images THEN 1 ELSE cur(d) + 1
            r  == [run[d] EXCEPT !.pc = pc, !.img = i]
<1>1. pc \in ArchivePcs \cup RuntimePcs /\ i \in Img
  BY RunFacts, InvocationAssumption DEF Img, ArchivePcs, RuntimePcs
<1>2. run' = [run EXCEPT ![d] = r]
  BY RunFacts DEF NextImage, ImageRun
<1>3. pc = (IF cur(d) = Images THEN "runtime" ELSE "archive") /\ (cur(d) # Images => i = cur(d) + 1)
  OBVIOUS
<1>. HIDE DEF pc, i
<1>4. /\ r \in ImageRun /\ r.pc = pc /\ r.img = i /\ r.inv = run[d].inv
      /\ r.outcome = run[d].outcome
  BY <1>1, RunFacts DEF ImageRun
<1>. HIDE DEF r
<1>. QED  BY <1>2, <1>3, <1>4, RunFacts

\* Only what an intent allows is discarded: a filesystem without provenance.
LEMMA CheckImageStep ==
  ASSUME ImageTypes, NEW d \in Roots, ImageInv(d), CheckImage(d)
  PROVE  ImageTypes' /\ ImageInv(d)' /\ Untouched(d)
<1>. DEFINE i == cur(d)
            p == prov[d][i]
            r == rec[d][Image(i)]
<1>1. /\ run[d].pc = "image" /\ run[d].pc \in ImagePcs /\ run[d].outcome # "ready"
      /\ i \in Img /\ Image(i) \in Targets
      /\ UNCHANGED <<archive, prov, assets, runtime>>
      /\ fs \in [Img -> Contents \cup {None, Partial}] /\ rec \in [Roots -> [Targets -> Records]]
      /\ fs[i] \in {None, Partial, p} /\ None \notin Contents /\ Partial \notin Contents
  BY RunFacts, TargetFacts, Nothing
     DEF CheckImage, At, ImageInv, Ready, ImagePcs, ImageTypes, Published
<1>2. CASE Exit(d, "refused") /\ UNCHANGED <<rec, fs>>
  BY <1>1, <1>2, ExitFacts, EndStep DEF Outcomes, ImageTypes
<1>3. CASE fs[i] = p /\ clear_record(d, Image(i)) /\ NextImage(d) /\ UNCHANGED fs
  <2>1. /\ rec' \in [Roots -> [Targets -> Records]] /\ rec'[d][Image(i)] = None
        /\ \A u \in Targets : u # Image(i) => rec'[d][u] = rec[d][u]
    BY <1>1, <1>3, ClearFacts
  <2>. QED  BY <1>1, <1>3, <2>1, NextFacts, ImageFsStep
<1>4. CASE fs[i] # p /\ fs' = [fs EXCEPT ![i] = None] /\ GoTo(d, "import") /\ UNCHANGED rec
  <2>1. /\ run' \in [Roots -> ImageRun] /\ run'[d].pc = "import" /\ run'[d].img = i
        /\ run'[d].inv = run[d].inv /\ run'[d].outcome = run[d].outcome
    BY <1>4, GoToFacts DEF ImagePcs, cur
  <2>2. /\ fs' \in [Img -> Contents \cup {None, Partial}] /\ fs'[i] = None
        /\ \A j \in Img : j # i => fs'[j] = fs[j]
    BY <1>1, <1>4
  <2>3. fs[i] \notin Contents  BY <1>1, <1>4
  <2>. QED  BY <1>1, <1>4, <2>1, <2>2, <2>3, ImageFsStep DEF ImagePcs
<1>5. CASE /\ fs[i] = None /\ write_record(d, Image(i), Intent(p, p))
           /\ GoTo(d, "import") /\ UNCHANGED fs
  <2>1. /\ run' \in [Roots -> ImageRun] /\ run'[d].pc = "import" /\ run'[d].img = i
        /\ run'[d].inv = run[d].inv /\ run'[d].outcome = run[d].outcome
    BY <1>5, GoToFacts DEF ImagePcs, cur
  <2>2. Intent(p, p) \in Records
    BY <1>1, RunFacts DEF Intent, Records, Provenance
  <2>3. /\ rec' \in [Roots -> [Targets -> Records]]
        /\ \A u \in Targets : u # Image(i) => rec'[d][u] = rec[d][u]
    BY <1>1, <1>5, <2>2, RecordFacts
  <2>. QED  BY <1>1, <1>5, <2>1, <2>3, ImageFsStep DEF ImagePcs
<1>. QED  BY <1>2, <1>3, <1>4, <1>5 DEF CheckImage

LEMMA ImportSteps ==
  ASSUME ImageTypes, NEW d \in Roots, ImageInv(d), Import(d) \/ Prove(d) \/ ImageDone(d)
  PROVE  ImageTypes' /\ ImageInv(d)' /\ Untouched(d)
<1>. DEFINE i == cur(d)
            p == prov[d][i]
<1>1. /\ run[d].pc \in ImagePcs /\ run[d].outcome # "ready" /\ i \in Img /\ Image(i) \in Targets
      /\ UNCHANGED <<archive, prov, assets, runtime>>
      /\ fs \in [Img -> Contents \cup {None, Partial}] /\ rec \in [Roots -> [Targets -> Records]]
      /\ fs[i] \in {None, Partial, p} /\ None \notin Contents /\ Partial \notin Contents
      /\ p \in Contents
  BY RunFacts, TargetFacts, Nothing
     DEF Import, Prove, ImageDone, At, ImageInv, Ready, ImagePcs, ImageTypes, Published,
         AtImage, Archived
<1>2. CASE Exit(d, "failed") /\ UNCHANGED <<rec, fs>>
  BY <1>1, <1>2, ExitFacts, EndStep DEF Outcomes, ImageTypes
<1>3. CASE Import(d) /\ fs' = [fs EXCEPT ![i] = Partial] /\ GoTo(d, "prove")
  <2>1. /\ run' \in [Roots -> ImageRun] /\ run'[d].pc = "prove" /\ run'[d].img = i
        /\ run'[d].inv = run[d].inv /\ run'[d].outcome = run[d].outcome
    BY <1>3, GoToFacts DEF ImagePcs, cur
  <2>2. /\ fs' \in [Img -> Contents \cup {None, Partial}] /\ fs'[i] = Partial
        /\ \A j \in Img : j # i => fs'[j] = fs[j]
    BY <1>1, <1>3
  <2>3. fs[i] = None /\ rec' = rec
    BY <1>3 DEF Import, At, ImageInv, AtImage
  <2>. QED  BY <1>1, <2>1, <2>2, <2>3, ImageFsStep DEF ImagePcs
<1>4. CASE Prove(d) /\ fs' = [fs EXCEPT ![i] = p] /\ GoTo(d, "proved")
  <2>1. /\ run' \in [Roots -> ImageRun] /\ run'[d].pc = "proved" /\ run'[d].img = i
        /\ run'[d].inv = run[d].inv /\ run'[d].outcome = run[d].outcome
    BY <1>4, GoToFacts DEF ImagePcs, cur
  <2>2. /\ fs' \in [Img -> Contents \cup {None, Partial}] /\ fs'[i] = p
        /\ \A j \in Img : j # i => fs'[j] = fs[j]
    BY <1>1, <1>4
  <2>3. fs[i] = Partial /\ rec' = rec
    BY <1>4 DEF Prove, At, ImageInv, AtImage
  <2>. QED  BY <1>1, <2>1, <2>2, <2>3, ImageFsStep DEF ImagePcs
<1>5. CASE ImageDone(d) /\ fs[i] = p /\ clear_record(d, Image(i)) /\ NextImage(d)
  <2>1. /\ rec' \in [Roots -> [Targets -> Records]] /\ rec'[d][Image(i)] = None
        /\ \A u \in Targets : u # Image(i) => rec'[d][u] = rec[d][u]
    BY <1>1, <1>5, ClearFacts
  <2>2. fs' = fs  BY <1>5 DEF ImageDone
  <2>. QED  BY <1>1, <1>5, <2>1, <2>2, NextFacts, ImageFsStep
<1>. QED  BY <1>2, <1>3, <1>4, <1>5 DEF Import, Prove, ImageDone

(***************************************************************************)
(* ensure_runtime_fs: every image is in place by now.                      *)
(***************************************************************************)
LEMMA AllImported ==
  ASSUME ImageTypes, NEW d \in Roots, ImageInv(d), run[d].pc \in RuntimePcs
  PROVE  /\ \A i \in Img : Imported(d, i)
         /\ prov[d] \in [Img -> Contents] /\ prov[d] # None
         /\ fs = prov[d] /\ archive[d] = prov[d]
<1>1. \A i \in Img : Imported(d, i)
  BY DEF ImageInv, Behind
<1>2. prov[d] \in [Img -> Contents] /\ prov[d] # None
  BY <1>1, RunFacts, Nothing DEF Imported, Archived, Provenance
<1>3. \A i \in Img : fs[i] = prov[d][i] /\ archive[d][i] = prov[d][i]
  BY <1>1, Nothing DEF Imported, Archived, ImageInv, Published
<1>4. fs = prov[d]
  BY <1>2, <1>3 DEF ImageTypes
<1>5. archive[d] = prov[d]
  BY <1>2, <1>3, RunFacts DEF Provenance
<1>. QED  BY <1>1, <1>2, <1>4, <1>5

LEMMA WholeFacts ==
  ASSUME ImageTypes, NEW d \in Roots, ImageInv(d), run[d].pc \in RuntimePcs, Whole(d)
  PROVE  runtime.prov # None
         /\ runtime = [state |-> "clean", from |-> prov[d], prov |-> prov[d]]
<1>1. runtime.prov # None /\ runtime.prov = prov[d] /\ runtime.state = "clean"
  BY AllImported DEF Whole, Clean
<1>2. runtime.from = prov[d]
  BY <1>1 DEF ImageInv, RuntimePublished
<1>. QED  BY <1>1, <1>2, RunFacts DEF RuntimeFs

\* A step on the runtime, and the two steps that report it ready.
LEMMA RuntimeStep ==
  ASSUME ImageTypes, NEW d \in Roots, ImageInv(d), run[d].pc \in RuntimePcs,
         run' \in [Roots -> ImageRun], run'[d].pc \in RuntimePcs,
         run'[d].inv = run[d].inv, run'[d].outcome = run[d].outcome,
         rec' \in [Roots -> [Targets -> Records]],
         \A t \in Targets : t # Runtime => rec'[d][t] = rec[d][t],
         assets' \in [Roots -> BOOLEAN], runtime' \in RuntimeFs,
         runtime.prov # None => runtime' = runtime,
         UNCHANGED <<archive, prov, fs>>,
         RuntimePublished(d)', AtRuntime(d)'
  PROVE  ImageTypes' /\ ImageInv(d)' /\ Untouched(d)
<1>1. ImageTypes' /\ Untouched(d)  BY DEF ImageTypes, Untouched
<1>2. Published(d)'  BY DEF ImageInv, Published
<1>3. AtArchive(d)' /\ AtImage(d)' /\ Ready(d)'
  BY DEF ImageInv, AtArchive, AtImage, Ready, ImagePcs, RuntimePcs
<1>4. \A j \in Img : Imported(d, j)'
  BY AllImported, TargetFacts DEF Imported, Archived, inv
<1>5. Behind(d)'  BY <1>4 DEF Behind
<1>. QED  BY <1>1, <1>2, <1>3, <1>5 DEF ImageInv

LEMMA ReadyStep ==
  ASSUME ImageTypes, NEW d \in Roots, ImageInv(d), run[d].pc \in RuntimePcs,
         Exit(d, "ready"), Whole(d),
         rec' \in [Roots -> [Targets -> Records]], rec'[d][Runtime] = None,
         \A t \in Targets : t # Runtime => rec'[d][t] = rec[d][t],
         ~assets[d], UNCHANGED <<archive, prov, assets, fs, runtime>>
  PROVE  ImageTypes' /\ ImageInv(d)' /\ Untouched(d)
<1>1. run' \in [Roots -> ImageRun] /\ run'[d].pc = "idle" /\ run'[d].inv = run[d].inv
  BY ExitFacts DEF Outcomes
<1>2. ImageTypes' /\ Untouched(d)  BY <1>1 DEF ImageTypes, Untouched
<1>3. Published(d)' /\ RuntimePublished(d)'
  BY DEF ImageInv, Published, RuntimePublished, Clean
<1>4. AtArchive(d)' /\ AtImage(d)' /\ Behind(d)' /\ AtRuntime(d)'
  BY <1>1 DEF AtArchive, AtImage, Behind, AtRuntime, ArchivePcs, ImagePcs, RuntimePcs
<1>5. rec'[d] = [t \in Targets |-> None]
  <2>1. \A t \in Targets : rec'[d][t] = None
    BY AllImported, TargetFacts DEF Imported, Archived
  <2>. QED  BY <2>1
<1>6. Ready(d)'
  BY <1>1, <1>5, AllImported, WholeFacts DEF Ready, Imported, Archived, inv
<1>. QED  BY <1>2, <1>3, <1>4, <1>6 DEF ImageInv

LEMMA CheckRuntimeStep ==
  ASSUME ImageTypes, NEW d \in Roots, ImageInv(d), CheckRuntime(d)
  PROVE  ImageTypes' /\ ImageInv(d)' /\ Untouched(d)
<1>. DEFINE r == rec[d][Runtime]
<1>1. /\ run[d].pc = "runtime" /\ run[d].pc \in RuntimePcs /\ run[d].outcome # "ready"
      /\ UNCHANGED <<archive, prov, fs, runtime>> /\ Runtime \in Targets
      /\ assets \in [Roots -> BOOLEAN] /\ rec \in [Roots -> [Targets -> Records]]
      /\ runtime \in RuntimeFs /\ RuntimePublished(d)
  BY TargetFacts DEF CheckRuntime, At, ImageInv, Ready, RuntimePcs, ImageTypes
<1>2. RuntimePublished(d)'
  BY <1>1 DEF RuntimePublished, Clean
<1>3. ~Whole(d) => runtime.prov = None
  BY <1>1 DEF RuntimePublished, Whole
<1>4. CASE Whole(d) /\ GoTo(d, "proven") /\ UNCHANGED <<rec, assets>>
  <2>1. /\ run' \in [Roots -> ImageRun] /\ run'[d].pc = "proven"
        /\ run'[d].inv = run[d].inv /\ run'[d].outcome = run[d].outcome
    BY <1>4, GoToFacts DEF RuntimePcs
  <2>2. AtRuntime(d)'  BY <1>1, <1>4, <2>1 DEF AtRuntime, Whole, Clean
  <2>. QED  BY <1>1, <1>2, <1>4, <2>1, <2>2, RuntimeStep DEF RuntimePcs
<1>5. CASE Whole(d) /\ r = None /\ ~assets[d] /\ Exit(d, "ready") /\ UNCHANGED <<rec, assets>>
  BY <1>1, <1>5, ReadyStep
<1>6. CASE /\ ~Whole(d) /\ assets' = [assets EXCEPT ![d] = FALSE] /\ UNCHANGED rec
           /\ GoTo(d, IF runtime.state = None THEN "transport" ELSE "discard")
  <2>. DEFINE pc == IF runtime.state = None THEN "transport" ELSE "discard"
  <2>1. pc \in {"transport", "discard"} /\ GoTo(d, pc)
    BY <1>6
  <2>. HIDE DEF pc
  <2>2. /\ run' \in [Roots -> ImageRun] /\ run'[d].pc \in {"transport", "discard"}
        /\ run'[d].inv = run[d].inv /\ run'[d].outcome = run[d].outcome
    <3>1. pc \in {"idle"} \cup ArchivePcs \cup ImagePcs \cup RuntimePcs  BY <2>1 DEF RuntimePcs
    <3>. QED  BY <2>1, <3>1, GoToFacts
  <2>3. AtRuntime(d)'  BY <1>1, <1>3, <1>6, <2>2 DEF AtRuntime
  <2>4. assets' \in [Roots -> BOOLEAN]  BY <1>1, <1>6
  <2>. QED  BY <1>1, <1>2, <1>6, <2>2, <2>3, <2>4, RuntimeStep DEF RuntimePcs
<1>7. CASE /\ runtime.state = None /\ write_record(d, Runtime, RuntimeIntent(d))
           /\ GoTo(d, "transport") /\ UNCHANGED assets
  <2>1. /\ run' \in [Roots -> ImageRun] /\ run'[d].pc = "transport"
        /\ run'[d].inv = run[d].inv /\ run'[d].outcome = run[d].outcome
    BY <1>7, GoToFacts DEF RuntimePcs
  <2>2. RuntimeIntent(d) \in Records
    BY RunFacts DEF RuntimeIntent, Intent, Records
  <2>3. /\ rec' \in [Roots -> [Targets -> Records]]
        /\ \A u \in Targets : u # Runtime => rec'[d][u] = rec[d][u]
    BY <1>1, <1>7, <2>2, RecordFacts
  <2>4. runtime.prov = None  BY <1>1, <1>7 DEF RuntimePublished
  <2>5. AtRuntime(d)'  BY <1>1, <2>1, <2>4 DEF AtRuntime
  <2>. QED  BY <1>1, <1>2, <1>7, <2>1, <2>3, <2>5, RuntimeStep DEF RuntimePcs
<1>8. CASE Die(d, "refused") /\ UNCHANGED rec
  <2>1. assets' \in [Roots -> BOOLEAN]
    BY <1>1, <1>8, RunFacts DEF Die, cleanup, ImageRun
  <2>. QED  BY <1>1, <1>8, <2>1, ExitFacts, EndStep DEF Outcomes, Die
<1>. QED
  BY <1>4, <1>5, <1>6, <1>7, <1>8 DEF CheckRuntime

LEMMA DieStep ==
  ASSUME ImageTypes, NEW d \in Roots, ImageInv(d), NEW how \in Outcomes \ {"ready"}, Die(d, how),
         UNCHANGED <<archive, prov, rec, fs, runtime>>
  PROVE  ImageTypes' /\ ImageInv(d)' /\ Untouched(d)
<1>1. assets' \in [Roots -> BOOLEAN]
  BY RunFacts DEF Die, cleanup, ImageRun, ImageTypes
<1>. QED  BY <1>1, ExitFacts, EndStep DEF Die

\* Only a runtime without its provenance is discarded, and what is built is
\* what the images are.
LEMMA BuildSteps ==
  ASSUME ImageTypes, NEW d \in Roots, ImageInv(d),
         Discard(d) \/ Transport(d) \/ Build(d) \/ Built(d)
  PROVE  ImageTypes' /\ ImageInv(d)' /\ Untouched(d)
<1>1. /\ run[d].pc \in {"discard", "transport", "build", "built"} /\ run[d].pc \in RuntimePcs
      /\ UNCHANGED <<archive, prov, rec, fs>>
      /\ assets \in [Roots -> BOOLEAN] /\ rec \in [Roots -> [Targets -> Records]]
      /\ runtime \in RuntimeFs /\ runtime.prov = None /\ inv(d).proxy \in BOOLEAN
  BY RunFacts DEF Discard, Transport, Build, Built, At, ImageInv, AtRuntime, RuntimePcs, ImageTypes
<1>2. ASSUME run' \in [Roots -> ImageRun], run'[d].inv = run[d].inv,
             run'[d].outcome = run[d].outcome,
             run'[d].pc \in {"transport", "build", "built", "validate"},
             assets' \in [Roots -> BOOLEAN], runtime' \in RuntimeFs, runtime'.prov = None,
             run'[d].pc \in {"built", "validate"} => runtime'.from = prov[d]
      PROVE  ImageTypes' /\ ImageInv(d)' /\ Untouched(d)
  <2>1. RuntimePublished(d)' /\ AtRuntime(d)'
    BY <1>1, <1>2 DEF RuntimePublished, AtRuntime
  <2>. QED  BY <1>1, <1>2, <2>1, RuntimeStep DEF RuntimePcs
<1>3. CASE Discard(d)
  <2>1. runtime' \in RuntimeFs /\ runtime'.prov = None /\ assets' = assets
    BY <1>3 DEF Discard, NoRuntime, RuntimeFs
  <2>2. /\ run' \in [Roots -> ImageRun] /\ run'[d].pc = "transport"
        /\ run'[d].inv = run[d].inv /\ run'[d].outcome = run[d].outcome
    BY <1>3, GoToFacts DEF Discard, RuntimePcs
  <2>. QED  BY <1>1, <1>2, <2>1, <2>2
<1>4. CASE Transport(d)
  <2>. DEFINE r == [run[d] EXCEPT !.pc = "build", !.mine = inv(d).proxy]
  <2>1. /\ r \in ImageRun /\ r.pc = "build" /\ r.inv = run[d].inv /\ r.outcome = run[d].outcome
    BY <1>1, RunFacts DEF ImageRun, RuntimePcs
  <2>2. run' = [run EXCEPT ![d] = r]
    BY <1>4, RunFacts DEF Transport, ImageRun
  <2>. HIDE DEF r
  <2>3. assets' \in [Roots -> BOOLEAN] /\ runtime' = runtime
    BY <1>1, <1>4 DEF Transport
  <2>. QED  BY <1>1, <1>2, <2>1, <2>2, <2>3, RunFacts
<1>5. CASE Build(d) /\ Die(d, "failed") /\ UNCHANGED runtime
  BY <1>1, <1>5, DieStep DEF Outcomes
<1>6. CASE /\ Build(d) /\ runtime' = [state |-> "partial", from |-> fs, prov |-> None]
           /\ GoTo(d, "built") /\ UNCHANGED assets
  <2>1. runtime' \in RuntimeFs /\ runtime'.prov = None /\ runtime'.from = prov[d]
    BY <1>1, <1>6, AllImported DEF RuntimeFs, ImageTypes
  <2>2. /\ run' \in [Roots -> ImageRun] /\ run'[d].pc = "built"
        /\ run'[d].inv = run[d].inv /\ run'[d].outcome = run[d].outcome
    BY <1>6, GoToFacts DEF RuntimePcs
  <2>. QED  BY <1>1, <1>2, <1>6, <2>1, <2>2
<1>7. CASE Built(d)
  <2>1. runtime' \in RuntimeFs /\ runtime'.prov = None /\ runtime'.from = prov[d]
    BY <1>1, <1>7 DEF RuntimeFs, Built, At, ImageInv, AtRuntime
  <2>2. /\ run' \in [Roots -> ImageRun] /\ run'[d].pc = "validate"
        /\ run'[d].inv = run[d].inv /\ run'[d].outcome = run[d].outcome
    BY <1>7, GoToFacts DEF Built, RuntimePcs
  <2>3. assets' = assets  BY <1>7 DEF Built
  <2>. QED  BY <1>1, <1>2, <2>1, <2>2, <2>3
<1>. QED  BY <1>3, <1>4, <1>5, <1>6, <1>7 DEF Build

LEMMA ProvenSteps ==
  ASSUME ImageTypes, NEW d \in Roots, ImageInv(d),
         InstallProvenance(d) \/ ValidateRuntime(d) \/ RemoveTransport(d) \/ RuntimeDone(d)
  PROVE  ImageTypes' /\ ImageInv(d)' /\ Untouched(d)
<1>1. /\ run[d].pc \in {"validate", "installed", "proven", "settle"} /\ run[d].pc \in RuntimePcs
      /\ UNCHANGED <<archive, prov, fs>>
      /\ assets \in [Roots -> BOOLEAN] /\ rec \in [Roots -> [Targets -> Records]]
      /\ runtime \in RuntimeFs /\ RuntimePublished(d) /\ AtRuntime(d) /\ Runtime \in Targets
  BY TargetFacts
     DEF InstallProvenance, ValidateRuntime, RemoveTransport, RuntimeDone, At, ImageInv,
         RuntimePcs, ImageTypes
<1>2. UNCHANGED runtime => RuntimePublished(d)' /\ (Whole(d) => Whole(d)')
  BY <1>1 DEF RuntimePublished, Whole, Clean
<1>3. CASE /\ InstallProvenance(d) /\ Clean /\ runtime' = [runtime EXCEPT !.prov = prov[d]]
           /\ GoTo(d, "installed") /\ UNCHANGED assets
  <2>1. /\ run' \in [Roots -> ImageRun] /\ run'[d].pc = "installed"
        /\ run'[d].inv = run[d].inv /\ run'[d].outcome = run[d].outcome
    BY <1>3, GoToFacts DEF RuntimePcs
  <2>2. runtime.prov = None /\ runtime.from = prov[d] /\ run[d].pc = "validate"
    BY <1>1, <1>3 DEF InstallProvenance, At, AtRuntime
  <2>3. /\ runtime'.state = runtime.state /\ runtime'.from = runtime.from
        /\ runtime'.prov = prov[d] /\ runtime' \in RuntimeFs
    BY <1>1, <1>3, RunFacts DEF RuntimeFs
  <2>4. RuntimePublished(d)'
    BY <1>1, <1>3, <2>2, <2>3, AllImported, Nothing DEF RuntimePublished, Clean
  <2>5. AtRuntime(d)'  BY <2>1 DEF AtRuntime
  <2>6. rec' = rec  BY <1>3 DEF InstallProvenance
  <2>. QED  BY <1>1, <1>3, <2>1, <2>2, <2>3, <2>4, <2>5, <2>6, RuntimeStep DEF RuntimePcs
<1>4. CASE InstallProvenance(d) /\ Die(d, "failed") /\ UNCHANGED runtime
  BY <1>4, DieStep DEF Outcomes, InstallProvenance
<1>5. CASE ValidateRuntime(d) /\ Whole(d) /\ GoTo(d, "proven") /\ UNCHANGED assets
  <2>1. /\ run' \in [Roots -> ImageRun] /\ run'[d].pc = "proven"
        /\ run'[d].inv = run[d].inv /\ run'[d].outcome = run[d].outcome
    BY <1>5, GoToFacts DEF RuntimePcs
  <2>2. UNCHANGED <<rec, runtime>>  BY <1>5 DEF ValidateRuntime
  <2>3. AtRuntime(d)'  BY <1>2, <1>5, <2>1, <2>2 DEF AtRuntime
  <2>. QED  BY <1>1, <1>2, <1>5, <2>1, <2>2, <2>3, RuntimeStep DEF RuntimePcs
<1>6. CASE ValidateRuntime(d) /\ Die(d, "failed")
  BY <1>6, DieStep DEF Outcomes, ValidateRuntime
<1>7. CASE RemoveTransport(d)
  <2>1. /\ run' \in [Roots -> ImageRun] /\ run'[d].pc = "settle"
        /\ run'[d].inv = run[d].inv /\ run'[d].outcome = run[d].outcome
    BY <1>7, GoToFacts DEF RemoveTransport, RuntimePcs
  <2>2. /\ UNCHANGED <<rec, runtime>> /\ run[d].pc = "proven"
        /\ assets' \in [Roots -> BOOLEAN] /\ ~assets'[d]
    BY <1>1, <1>7 DEF RemoveTransport, At
  <2>3. AtRuntime(d)'  BY <1>1, <1>2, <2>1, <2>2 DEF AtRuntime
  <2>. QED  BY <1>1, <1>2, <2>1, <2>2, <2>3, RuntimeStep DEF RuntimePcs
<1>8. CASE RuntimeDone(d)
  <2>1. /\ rec' \in [Roots -> [Targets -> Records]] /\ rec'[d][Runtime] = None
        /\ \A u \in Targets : u # Runtime => rec'[d][u] = rec[d][u]
    BY <1>1, <1>8, ClearFacts DEF RuntimeDone
  <2>2. Whole(d) /\ ~assets[d] /\ Exit(d, "ready") /\ UNCHANGED <<assets, runtime>>
    BY <1>1, <1>8 DEF RuntimeDone, At, AtRuntime
  <2>. QED  BY <1>1, <2>1, <2>2, ReadyStep
<1>. QED
  BY <1>3, <1>4, <1>5, <1>6, <1>7, <1>8 DEF InstallProvenance, ValidateRuntime

LEMMA BeginStep ==
  ASSUME ImageTypes, NEW d \in Roots, ImageInv(d), NEW v \in Invocations, Begin(d, v)
  PROVE  ImageTypes' /\ ImageInv(d)' /\ Untouched(d)
<1>1. v \in Invocation  BY Nothing
<1>2. /\ run' \in [Roots -> ImageRun] /\ run'[d] = Started(v)
      /\ UNCHANGED <<archive, prov, rec, assets, fs, runtime>>
  BY <1>1, StartedFacts, RunFacts DEF Begin
<1>3. ImageTypes' /\ Untouched(d)  BY <1>2 DEF ImageTypes, Untouched
<1>4. Published(d)' /\ RuntimePublished(d)'
  BY <1>2 DEF ImageInv, Published, RuntimePublished, Clean
<1>5. Behind(d)'
  <2>1. \A j \in Img : ~(j < 1)  BY DEF Img
  <2>2. Started(v).pc = "archive" /\ Started(v).img = 1  BY <1>1, StartedFacts
  <2>3. run'[d].pc = "archive" /\ run'[d].img = 1  BY <1>2, <2>2
  <2>. QED  BY <2>1, <2>3 DEF Behind, cur, RuntimePcs
<1>6. AtArchive(d)' /\ AtImage(d)' /\ AtRuntime(d)' /\ Ready(d)'
  BY <1>1, <1>2, StartedFacts DEF AtArchive, AtImage, AtRuntime, Ready, ImagePcs
<1>. QED  BY <1>3, <1>4, <1>5, <1>6 DEF ImageInv

LEMMA ImageRunStep ==
  ASSUME ImageTypes, NEW d \in Roots, ImageInv(d),
         Step(d) \/ Fail(d) \/ Kill(d) \/ \E v \in Invocations : Begin(d, v)
  PROVE  ImageTypes' /\ ImageInv(d)' /\ Untouched(d)
<1>1. CASE Fail(d)  BY <1>1, DieStep DEF Fail, Outcomes
<1>2. CASE Kill(d)  BY <1>2, ExitFacts, EndStep DEF Kill, Outcomes, ImageTypes
<1>. QED
  BY <1>1, <1>2, BeginStep, CheckArchiveStep, PublishSteps, CheckImageStep, ImportSteps,
     CheckRuntimeStep, BuildSteps, ProvenSteps DEF Step

(***************************************************************************)
(* A step of a deployment keeps what an identity vouches for.              *)
(***************************************************************************)
StaysVouched == inside.identity # None /\ con' # None =>
  inside'.identity = inside.identity /\ inside'.config = inside.config /\ inside'.tls = inside.tls

LEMMA NoneFacts ==
  /\ None \notin Identity /\ Partial \notin Identity /\ None \notin Container
  /\ None # Partial
  /\ \A x \in Identity : /\ x.root \in Roots /\ Credentials(x) \in Identity \cup {None}
                         /\ Topology(x) \in Roots \X Topologies
  /\ Fresh \in Inside /\ Fresh.identity = None /\ Fresh.enabled = FALSE /\ Fresh.active = FALSE
<1>. QED
  BY InvocationAssumption, ContainerAssumption DEF Identity, Credentials, Topology, Fresh, Inside

LEMMA AppFacts == ASSUME DeployTypes, NEW d \in Roots
  PROVE  /\ app[d] \in DeployRun /\ want(d) = app[d].want /\ app[d].install \in BOOLEAN
         /\ inside \in Inside /\ app \in [Roots -> DeployRun]
         /\ owner[d] \in {"absent", "root", "service"}
<1>. QED  BY DEF DeployTypes, DeployRun, want

LEMMA ThenFacts ==
  ASSUME DeployTypes, NEW d \in Roots, NEW pc \in {"idle"} \cup DeployPcs, Then(d, pc)
  PROVE  /\ app' \in [Roots -> DeployRun]
         /\ app'[d].pc = pc /\ app'[d].want = want(d) /\ app'[d].install = app[d].install
<1>. DEFINE a == [app[d] EXCEPT !.pc = pc]
<1>1. a \in DeployRun /\ a.pc = pc /\ a.want = want(d) /\ a.install = app[d].install
  BY AppFacts DEF DeployRun
<1>2. app' = [app EXCEPT ![d] = a]
  BY AppFacts DEF Then, DeployRun
<1>. HIDE DEF a
<1>. QED  BY <1>1, <1>2, AppFacts

LEMMA EndFacts ==
  ASSUME DeployTypes, NEW d \in Roots, End(d, "refused") \/ End(d, "failed")
                                       \/ End(d, "stopped") \/ End(d, "deployed")
  PROVE  app' \in [Roots -> DeployRun] /\ app'[d].pc = "idle"
<1>1. PICK how \in {"refused", "failed", "stopped", "deployed"} : End(d, how)
  OBVIOUS
<1>. DEFINE a == [app[d] EXCEPT !.pc = "idle", !.outcome = how]
<1>2. a \in DeployRun /\ a.pc = "idle"
  BY AppFacts DEF DeployRun
<1>3. app' = [app EXCEPT ![d] = a]
  BY <1>1, AppFacts DEF End, DeployRun
<1>. HIDE DEF a
<1>. QED  BY <1>2, <1>3, AppFacts

\* A deployment that ends leaves what it did.
LEMMA EndDeploy ==
  ASSUME DeployTypes, Vouched, NEW d \in Roots, DeployInv(d),
         app' \in [Roots -> DeployRun], app'[d].pc = "idle",
         drec' \in [Roots -> Identity \cup {None}],
         UNCHANGED <<ivars, con, inside, owner>>
  PROVE  DeployTypes' /\ Vouched' /\ DeployInv(d)' /\ StaysVouched
<1>1. DeployTypes' /\ StaysVouched  BY DEF DeployTypes, StaysVouched
<1>2. Vouched'  BY DEF Vouched, ivars, Whole, Clean, Running
<1>3. DeployInv(d)'  BY DEF DeployInv, Locked, Installing, Doing
<1>. QED  BY <1>1, <1>2, <1>3

LEMMA DecideStep ==
  ASSUME DeployTypes, Vouched, NEW d \in Roots, DeployInv(d), Decide(d)
  PROVE  DeployTypes' /\ Vouched' /\ DeployInv(d)' /\ StaysVouched
<1>1. /\ app[d].pc = "decide" /\ want(d) \in Identity /\ want(d).root = d
      /\ run[d].pc = "idle" /\ run[d].outcome = "ready" /\ ~app[d].install
      /\ UNCHANGED <<ivars, con, inside, owner>> /\ run' = run
  BY DEF Decide, DeployInv, Locked, Installing, Doing, ivars
<1>2. Vouched' /\ StaysVouched
  BY <1>1 DEF Vouched, ivars, Whole, Clean, Running, StaysVouched
<1>3. ASSUME NEW install \in BOOLEAN, NEW pc \in {"start", "bind"},
             app' \in [Roots -> DeployRun], app'[d].pc = pc, app'[d].want = want(d),
             app'[d].install = install, drec' \in [Roots -> Identity \cup {None}],
             pc = "bind" => install, install => inside.identity = None,
             install /\ con # None => con.topo = Topology(want(d)),
             ~install => inside.identity = want(d)
      PROVE  DeployTypes' /\ DeployInv(d)'
  <2>1. DeployTypes'  BY <1>1, <1>3 DEF DeployTypes
  <2>2. Locked(d)'  BY <1>1, <1>3 DEF Locked, want
  <2>3. Installing(d)'  BY <1>1, <1>3 DEF Installing, want
  <2>. QED  BY <2>1, <2>2, <2>3 DEF DeployInv
<1>4. CASE Complete(d) /\ Then(d, "start") /\ UNCHANGED drec
  <2>1. /\ app' \in [Roots -> DeployRun] /\ app'[d].pc = "start"
        /\ app'[d].want = want(d) /\ app'[d].install = FALSE
    BY <1>1, <1>4, ThenFacts, AppFacts DEF DeployPcs
  <2>2. inside.identity = want(d)  BY <1>4 DEF Complete
  <2>. QED  BY <1>1, <1>2, <1>3, <1>4, <2>1, <2>2 DEF DeployTypes
<1>5. ASSUME NEW pc \in {"start", "bind"},
             app' = [app EXCEPT ![d].pc = pc, ![d].install = TRUE]
      PROVE  /\ app' \in [Roots -> DeployRun]
             /\ app'[d].pc = pc /\ app'[d].want = want(d) /\ app'[d].install = TRUE
  <2>. DEFINE a == [app[d] EXCEPT !.pc = pc, !.install = TRUE]
  <2>1. a \in DeployRun /\ a.pc = pc /\ a.want = want(d) /\ a.install = TRUE
    BY AppFacts DEF DeployRun, DeployPcs
  <2>2. app' = [app EXCEPT ![d] = a]
    BY <1>5, AppFacts DEF DeployRun
  <2>. HIDE DEF a
  <2>. QED  BY <2>1, <2>2, AppFacts
<1>6. CASE /\ Resumable(d) /\ app' = [app EXCEPT ![d].pc = "start", ![d].install = TRUE]
           /\ UNCHANGED drec
  <2>1. inside.identity = None /\ con.topo = Topology(want(d))
    BY <1>6 DEF Resumable, Expected
  <2>. QED  BY <1>1, <1>2, <1>3, <1>5, <1>6, <2>1 DEF DeployTypes
<1>7. CASE /\ Creatable(d) /\ drec' = [drec EXCEPT ![d] = want(d)]
           /\ app' = [app EXCEPT ![d].pc = "bind", ![d].install = TRUE]
  <2>1. con = None /\ inside.identity = None
    BY <1>7, NoneFacts DEF Creatable, Vouched
  <2>2. drec' \in [Roots -> Identity \cup {None}]
    BY <1>1, <1>7 DEF DeployTypes
  <2>. QED  BY <1>1, <1>2, <1>3, <1>5, <1>7, <2>1, <2>2
<1>8. CASE End(d, "refused") /\ UNCHANGED drec
  BY <1>1, <1>8, EndFacts, EndDeploy DEF DeployTypes
<1>. QED  BY <1>4, <1>6, <1>7, <1>8 DEF Decide

LEMMA CreateSteps ==
  ASSUME DeployTypes, Vouched, NEW d \in Roots, DeployInv(d),
         MakeBind(d) \/ Create(d) \/ EnsureStarted(d)
  PROVE  DeployTypes' /\ Vouched' /\ DeployInv(d)' /\ StaysVouched
<1>1. /\ app[d].pc \in {"bind", "create", "start"} /\ want(d) \in Identity /\ want(d).root = d
      /\ run[d].pc = "idle" /\ run[d].outcome = "ready"
      /\ UNCHANGED <<ivars, drec>> /\ run' = run /\ Installing(d)
      /\ owner \in [Roots -> {"absent", "root", "service"}] /\ con \in Container \cup {None}
      /\ drec \in [Roots -> Identity \cup {None}] /\ inside \in Inside
  BY DEF MakeBind, Create, EnsureStarted, DeployInv, Locked, Doing, ivars, DeployTypes
<1>2. ASSUME NEW how \in {"refused", "failed"}, End(d, how), UNCHANGED <<con, inside, owner>>
      PROVE  DeployTypes' /\ Vouched' /\ DeployInv(d)' /\ StaysVouched
  BY <1>1, <1>2, EndFacts, EndDeploy
<1>3. ASSUME app'[d].want = want(d) PROVE Locked(d)'
  BY <1>1, <1>3 DEF Locked, want
<1>4. CASE MakeBind(d) /\ Then(d, "create") /\ owner' = [owner EXCEPT ![d] = "root"]
           /\ owner[d] # "service"
  <2>1. /\ app' \in [Roots -> DeployRun] /\ app'[d].pc = "create"
        /\ app'[d].want = want(d) /\ app'[d].install = app[d].install
    BY <1>4, ThenFacts DEF DeployPcs
  <2>2. /\ con' = con /\ inside' = inside /\ app[d].pc = "bind" /\ app[d].install
        /\ inside.identity = None
    BY <1>1, <1>4 DEF MakeBind, Doing, Installing
  <2>3. DeployTypes' /\ StaysVouched
    BY <1>1, <1>4, <2>1, <2>2 DEF DeployTypes, StaysVouched
  <2>4. Vouched'
    BY <1>1, <2>2 DEF Vouched, Running
  <2>5. Installing(d)'
    BY <1>1, <2>1, <2>2 DEF Installing
  <2>. QED  BY <1>3, <2>1, <2>3, <2>4, <2>5 DEF DeployInv
<1>5. CASE /\ Create(d) /\ Then(d, "start") /\ inside' = Fresh
           /\ con' = [topo |-> Topology(want(d)), running |-> FALSE]
  <2>1. /\ app' \in [Roots -> DeployRun] /\ app'[d].pc = "start"
        /\ app'[d].want = want(d) /\ app'[d].install = app[d].install
    BY <1>5, ThenFacts DEF DeployPcs
  <2>2. /\ owner' = owner /\ app[d].pc = "create" /\ app[d].install /\ inside.identity = None
    BY <1>1, <1>5 DEF Create, Doing, Installing
  <2>3. con' \in Container /\ con' # None /\ con'.topo = Topology(want(d))
    <3>1. Topology(want(d)) \in Roots \X Topologies  BY <1>1, NoneFacts
    <3>2. con' \in Container /\ con'.topo = Topology(want(d))  BY <1>5, <3>1 DEF Container
    <3>. QED  BY <3>2, NoneFacts
  <2>4. DeployTypes' /\ StaysVouched
    BY <1>1, <1>5, <2>1, <2>2, <2>3, NoneFacts DEF DeployTypes, StaysVouched
  <2>5. Vouched'
    BY <1>5, <2>3, NoneFacts DEF Vouched
  <2>6. Installing(d)'
    BY <1>5, <2>1, <2>2, <2>3, NoneFacts DEF Installing, want
  <2>. QED  BY <1>3, <2>1, <2>4, <2>5, <2>6 DEF DeployInv
<1>6. CASE /\ EnsureStarted(d) /\ con # None /\ con' = [con EXCEPT !.running = TRUE]
           /\ inside' = IF Running THEN inside ELSE Up(inside.enabled)
           /\ Then(d, IF app[d].install THEN "tls" ELSE "storage")
  <2>1. /\ app' \in [Roots -> DeployRun] /\ app'[d].pc = IF app[d].install THEN "tls" ELSE "storage"
        /\ app'[d].want = want(d) /\ app'[d].install = app[d].install
    BY <1>6, ThenFacts, AppFacts DEF DeployPcs
  <2>2. owner' = owner /\ app[d].pc = "start"
    BY <1>1, <1>6 DEF EnsureStarted, Doing
  <2>3. con' \in Container /\ con' # None /\ con'.topo = con.topo /\ con'.running
    BY <1>1, <1>6, NoneFacts DEF Container
  <2>4. /\ inside' \in Inside /\ inside'.identity = inside.identity
        /\ inside'.config = inside.config /\ inside'.tls = inside.tls /\ (Written(inside') <=> Written(inside))
        /\ inside'.enabled = inside.enabled /\ (inside'.active => inside.active \/ inside.enabled)
    BY <1>1, <1>6 DEF Up, Inside, Written
  <2>5. DeployTypes' /\ StaysVouched
    BY <1>1, <2>1, <2>2, <2>3, <2>4 DEF DeployTypes, StaysVouched
  <2>6. Vouched'
    BY <1>1, <1>6, <2>2, <2>3, <2>4 DEF Vouched, Running, Whole, Clean, ivars
  <2>7. Installing(d)'
    BY <1>1, <1>6, <2>1, <2>2, <2>3, <2>4, AppFacts DEF Installing, want
  <2>. QED  BY <1>3, <2>1, <2>5, <2>6, <2>7 DEF DeployInv
<1>7. CASE MakeBind(d) /\ End(d, "refused") /\ UNCHANGED owner
  BY <1>2, <1>7 DEF MakeBind
<1>8. CASE (Create(d) \/ EnsureStarted(d)) /\ End(d, "failed") /\ UNCHANGED <<con, inside>>
  BY <1>2, <1>8 DEF Create, EnsureStarted
<1>. QED  BY <1>4, <1>5, <1>6, <1>7, <1>8 DEF MakeBind, Create, EnsureStarted

LEMMA DeployedOn ==
  ASSUME ImageTypes, NEW d \in Roots, ImageInv(d), DeployInv(d), ~Doing(d, "idle")
  PROVE  /\ Whole(d) /\ runtime.prov # None
         /\ want(d) \in Identity /\ want(d).root = d /\ run[d].pc = "idle"
<1>1. runtime = [state |-> "clean", from |-> prov[d], prov |-> prov[d]]
      /\ \A i \in Img : prov[d][i] \in Contents
  BY DEF DeployInv, Locked, ImageInv, Ready
<1>2. prov[d] # None
  BY <1>1, RunFacts, Nothing DEF Provenance
<1>. QED  BY <1>1, <1>2 DEF Whole, Clean, DeployInv, Locked

\* A command in the container changes something of what is installed.
LEMMA CommandStep ==
  ASSUME ImageTypes, DeployTypes, Vouched, NEW d \in Roots, ImageInv(d), DeployInv(d),
         ~Doing(d, "idle"), Running,
         NEW pc \in DeployPcs, Then(d, pc), UNCHANGED <<ivars, con, drec>>,
         owner' \in [Roots -> {"absent", "root", "service"}],
         \A e \in Roots : owner[e] = "service" => owner'[e] = "service",
         inside' \in Inside, StaysVouched, Written(inside) => Written(inside'),
         inside'.identity # None =>
           inside'.identity = inside.identity \/ /\ con.topo = Topology(inside'.identity)
                                                 /\ inside'.config = inside'.identity
                                                 /\ inside'.tls = Credentials(inside'.identity),
         inside'.enabled => inside.enabled \/ /\ inside'.identity = want(d) /\ Written(inside')
                                              /\ owner'[d] = "service",
         inside'.active => inside'.enabled,
         Installing(d)'
  PROVE  DeployTypes' /\ Vouched' /\ DeployInv(d)' /\ StaysVouched
<1>1. /\ app' \in [Roots -> DeployRun] /\ app'[d].want = want(d)
      /\ want(d) \in Identity /\ want(d).root = d /\ con # None /\ con' = con
      /\ Whole(d) /\ runtime.prov # None
  BY ThenFacts, DeployedOn DEF Running
<1>2. DeployTypes'  BY <1>1 DEF DeployTypes
<1>3. Locked(d)'  BY <1>1 DEF DeployInv, Locked, want, ivars
<1>5. inside.identity \in Identity \cup {None}  BY DEF DeployTypes, Inside
<1>6. inside'.enabled =>
        /\ inside'.identity # None /\ Written(inside')
        /\ owner'[inside'.identity.root] = "service"
        /\ Whole(inside.identity.root)' /\ runtime'.prov # None
  <2>. SUFFICES ASSUME inside'.enabled
                PROVE  /\ inside'.identity # None /\ Written(inside')
                       /\ owner'[inside'.identity.root] = "service"
                       /\ Whole(inside.identity.root)' /\ runtime'.prov # None
    OBVIOUS
  <2>1. CASE inside.enabled
    <3>1. inside.identity # None /\ Written(inside) /\ owner[inside.identity.root] = "service"
          /\ Whole(inside.identity.root) /\ runtime.prov # None
      BY <2>1 DEF Vouched
    <3>2. inside'.identity = inside.identity /\ inside.identity.root \in Roots
      BY <1>1, <1>5, <3>1, NoneFacts DEF StaysVouched
    <3>3. Whole(inside.identity.root)'
      BY <3>1, <3>2 DEF Whole, Clean, ivars
    <3>. QED  BY <3>1, <3>2, <3>3 DEF ivars
  <2>2. CASE /\ inside'.identity = want(d) /\ Written(inside') /\ owner'[d] = "service"
    <3>1. Whole(inside.identity.root)'
      BY <1>1, <2>2 DEF Whole, Clean, ivars
    <3>. QED  BY <1>1, <2>2, <3>1, NoneFacts DEF ivars
  <2>. QED  BY <2>1, <2>2
<1>7. inside'.identity # None =>
        /\ con'.topo = Topology(inside'.identity)
        /\ inside'.config = inside'.identity /\ inside'.tls = Credentials(inside'.identity)
  BY <1>1 DEF Vouched, StaysVouched
<1>8. Vouched'
  <2>1. (con' = None => inside' = Fresh) /\ Running'  BY <1>1 DEF Running
  <2>. QED  BY <1>6, <1>7, <2>1 DEF Vouched
<1>. QED  BY <1>2, <1>3, <1>8 DEF DeployInv

\* What each command installs, in the order of Installing.
LEMMA InstallSteps ==
  ASSUME ImageTypes, DeployTypes, Vouched, NEW d \in Roots, ImageInv(d), DeployInv(d),
         InstallTls(d) \/ PublishTls(d) \/ CopyAssets(d) \/ AssetsCopied(d)
  PROVE  DeployTypes' /\ Vouched' /\ DeployInv(d)' /\ StaysVouched
<1>1. /\ app[d].pc \in {"tls", "publish tls", "assets", "copied"} /\ ~Doing(d, "idle")
      /\ app[d].install /\ inside.identity = None /\ ~inside.enabled /\ ~inside.active
      /\ Installing(d) /\ inside \in Inside
      /\ UNCHANGED <<ivars, con, drec>> /\ con' = con
      /\ owner \in [Roots -> {"absent", "root", "service"}]
      /\ want(d) \in Identity /\ want(d) = app[d].want
      /\ Credentials(want(d)) \in Identity \cup {None}
  BY NoneFacts DEF InstallTls, PublishTls, CopyAssets, AssetsCopied, Command, Doing, DeployInv,
                   Installing, Vouched, DeployTypes, Locked, want
<1>2. ASSUME UNCHANGED <<inside, owner>>, End(d, "failed")
      PROVE  DeployTypes' /\ Vouched' /\ DeployInv(d)' /\ StaysVouched
  <2>1. drec' \in [Roots -> Identity \cup {None}]  BY <1>1 DEF DeployTypes
  <2>. QED  BY <1>1, <1>2, <2>1, EndFacts, EndDeploy
<1>3. ASSUME Running, NEW pc \in {"publish tls", "assets", "copied", "storage"}, Then(d, pc),
             UNCHANGED owner, inside' \in Inside,
             inside'.identity = None, ~inside'.enabled, ~inside'.active,
             (Written(inside') <=> Written(inside)),
             pc \in {"assets", "copied", "storage"} => inside'.tls = Credentials(want(d)),
             pc = "storage" => inside'.config = want(d)
      PROVE  DeployTypes' /\ Vouched' /\ DeployInv(d)' /\ StaysVouched
  <2>1. /\ pc \in DeployPcs /\ pc \in {"idle"} \cup DeployPcs
    BY DEF DeployPcs
  <2>2. app'[d].pc = pc /\ app'[d].want = want(d) /\ app'[d].install = app[d].install
    BY <1>3, <2>1, ThenFacts
  <2>3. con # None /\ con.topo = Topology(want(d))
    BY <1>1, <1>3 DEF Running, Installing
  <2>4. Installing(d)'
    BY <1>1, <1>3, <2>2, <2>3 DEF Installing, want
  <2>5. StaysVouched  BY <1>1 DEF StaysVouched
  <2>. QED  BY <1>1, <1>3, <2>1, <2>4, <2>5, CommandStep
<1>4. CASE /\ InstallTls(d) /\ Running /\ inside.tls = Credentials(want(d))
           /\ Then(d, "assets") /\ UNCHANGED <<inside, owner>>
  BY <1>1, <1>3, <1>4
<1>5. CASE /\ InstallTls(d) /\ Running /\ inside' = [inside EXCEPT !.stage = TRUE]
           /\ Then(d, "publish tls") /\ UNCHANGED owner
  <2>1. /\ inside' \in Inside /\ inside'.identity = inside.identity /\ (Written(inside') <=> Written(inside))
        /\ inside'.enabled = inside.enabled /\ inside'.active = inside.active
    BY <1>1, <1>5 DEF Inside, Written
  <2>. QED  BY <1>1, <1>3, <1>5, <2>1
<1>6. CASE /\ PublishTls(d) /\ Running /\ Then(d, "assets") /\ UNCHANGED owner
           /\ inside' = [inside EXCEPT !.stage = FALSE, !.tls = Credentials(want(d))]
  <2>1. /\ inside' \in Inside /\ inside'.identity = inside.identity /\ (Written(inside') <=> Written(inside))
        /\ inside'.enabled = inside.enabled /\ inside'.active = inside.active
        /\ inside'.tls = Credentials(want(d))
    BY <1>1, <1>6 DEF Inside, Written
  <2>. QED  BY <1>1, <1>3, <1>6, <2>1
<1>7. CASE /\ CopyAssets(d) /\ Running /\ Then(d, "copied") /\ UNCHANGED owner
           /\ inside' = [inside EXCEPT !.config = Partial]
  <2>1. /\ inside' \in Inside /\ inside'.identity = inside.identity /\ (Written(inside') <=> Written(inside))
        /\ inside'.enabled = inside.enabled /\ inside'.active = inside.active
        /\ inside'.tls = inside.tls
    BY <1>1, <1>7 DEF Inside, Written
  <2>2. con # None /\ app[d].pc = "assets"
    BY <1>7 DEF Running, CopyAssets, Command, Doing
  <2>3. inside.tls = Credentials(want(d))
    BY <1>1, <2>2 DEF Installing
  <2>. QED  BY <1>1, <1>3, <1>7, <2>1, <2>3
<1>8. CASE /\ AssetsCopied(d) /\ Running /\ Then(d, "storage") /\ UNCHANGED owner
           /\ inside' = [inside EXCEPT !.config = want(d)]
  <2>1. /\ inside' \in Inside /\ inside'.identity = inside.identity /\ (Written(inside') <=> Written(inside))
        /\ inside'.enabled = inside.enabled /\ inside'.active = inside.active
        /\ inside'.tls = inside.tls /\ inside'.config = want(d)
    BY <1>1, <1>8 DEF Inside, Written
  <2>2. con # None /\ app[d].pc = "copied"
    BY <1>8 DEF Running, AssetsCopied, Command, Doing
  <2>3. inside.tls = Credentials(want(d))
    BY <1>1, <2>2 DEF Installing
  <2>. QED  BY <1>1, <1>3, <1>8, <2>1, <2>3
<1>. QED
  BY <1>2, <1>4, <1>5, <1>6, <1>7, <1>8
     DEF InstallTls, PublishTls, CopyAssets, AssetsCopied, Command

\* A fresh installation gets its identity last, and only a container with an
\* identity gets its service enabled.
LEMMA ServiceSteps ==
  ASSUME ImageTypes, DeployTypes, Vouched, NEW d \in Roots, ImageInv(d), DeployInv(d),
         \/ PrepareStorage(d) \/ CopyEnvironment(d) \/ EnvironmentCopied(d) \/ PublishIdentity(d)
         \/ Enable(d) \/ Restart(d)
  PROVE  DeployTypes' /\ Vouched' /\ DeployInv(d)' /\ StaysVouched
<1>1. /\ app[d].pc \in {"storage", "env", "environment", "identity", "enable", "restart"} /\ ~Doing(d, "idle")
      /\ Installing(d) /\ inside \in Inside /\ app[d].install \in BOOLEAN
      /\ UNCHANGED <<ivars, con, drec>> /\ con' = con
      /\ owner \in [Roots -> {"absent", "root", "service"}]
      /\ want(d) \in Identity /\ want(d) = app[d].want /\ want(d) # None
  BY AppFacts, NoneFacts
     DEF PrepareStorage, CopyEnvironment, EnvironmentCopied, PublishIdentity, Enable, Restart, Command, Doing,
         DeployInv, DeployTypes, Locked, want
<1>2. ASSUME UNCHANGED <<inside, owner>>, End(d, "failed")
      PROVE  DeployTypes' /\ Vouched' /\ DeployInv(d)' /\ StaysVouched
  <2>1. drec' \in [Roots -> Identity \cup {None}]  BY <1>1 DEF DeployTypes
  <2>. QED  BY <1>1, <1>2, <2>1, EndFacts, EndDeploy
<1>3. ASSUME NEW pc \in {"env", "environment", "identity", "enable", "restart", "finish"}, Then(d, pc)
      PROVE  /\ pc \in DeployPcs
             /\ app'[d].pc = pc /\ app'[d].want = want(d) /\ app'[d].install = app[d].install
  <2>1. pc \in DeployPcs /\ pc \in {"idle"} \cup DeployPcs  BY DEF DeployPcs
  <2>. QED  BY <1>3, <2>1, ThenFacts
<1>4. CASE /\ PrepareStorage(d) /\ Running /\ owner' = [owner EXCEPT ![d] = "service"]
           /\ Then(d, "env") /\ UNCHANGED inside
  <2>1. app[d].pc = "storage" /\ con # None
    BY <1>4 DEF PrepareStorage, Command, Doing, Running
  <2>2. /\ owner' \in [Roots -> {"absent", "root", "service"}] /\ owner'[d] = "service"
        /\ \A e \in Roots : owner[e] = "service" => owner'[e] = "service"
    BY <1>1, <1>4
  <2>3. Installing(d)'
    BY <1>1, <1>3, <1>4, <2>1, <2>2 DEF Installing, want
  <2>4. StaysVouched /\ (inside'.active => inside'.enabled)
    BY <1>4 DEF StaysVouched, Vouched
  <2>. QED  BY <1>1, <1>3, <1>4, <2>2, <2>3, <2>4, CommandStep
<1>9. CASE /\ CopyEnvironment(d) /\ Running /\ Then(d, "environment") /\ UNCHANGED owner
           /\ inside' = [inside EXCEPT !.env = IF Written(inside) THEN "rewritten" ELSE "torn"]
  <2>1. app[d].pc = "env" /\ con # None
    BY <1>9 DEF CopyEnvironment, Command, Doing, Running
  <2>2. /\ inside' \in Inside /\ inside'.identity = inside.identity
        /\ (Written(inside') <=> Written(inside))
        /\ inside'.enabled = inside.enabled /\ inside'.active = inside.active
        /\ inside'.tls = inside.tls /\ inside'.config = inside.config
    <3>. DEFINE env == IF Written(inside) THEN "rewritten" ELSE "torn"
    <3>1. env \in {"torn", "rewritten"} /\ (env = "rewritten" <=> Written(inside))
      OBVIOUS
    <3>2. inside' = [inside EXCEPT !.env = env]
      BY <1>9
    <3>. HIDE DEF env
    <3>3. inside' \in Inside /\ inside'.env = env
      BY <1>1, <3>1, <3>2 DEF Inside
    <3>4. Written(inside') <=> env = "rewritten"
      BY <3>1, <3>3 DEF Written
    <3>. QED  BY <1>1, <3>1, <3>2, <3>3, <3>4 DEF Inside
  <2>3. Installing(d)'
    BY <1>1, <1>3, <1>9, <2>1, <2>2 DEF Installing, want
  <2>4. StaysVouched /\ (inside'.active => inside'.enabled)
    BY <2>2 DEF StaysVouched, Vouched
  <2>. QED  BY <1>1, <1>3, <1>9, <2>2, <2>3, <2>4, CommandStep
<1>5. CASE /\ EnvironmentCopied(d) /\ Running /\ inside' = [inside EXCEPT !.env = "whole"]
           /\ Then(d, IF app[d].install THEN "identity" ELSE "enable") /\ UNCHANGED owner
  <2>. DEFINE pc == IF app[d].install THEN "identity" ELSE "enable"
  <2>1. app[d].pc = "environment" /\ con # None
    BY <1>5 DEF EnvironmentCopied, Command, Doing, Running
  <2>2. /\ inside' \in Inside /\ inside'.identity = inside.identity /\ Written(inside')
        /\ inside'.enabled = inside.enabled /\ inside'.active = inside.active
        /\ inside'.tls = inside.tls /\ inside'.config = inside.config
    BY <1>1, <1>5 DEF Inside, Written
  <2>3. pc \in {"identity", "enable"} /\ Then(d, pc) /\ (pc = "identity" <=> app[d].install)
    BY <1>1, <1>5
  <2>. HIDE DEF pc
  <2>4. Installing(d)'
    <3>1. app'[d].pc = pc /\ app'[d].want = want(d) /\ app'[d].install = app[d].install
      BY <1>3, <2>3
    <3>. QED  BY <1>1, <1>5, <2>1, <2>2, <2>3, <3>1 DEF Installing, want
  <2>5. StaysVouched /\ (inside'.active => inside'.enabled)
    BY <2>2 DEF StaysVouched, Vouched
  <2>6. pc \in DeployPcs  BY <2>3 DEF DeployPcs
  <2>. QED  BY <1>1, <1>5, <2>2, <2>3, <2>4, <2>5, <2>6, CommandStep
<1>6. CASE /\ PublishIdentity(d) /\ Running /\ inside.identity = None
           /\ inside' = [inside EXCEPT !.identity = want(d)]
           /\ Then(d, "enable") /\ UNCHANGED owner
  <2>1. app[d].pc = "identity" /\ con # None
    BY <1>6 DEF PublishIdentity, Command, Doing, Running
  <2>2. /\ inside' \in Inside /\ inside'.identity = want(d) /\ (Written(inside') <=> Written(inside))
        /\ inside'.enabled = inside.enabled /\ inside'.active = inside.active
        /\ inside'.tls = inside.tls /\ inside'.config = inside.config
    BY <1>1, <1>6 DEF Inside, Written
  <2>3. /\ con.topo = Topology(want(d)) /\ inside.config = want(d)
        /\ inside.tls = Credentials(want(d)) /\ Written(inside)
    BY <1>1, <2>1 DEF Installing
  <2>4. Installing(d)'
    BY <1>1, <1>3, <1>6, <2>1, <2>2, <2>3 DEF Installing, want
  <2>5. StaysVouched /\ (inside'.active => inside'.enabled)
    BY <1>6, <2>2 DEF StaysVouched, Vouched
  <2>. QED  BY <1>1, <1>3, <1>6, <2>2, <2>3, <2>4, <2>5, CommandStep
<1>7. CASE /\ Enable(d) /\ Running /\ inside' = [inside EXCEPT !.enabled = TRUE]
           /\ Then(d, "restart") /\ UNCHANGED owner
  <2>1. app[d].pc = "enable" /\ con # None
    BY <1>7 DEF Enable, Command, Doing, Running
  <2>2. /\ inside' \in Inside /\ inside'.identity = inside.identity /\ (Written(inside') <=> Written(inside))
        /\ inside'.enabled = TRUE /\ inside'.active = inside.active
        /\ inside'.tls = inside.tls /\ inside'.config = inside.config
    BY <1>1, <1>7 DEF Inside, Written
  <2>3. inside.identity = want(d) /\ Written(inside) /\ owner[d] = "service"
    BY <1>1, <2>1 DEF Installing
  <2>4. Installing(d)'
    BY <1>1, <1>3, <1>7, <2>1, <2>2, <2>3 DEF Installing, want
  <2>5. StaysVouched
    BY <2>2 DEF StaysVouched
  <2>. QED  BY <1>1, <1>3, <1>7, <2>2, <2>3, <2>4, <2>5, CommandStep
<1>8. CASE Restart(d) /\ Running /\ inside' = Up(TRUE) /\ Then(d, "finish") /\ UNCHANGED owner
  <2>1. app[d].pc = "restart" /\ con # None
    BY <1>8 DEF Restart, Command, Doing, Running
  <2>2. /\ inside' \in Inside /\ inside'.identity = inside.identity /\ (Written(inside') <=> Written(inside))
        /\ inside'.enabled = inside.enabled
        /\ inside'.tls = inside.tls /\ inside'.config = inside.config
    BY <1>1, <1>8 DEF Inside, Up, Written
  <2>3. inside.enabled
    BY <1>1, <2>1 DEF Installing
  <2>4. Installing(d)'
    BY <1>1, <1>3, <1>8, <2>2 DEF Installing
  <2>5. StaysVouched
    BY <2>2 DEF StaysVouched
  <2>. QED  BY <1>1, <1>3, <1>8, <2>2, <2>3, <2>4, <2>5, CommandStep
<1>. QED
  BY <1>2, <1>4, <1>5, <1>6, <1>7, <1>8, <1>9
     DEF PrepareStorage, CopyEnvironment, EnvironmentCopied, PublishIdentity, Enable, Restart, Command

LEMMA EndSteps ==
  ASSUME DeployTypes, Vouched, NEW d \in Roots, DeployInv(d), Finish(d) \/ Stopped(d)
  PROVE  DeployTypes' /\ Vouched' /\ DeployInv(d)' /\ StaysVouched
<1>1. drec' \in [Roots -> Identity \cup {None}]
  BY DEF Finish, Stopped, DeployTypes
<1>. QED  BY <1>1, EndFacts, EndDeploy DEF Finish, Stopped

LEMMA DeployBegins ==
  ASSUME DeployTypes, Vouched, NEW d \in Roots, DeployInv(d), NEW x \in Identity, Deploy(d, x)
  PROVE  DeployTypes' /\ Vouched' /\ DeployInv(d)' /\ StaysVouched
<1>. DEFINE a == [Off EXCEPT !.pc = "decide", !.want = x]
<1>1. a \in DeployRun /\ a.pc = "decide" /\ a.want = x /\ a.install = FALSE
  BY DEF Off, DeployRun, DeployPcs
<1>2. app' = [app EXCEPT ![d] = a]
  BY DEF Deploy
<1>. HIDE DEF a
<1>3. app' \in [Roots -> DeployRun] /\ app'[d] = a
  BY <1>1, <1>2 DEF DeployTypes
<1>4. /\ UNCHANGED <<ivars, con, inside, owner, drec>>
      /\ run'[d].pc = "idle" /\ run'[d].outcome = "ready" /\ x.root = d
  BY DEF Deploy, At, ivars
<1>5. DeployTypes' /\ StaysVouched  BY <1>3, <1>4 DEF DeployTypes, StaysVouched
<1>6. Vouched'  BY <1>4 DEF Vouched, ivars, Whole, Clean, Running
<1>7. DeployInv(d)'  BY <1>1, <1>3, <1>4 DEF DeployInv, Locked, Installing, want
<1>. QED  BY <1>5, <1>6, <1>7

\* The operator, and the host's boot.
LEMMA OperatorSteps ==
  ASSUME DeployTypes, Vouched, LifecycleStart \/ LifecycleStop \/ Remove
  PROVE  /\ DeployTypes' /\ Vouched' /\ StaysVouched
         /\ \A d \in Roots : DeployInv(d) => DeployInv(d)'
<1>1. /\ con \in Container \cup {None} /\ inside \in Inside /\ con # None
      /\ UNCHANGED <<ivars, owner, drec, app>>
  BY DEF DeployTypes, LifecycleStart, LifecycleStop, Remove, Running
<1>2. \A d \in Roots : Locked(d) => Locked(d)'
  BY <1>1 DEF Locked, Doing, want, ivars
<1>3. CASE LifecycleStart \/ LifecycleStop
  <2>1. con' \in Container /\ con' # None /\ con'.topo = con.topo
        /\ (LifecycleStart => con'.running)
    BY <1>1, <1>3, NoneFacts DEF LifecycleStart, LifecycleStop, Container
  <2>2. /\ inside' \in Inside /\ inside'.identity = inside.identity /\ (Written(inside') <=> Written(inside))
        /\ inside'.enabled = inside.enabled /\ inside'.tls = inside.tls
        /\ inside'.config = inside.config
        /\ inside'.active => LifecycleStart /\ inside.enabled
    BY <1>1, <1>3 DEF LifecycleStart, LifecycleStop, Up, Inside, Written
  <2>3. DeployTypes' /\ StaysVouched
    BY <1>1, <2>1, <2>2 DEF DeployTypes, StaysVouched
  <2>4. Vouched'
    BY <1>1, <2>1, <2>2 DEF Vouched, Running, Whole, Clean, ivars
  <2>5. \A d \in Roots : Installing(d) => Installing(d)'
    <3>. SUFFICES ASSUME NEW d \in Roots, Installing(d) PROVE Installing(d)'
      OBVIOUS
    <3>. QED  BY <1>1, <2>1, <2>2 DEF Installing, want
  <2>. QED  BY <1>2, <2>3, <2>4, <2>5 DEF DeployInv
<1>4. CASE Remove
  <2>1. con' = None /\ inside' = Fresh  BY <1>4 DEF Remove
  <2>2. DeployTypes' /\ StaysVouched
    BY <1>1, <2>1, NoneFacts DEF DeployTypes, StaysVouched
  <2>3. Vouched'
    BY <2>1, NoneFacts DEF Vouched
  <2>4. \A d \in Roots : Installing(d) => Installing(d)'
    BY <1>1, <2>1, NoneFacts DEF Installing
  <2>. QED  BY <1>2, <2>2, <2>3, <2>4 DEF DeployInv
<1>. QED  BY <1>3, <1>4

(***************************************************************************)
(* Every step.                                                             *)
(***************************************************************************)
Kept == AllInv' /\ PublishedUntouched /\ StaysVouched

LEMMA ImageKept == ASSUME ImageTypes, UNCHANGED ivars
  PROVE  /\ ImageTypes' /\ PublishedUntouched
         /\ \A d \in Roots : ImageInv(d) => ImageInv(d)'
<1>1. ImageTypes' /\ PublishedUntouched
  BY DEF ImageTypes, PublishedUntouched, ivars
<1>2. ASSUME NEW d \in Roots, ImageInv(d) PROVE ImageInv(d)'
  <2>1. Published(d)' /\ RuntimePublished(d)'
    BY <1>2 DEF ImageInv, Published, RuntimePublished, Clean, ivars
  <2>2. AtArchive(d)' /\ AtImage(d)' /\ Behind(d)'
    BY <1>2 DEF ImageInv, AtArchive, AtImage, Behind, Imported, Archived, cur, inv, source, ivars
  <2>3. AtRuntime(d)' /\ Ready(d)'
    BY <1>2 DEF ImageInv, AtRuntime, Ready, Whole, Clean, inv, ivars
  <2>. QED  BY <2>1, <2>2, <2>3 DEF ImageInv
<1>. QED  BY <1>1, <1>2

LEMMA StepIsUnderWay == ASSUME NEW d \in Roots, Step(d) \/ Fail(d) \/ Kill(d)
  PROVE  run[d].pc # "idle"
<1>. QED
  BY DEF Step, Fail, Kill, At, CheckArchive, Acquire, PublishArchive, PublishProvenance,
         ArchiveDone, CheckImage, Import, Prove, ImageDone, CheckRuntime, Discard, Transport,
         Build, Built, InstallProvenance, ValidateRuntime, RemoveTransport, RuntimeDone

LEMMA ImageMoves == ASSUME OneRoot, AllInv, ImageStep PROVE Kept
<1>1. PICK d \in Roots : Step(d) \/ Fail(d) \/ Kill(d)
                         \/ (Doing(d, "idle") /\ \E v \in Invocations : Begin(d, v))
  BY DEF ImageStep
<1>2. /\ \A e \in Roots : e = d
      /\ ImageTypes /\ DeployTypes /\ Vouched /\ ImageInv(d) /\ DeployInv(d)
      /\ UNCHANGED <<con, inside, owner, drec, app>>
  BY DEF OneRoot, AllInv, ImageStep, dvars
<1>3. ImageTypes' /\ ImageInv(d)' /\ Untouched(d)
  BY <1>1, <1>2, ImageRunStep
<1>4. PublishedUntouched
  BY <1>2, <1>3 DEF Untouched, PublishedUntouched
<1>5. Doing(d, "idle")
  BY <1>1, <1>2, StepIsUnderWay DEF DeployInv, Locked
<1>6. DeployInv(d)' /\ DeployTypes' /\ StaysVouched
  BY <1>2, <1>5 DEF DeployInv, Locked, Installing, Doing, want, DeployTypes, StaysVouched
<1>7. Vouched'
  <2>1. ASSUME runtime.prov # None PROVE runtime' = runtime /\ prov'[d] = prov[d]
    <3>1. \A i \in Img : prov'[d][i] = prov[d][i]
      BY <1>2, <1>3, <2>1, Nothing DEF ImageInv, RuntimePublished, Untouched
    <3>2. prov'[d] \in Provenance /\ prov[d] \in Provenance
      BY <1>2, <1>3 DEF ImageTypes
    <3>. QED  BY <1>3, <2>1, <3>1, <3>2 DEF Untouched, Provenance
  <2>2. inside.identity # None => inside.identity.root = d
    BY <1>2, NoneFacts DEF DeployTypes, Inside
  <2>. QED  BY <1>2, <2>1, <2>2 DEF Vouched, Whole, Clean, Running
<1>. QED  BY <1>2, <1>3, <1>4, <1>6, <1>7 DEF AllInv, Kept

LEMMA DeployMoves ==
  ASSUME OneRoot, AllInv, NEW d \in Roots,
         DeployStep(d) \/ Stopped(d) \/ \E x \in Identity : Deploy(d, x)
  PROVE  Kept
<1>1. /\ \A e \in Roots : e = d
      /\ ImageTypes /\ DeployTypes /\ Vouched /\ ImageInv(d) /\ DeployInv(d)
  BY DEF OneRoot, AllInv
<1>2. UNCHANGED ivars
  BY DEF DeployStep, Stopped, Deploy, Decide, MakeBind, Create, EnsureStarted, InstallTls,
         PublishTls, CopyAssets, AssetsCopied, PrepareStorage, CopyEnvironment, EnvironmentCopied,
         PublishIdentity, Enable, Restart, Finish, Command
<1>3. ImageTypes' /\ ImageInv(d)' /\ PublishedUntouched
  BY <1>1, <1>2, ImageKept
<1>4. DeployTypes' /\ Vouched' /\ DeployInv(d)' /\ StaysVouched
  BY <1>1, DecideStep, CreateSteps, InstallSteps, ServiceSteps, EndSteps, DeployBegins
     DEF DeployStep
<1>. QED  BY <1>1, <1>3, <1>4 DEF AllInv, Kept

LEMMA EveryStep == ASSUME OneRoot, AllInv, [DNext]_vars PROVE Kept
<1>1. CASE LifecycleStart \/ LifecycleStop \/ Remove
  <2>1. UNCHANGED ivars  BY <1>1 DEF LifecycleStart, LifecycleStop, Remove
  <2>. QED  BY <1>1, <2>1, OperatorSteps, ImageKept DEF AllInv, Kept
<1>2. CASE UNCHANGED vars
  <2>1. UNCHANGED ivars /\ UNCHANGED <<con, inside, owner, drec, app>>
    BY <1>2 DEF vars, dvars
  <2>2. DeployTypes' /\ StaysVouched
    BY <2>1 DEF AllInv, DeployTypes, StaysVouched
  <2>3. Vouched'
    BY <2>1 DEF AllInv, Vouched, Whole, Clean, Running, ivars
  <2>4. \A d \in Roots : DeployInv(d)'
    <3>. SUFFICES ASSUME NEW d \in Roots PROVE DeployInv(d)'
      OBVIOUS
    <3>. QED  BY <2>1 DEF AllInv, DeployInv, Locked, Installing, Doing, want, ivars
  <2>. QED  BY <2>1, <2>2, <2>3, <2>4, ImageKept DEF AllInv, Kept
<1>. QED  BY <1>1, <1>2, ImageMoves, DeployMoves DEF DNext

LEMMA AtFirst == ASSUME DInit PROVE AllInv
<1>1. PICK v \in Invocations : run = [d \in Roots |-> [Started(v) EXCEPT !.pc = "idle"]]
  BY DEF DInit, Init
<1>. DEFINE r == [Started(v) EXCEPT !.pc = "idle"]
<1>2. r \in ImageRun /\ r.pc = "idle" /\ r.outcome = "none"
  <2>1. v \in Invocation  BY Nothing
  <2>2. Started(v) \in ImageRun /\ Started(v).outcome = "none"  BY <2>1, StartedFacts
  <2>. QED  BY <2>2 DEF ImageRun
<1>3. \A d \in Roots : run[d].pc = "idle" /\ run[d].outcome = "none"
  BY <1>1, <1>2
<1>4. NoRuntime \in RuntimeFs /\ NoRuntime.state = None /\ NoRuntime.prov = None
  BY DEF NoRuntime, RuntimeFs
<1>5. ImageTypes
  BY <1>1, <1>2, <1>4 DEF ImageTypes, DInit, Init, Provenance, Records
<1>6. ASSUME NEW d \in Roots PROVE ImageInv(d)
  <2>1. Published(d) /\ RuntimePublished(d)
    BY <1>4 DEF Published, RuntimePublished, DInit, Init
  <2>2. AtArchive(d) /\ AtImage(d) /\ Behind(d) /\ AtRuntime(d) /\ Ready(d)
    BY <1>3 DEF AtArchive, AtImage, Behind, AtRuntime, Ready, ImagePcs, RuntimePcs
  <2>. QED  BY <2>1, <2>2 DEF ImageInv
<1>7. DeployTypes /\ Vouched
  BY NoneFacts DEF DeployTypes, Vouched, DInit, Off, DeployRun
<1>8. ASSUME NEW d \in Roots PROVE DeployInv(d)
  <2>1. app[d].pc = "idle" /\ con = None  BY DEF DInit, Off
  <2>. QED  BY <2>1 DEF DeployInv, Locked, Installing, Doing
<1>. QED  BY <1>5, <1>6, <1>7, <1>8 DEF AllInv

LEMMA Invariance == ASSUME OneRoot PROVE DSpec => []AllInv
<1>1. DInit => AllInv  BY AtFirst
<1>2. AllInv /\ [DNext]_vars => AllInv'  BY EveryStep DEF Kept
<1>. QED  BY <1>1, <1>2, PTL DEF DSpec

(***************************************************************************)
(* What the records of a root say, and why a run ended.                    *)
(***************************************************************************)
\* An archive without provenance has a record, and a record names one archive.
ArchiveRecord(d, i) ==
  LET r == rec[d][Archive(i)]
  IN /\ r # None => \E c \in Contents :
          /\ r = Intent(c.acq, c)
          /\ archive[d][i] \in {None, c} /\ prov[d][i] \in {None, c}
     /\ archive[d][i] # None /\ prov[d][i] = None => r # None

\* A filesystem without provenance has a record, and it is the archive's.
ImageRecord(d, i) ==
  LET r == rec[d][Image(i)]
  IN /\ r # None => prov[d][i] # None /\ r = Intent(prov[d][i], prov[d][i])
     /\ fs[i] = Partial => r # None

\* So has a runtime, and transport files are there only for a proxy.
RuntimeRecord(d) ==
  LET r == rec[d][Runtime]
  IN /\ r # None =>
          /\ \E proxy \in BOOLEAN : r = Intent([prov |-> prov[d], proxy |-> proxy], prov[d])
          /\ \A i \in Img : prov[d][i] # None
     /\ runtime.state # None /\ runtime.prov = None => r # None
     /\ assets[d] => r # None /\ r.intent.proxy

\* What a run under way has in its hands.
UnderWay(d) ==
  /\ run[d].pc # "idle" => run[d].outcome = "none"
  /\ run[d].pc \in {"acquire", "publish"} => archive[d][cur(d)] = None
  /\ run[d].pc = "acquire" => rec[d][Archive(cur(d))] = None
  /\ run[d].pc \in {"publish", "provenance"} =>
       /\ rec[d][Archive(cur(d))] # None
       /\ rec[d][Archive(cur(d))] = Intent(run[d].new.acq, run[d].new)
  /\ run[d].pc \in {"import", "prove"} => rec[d][Image(cur(d))] # None
  /\ run[d].pc = "proved" => fs[cur(d)] = prov[d][cur(d)]
  /\ run[d].pc \in RuntimePcs \ {"runtime"} =>
       rec[d][Runtime] # None /\ rec[d][Runtime] = RuntimeIntent(d)
  /\ run[d].pc \in {"transport", "build"} => runtime.state = None
  /\ run[d].pc = "validate" =>
       runtime.state = "clean" \/ (runtime.state = "leaky" /\ inv(d).proxy)
  /\ run[d].pc = "installed" => Whole(d)

Because(d) ==
  /\ run[d].outcome = "refused" =>
       \/ \E i \in Img : prov[d][i] # None /\ prov[d][i].acq # inv(d).acq[i]
       \/ \E i \in Img : rec[d][Archive(i)] # None
                          /\ rec[d][Archive(i)].intent # inv(d).acq[i]
       \/ rec[d][Runtime] # None /\ rec[d][Runtime].intent.proxy # inv(d).proxy
  /\ run[d].outcome = "failed" => runtime.state = "leaky" /\ inv(d).proxy

Recorded(d) ==
  (\A i \in Img : ArchiveRecord(d, i) /\ ImageRecord(d, i)) /\ RuntimeRecord(d)

RecordInv(d) == Recorded(d) /\ UnderWay(d) /\ Because(d)

\* What a deployment has to answer for.
Answering(d) ==
  /\ app[d].pc # "idle" => app[d].outcome = "none"
  /\ app[d].pc \in {"bind", "create"} => con = None /\ drec[d] = want(d)
  /\ app[d].pc = "create" => owner[d] # "absent"
  /\ app[d].pc = "finish" /\ con # None => inside.identity = want(d) /\ inside.enabled
  /\ con # None => owner[d] # "absent"
  /\ con # None /\ inside.identity = None => drec[d] # None

(***************************************************************************)
(* An image run keeps that.                                                *)
(***************************************************************************)
LEMMA RecordsKept ==
  ASSUME NEW d \in Roots, Recorded(d), UNCHANGED <<archive, prov, rec, fs, runtime>>,
         assets'[d] => assets[d]
  PROVE  Recorded(d)'
<1>1. \A i \in Img : ArchiveRecord(d, i)' /\ ImageRecord(d, i)'
  BY DEF Recorded, ArchiveRecord, ImageRecord
<1>2. RuntimeRecord(d)'
  BY DEF Recorded, RuntimeRecord
<1>. QED  BY <1>1, <1>2 DEF Recorded

\* A run that ends has to say why; one that goes on says nothing yet.
LEMMA Ended ==
  ASSUME ImageTypes, NEW d \in Roots, Recorded(d), NEW how \in Outcomes, Exit(d, how),
         UNCHANGED <<archive, prov, rec, fs, runtime>>, assets'[d] => assets[d],
         how = "refused" =>
           \/ \E i \in Img : prov[d][i] # None /\ prov[d][i].acq # inv(d).acq[i]
           \/ \E i \in Img : rec[d][Archive(i)] # None
                              /\ rec[d][Archive(i)].intent # inv(d).acq[i]
           \/ rec[d][Runtime] # None /\ rec[d][Runtime].intent.proxy # inv(d).proxy,
         how = "failed" => runtime.state = "leaky" /\ inv(d).proxy
  PROVE  RecordInv(d)'
<1>1. run'[d].pc = "idle" /\ run'[d].outcome = how /\ run'[d].inv = run[d].inv
  BY ExitFacts
<1>2. UnderWay(d)'  BY <1>1 DEF UnderWay, RuntimePcs
<1>3. Because(d)'  BY <1>1 DEF Because, inv
<1>. QED  BY <1>2, <1>3, RecordsKept DEF RecordInv

LEMMA GoesOn ==
  ASSUME NEW d \in Roots, UnderWay(d), run[d].pc # "idle", run'[d].outcome = run[d].outcome
  PROVE  run'[d].outcome = "none" /\ Because(d)'
<1>. QED  BY DEF UnderWay, Because

LEMMA IntentFacts ==
  /\ \A c \in Contents : Intent(c.acq, c) # None /\ Intent(c, c) # None
  /\ \A p \in [Img -> Contents], b \in BOOLEAN : Intent([prov |-> p, proxy |-> b], p) # None
<1>. QED  BY InvocationAssumption DEF Intent, Contents

\* A step on one archive and its record.
LEMMA ArchiveRecords ==
  ASSUME ImageTypes, NEW d \in Roots, Recorded(d), NEW i \in Img,
         \A j \in Img : j # i => archive'[d][j] = archive[d][j] /\ prov'[d][j] = prov[d][j],
         \A t \in Targets : t # Archive(i) => rec'[d][t] = rec[d][t],
         UNCHANGED <<assets, fs, runtime>>,
         prov' = prov \/ (prov[d][i] = None /\ prov'[d][i] # None /\ rec' = rec),
         ArchiveRecord(d, i)'
  PROVE  Recorded(d)'
<1>1. \A j \in Img : /\ Archive(j) \in Targets /\ Image(j) \in Targets /\ Runtime \in Targets
                     /\ Image(j) # Archive(i) /\ Runtime # Archive(i)
                     /\ (j # i => Archive(j) # Archive(i))
  BY TargetFacts
<1>2. \A j \in Img : ArchiveRecord(d, j)'
  BY <1>1 DEF Recorded, ArchiveRecord
<1>3. \A j \in Img : ImageRecord(d, j)'
  BY <1>1 DEF Recorded, ImageRecord
<1>4. RuntimeRecord(d)'
  BY <1>1 DEF Recorded, RuntimeRecord
<1>. QED  BY <1>2, <1>3, <1>4 DEF Recorded

LEMMA CheckArchiveRecords ==
  ASSUME ImageTypes, NEW d \in Roots, ImageInv(d), RecordInv(d), CheckArchive(d)
  PROVE  RecordInv(d)'
<1>0. PICK i \in Img : i = cur(d)
  BY RunFacts
<1>. DEFINE r == rec[d][Archive(i)]
<1>1. /\ run[d].pc = "archive" /\ i \in Img /\ Archive(i) \in Targets
      /\ UNCHANGED <<prov, assets, fs, runtime>>
      /\ Recorded(d) /\ UnderWay(d) /\ ArchiveRecord(d, i) /\ source(d) = inv(d).acq[i]
      /\ prov[d][i] # None => archive[d][i] = prov[d][i]
  BY <1>0, RunFacts, TargetFacts
     DEF CheckArchive, At, RecordInv, Recorded, ImageInv, Published
<1>2. CASE Exit(d, "refused") /\ UNCHANGED <<archive, rec>>
           /\ ~Reusable(d, i) /\ ~Discardable(d, i) /\ ~Unstarted(d, i)
  <2>1. \/ prov[d][i] # None /\ prov[d][i].acq # source(d)
        \/ r # None /\ r.intent # source(d)
    <3>1. CASE r = None
      <4>1. prov[d][i] # None \/ archive[d][i] = None
        BY <1>1, <3>1 DEF ArchiveRecord
      <4>. QED  BY <1>1, <1>2, <3>1, <4>1 DEF Reusable, Unstarted
    <3>2. CASE r # None /\ r.intent = source(d)
      <4>1. PICK c \in Contents :
              /\ r = Intent(c.acq, c)
              /\ archive[d][i] \in {None, c} /\ prov[d][i] \in {None, c}
        BY <1>1, <3>2 DEF ArchiveRecord
      <4>2. r = Intent(source(d), c) /\ c.acq = source(d)
        BY <3>2, <4>1 DEF Intent
      <4>. QED  BY <1>1, <1>2, <3>2, <4>1, <4>2 DEF Reusable, Discardable, Unstarted
    <3>. QED  BY <3>1, <3>2
  <2>. QED  BY <1>1, <1>2, <2>1, Ended DEF Outcomes
<1>3. CASE Reusable(d, i) /\ clear_record(d, Archive(i)) /\ GoTo(d, "image") /\ UNCHANGED archive
  <2>1. /\ run'[d].pc = "image" /\ run'[d].outcome = run[d].outcome
    BY <1>3, GoToFacts DEF ImagePcs
  <2>2. /\ rec'[d][Archive(i)] = None
        /\ \A u \in Targets : u # Archive(i) => rec'[d][u] = rec[d][u]
    BY <1>1, <1>3, ClearFacts
  <2>3. ArchiveRecord(d, i)'
    BY <1>1, <1>3, <2>2 DEF Reusable, ArchiveRecord
  <2>4. Recorded(d)'  BY <1>1, <1>3, <2>2, <2>3, ArchiveRecords
  <2>5. Because(d)' /\ UnderWay(d)'
    BY <1>1, <2>1, GoesOn DEF UnderWay, RuntimePcs
  <2>. QED  BY <2>4, <2>5 DEF RecordInv
<1>4. CASE /\ Discardable(d, i) /\ archive' = [archive EXCEPT ![d][i] = None]
           /\ GoTo(d, "archive") /\ UNCHANGED rec
  <2>1. /\ run'[d].pc = "archive" /\ run'[d].outcome = run[d].outcome
    BY <1>4, GoToFacts DEF ArchivePcs
  <2>2. /\ archive'[d][i] = None /\ prov[d][i] = None
        /\ \A j \in Img : j # i => archive'[d][j] = archive[d][j]
    BY <1>1, <1>4, RunFacts DEF Discardable, ImageTypes, Provenance
  <2>3. ArchiveRecord(d, i)'
    BY <1>1, <1>4, <2>2 DEF ArchiveRecord
  <2>4. Recorded(d)'  BY <1>1, <1>4, <2>2, <2>3, ArchiveRecords
  <2>5. Because(d)' /\ UnderWay(d)'
    BY <1>1, <2>1, GoesOn DEF UnderWay, RuntimePcs
  <2>. QED  BY <2>4, <2>5 DEF RecordInv
<1>5. CASE Unstarted(d, i) /\ clear_record(d, Archive(i)) /\ GoTo(d, "acquire") /\ UNCHANGED archive
  <2>1. /\ run'[d].pc = "acquire" /\ run'[d].outcome = run[d].outcome /\ run'[d].img = i
    BY <1>0, <1>5, GoToFacts DEF ArchivePcs, cur
  <2>2. /\ rec'[d][Archive(i)] = None
        /\ \A u \in Targets : u # Archive(i) => rec'[d][u] = rec[d][u]
    BY <1>1, <1>5, ClearFacts
  <2>3. ArchiveRecord(d, i)' /\ archive'[d][i] = None
    BY <1>1, <1>5, <2>2 DEF Unstarted, ArchiveRecord
  <2>4. Recorded(d)'  BY <1>1, <1>5, <2>2, <2>3, ArchiveRecords
  <2>5. Because(d)' /\ UnderWay(d)'
    BY <1>1, <2>1, <2>2, <2>3, GoesOn, <1>0 DEF UnderWay, RuntimePcs, cur
  <2>. QED  BY <2>4, <2>5 DEF RecordInv
<1>. QED  BY <1>0, <1>2, <1>3, <1>4, <1>5 DEF CheckArchive

LEMMA PublishRecords ==
  ASSUME ImageTypes, NEW d \in Roots, ImageInv(d), RecordInv(d),
         Acquire(d) \/ PublishArchive(d) \/ PublishProvenance(d) \/ ArchiveDone(d)
  PROVE  RecordInv(d)'
<1>0. PICK i \in Img : i = cur(d)
  BY RunFacts
<1>. DEFINE r == rec[d][Archive(i)]
<1>1. /\ run[d].pc \in ArchivePcs /\ run[d].pc # "idle" /\ i \in Img /\ Archive(i) \in Targets
      /\ UNCHANGED <<assets, fs, runtime>> /\ run[d] \in ImageRun
      /\ Recorded(d) /\ UnderWay(d) /\ ArchiveRecord(d, i) /\ source(d) = inv(d).acq[i]
  BY <1>0, RunFacts, TargetFacts
     DEF Acquire, PublishArchive, PublishProvenance, ArchiveDone, At, ArchivePcs,
         RecordInv, Recorded
<1>2. CASE Acquire(d)
  <2>1. PICK c \in Contents :
          /\ c.acq = source(d)
          /\ write_record(d, Archive(i), Intent(source(d), c))
          /\ run' = [run EXCEPT ![d].pc = "publish", ![d].new = c]
    BY <1>0, <1>2 DEF Acquire
  <2>2. Intent(source(d), c) \in Records
    BY <1>1, RunFacts DEF Intent, Records
  <2>3. /\ rec'[d][Archive(i)] = Intent(source(d), c)
        /\ rec'[d][Archive(i)] # None /\ rec'[d][Archive(i)] = Intent(c.acq, c)
        /\ \A u \in Targets : u # Archive(i) => rec'[d][u] = rec[d][u]
    BY <1>1, <2>1, <2>2, RecordFacts, IntentFacts
  <2>4. /\ run'[d].pc = "publish" /\ run'[d].new = c /\ run'[d].img = i
        /\ run'[d].outcome = run[d].outcome
    BY <1>0, <1>1, <2>1, RunFacts DEF ImageRun, cur
  <2>5. archive[d][i] = None /\ prov[d][i] = None /\ prov' = prov /\ archive' = archive
    BY <1>0, <1>1, <1>2 DEF Acquire, ImageInv, AtArchive, At, UnderWay
  <2>6. ArchiveRecord(d, i)'
    BY <2>1, <2>3, <2>5 DEF ArchiveRecord
  <2>7. Recorded(d)'  BY <1>1, <2>3, <2>5, <2>6, ArchiveRecords
  <2>8. Because(d)' /\ UnderWay(d)'
    BY <1>0, <1>1, <2>3, <2>4, <2>5, GoesOn DEF UnderWay, RuntimePcs, cur
  <2>. QED  BY <2>7, <2>8 DEF RecordInv
<1>3. CASE PublishArchive(d)
  <2>1. /\ run'[d].pc = "provenance" /\ run'[d].img = i
        /\ run'[d].outcome = run[d].outcome /\ run'[d].new = run[d].new
    BY <1>0, <1>3, GoToFacts DEF PublishArchive, ArchivePcs, cur
  <2>2. /\ prov[d][i] = None /\ run[d].new \in Contents /\ run[d].new.acq = source(d)
        /\ prov' = prov /\ rec' = rec /\ r = Intent(run[d].new.acq, run[d].new)
    BY <1>1, <1>0, <1>3 DEF PublishArchive, ImageInv, AtArchive, At, UnderWay
  <2>3. /\ archive'[d][i] = run[d].new
        /\ \A j \in Img : j # i => archive'[d][j] = archive[d][j]
    BY <1>1, <1>0, <1>3, <2>2, RunFacts DEF PublishArchive, ImageTypes, Provenance
  <2>4. r # None
    BY <1>0, <1>1, <1>3 DEF UnderWay, PublishArchive, At
  <2>5. ArchiveRecord(d, i)'
    BY <2>2, <2>3, <2>4 DEF ArchiveRecord
  <2>6. Recorded(d)'  BY <1>1, <2>2, <2>3, <2>5, ArchiveRecords
  <2>7. Because(d)' /\ UnderWay(d)'
    BY <1>0, <1>1, <2>1, <2>2, <2>4, GoesOn DEF UnderWay, RuntimePcs, cur
  <2>. QED  BY <2>6, <2>7 DEF RecordInv
<1>4. CASE PublishProvenance(d)
  <2>1. /\ run'[d].pc = "published" /\ run'[d].outcome = run[d].outcome
    BY <1>1, <1>0, <1>4, RunFacts DEF PublishProvenance, ImageRun
  <2>2. /\ prov[d][i] = None /\ run[d].new \in Contents /\ run[d].new # None
        /\ archive[d][i] = run[d].new /\ archive' = archive /\ rec' = rec
        /\ r = Intent(run[d].new.acq, run[d].new)
    BY <1>1, <1>0, <1>4, Nothing DEF PublishProvenance, ImageInv, AtArchive, At, UnderWay
  <2>3. /\ prov'[d][i] = run[d].new
        /\ \A j \in Img : j # i => prov'[d][j] = prov[d][j]
    BY <1>1, <1>0, <1>4, <2>2, RunFacts DEF PublishProvenance, ImageTypes, Provenance
  <2>4. ArchiveRecord(d, i)'
    BY <2>2, <2>3 DEF ArchiveRecord
  <2>5. Recorded(d)'  BY <1>1, <2>2, <2>3, <2>4, ArchiveRecords
  <2>6. Because(d)' /\ UnderWay(d)'
    BY <1>1, <2>1, GoesOn DEF UnderWay, RuntimePcs
  <2>. QED  BY <2>5, <2>6 DEF RecordInv
<1>5. CASE ArchiveDone(d)
  <2>1. /\ run'[d].pc = "image" /\ run'[d].outcome = run[d].outcome
    BY <1>0, <1>5, GoToFacts DEF ArchiveDone, ImagePcs
  <2>2. /\ rec'[d][Archive(i)] = None
        /\ \A u \in Targets : u # Archive(i) => rec'[d][u] = rec[d][u]
    BY <1>1, <1>0, <1>5, ClearFacts DEF ArchiveDone
  <2>3. prov[d][i] # None /\ archive' = archive /\ prov' = prov
    BY <1>1, <1>0, <1>5, Nothing DEF ArchiveDone, ImageInv, AtArchive, At
  <2>4. ArchiveRecord(d, i)'
    BY <2>2, <2>3 DEF ArchiveRecord
  <2>5. Recorded(d)'  BY <1>1, <2>2, <2>3, <2>4, ArchiveRecords
  <2>6. Because(d)' /\ UnderWay(d)'
    BY <1>1, <2>1, GoesOn DEF UnderWay, RuntimePcs
  <2>. QED  BY <2>5, <2>6 DEF RecordInv
<1>. QED  BY <1>2, <1>3, <1>4, <1>5

\* A step on one filesystem and its record.
LEMMA ImageRecords ==
  ASSUME NEW d \in Roots, Recorded(d), NEW i \in Img,
         \A j \in Img : j # i => fs'[j] = fs[j],
         \A t \in Targets : t # Image(i) => rec'[d][t] = rec[d][t],
         UNCHANGED <<archive, prov, assets, runtime>>,
         ImageRecord(d, i)'
  PROVE  Recorded(d)'
<1>1. \A j \in Img : /\ Archive(j) \in Targets /\ Image(j) \in Targets /\ Runtime \in Targets
                     /\ Archive(j) # Image(i) /\ Runtime # Image(i)
                     /\ (j # i => Image(j) # Image(i))
  BY TargetFacts
<1>2. \A j \in Img : ArchiveRecord(d, j)'
  BY <1>1 DEF Recorded, ArchiveRecord
<1>3. \A j \in Img : ImageRecord(d, j)'
  BY <1>1 DEF Recorded, ImageRecord
<1>4. RuntimeRecord(d)'
  BY <1>1 DEF Recorded, RuntimeRecord
<1>. QED  BY <1>2, <1>3, <1>4 DEF Recorded

\* Once an archive has its provenance, what becomes of its image is never a
\* reason to refuse.
LEMMA CheckImageRecords ==
  ASSUME ImageTypes, NEW d \in Roots, ImageInv(d), RecordInv(d), CheckImage(d)
  PROVE  RecordInv(d)'
<1>0. PICK i \in Img : i = cur(d)
  BY RunFacts
<1>. DEFINE p == prov[d][i]
            r == rec[d][Image(i)]
<1>1. /\ run[d].pc = "image" /\ Image(i) \in Targets
      /\ UNCHANGED <<archive, prov, assets, runtime>>
      /\ Recorded(d) /\ UnderWay(d) /\ ImageRecord(d, i)
      /\ fs[i] \in {None, Partial, p} /\ p # None /\ p \in Contents
  BY <1>0, RunFacts, TargetFacts, Nothing
     DEF CheckImage, At, RecordInv, Recorded, ImageInv, Published, AtImage, Archived, ImagePcs
<1>2. r \in {None, Intent(p, p)} /\ (fs[i] = Partial => r # None)
  BY <1>1 DEF ImageRecord
<1>3. CASE fs[i] = p /\ clear_record(d, Image(i)) /\ NextImage(d) /\ UNCHANGED fs
  <2>1. /\ rec'[d][Image(i)] = None
        /\ \A u \in Targets : u # Image(i) => rec'[d][u] = rec[d][u]
    BY <1>1, <1>3, ClearFacts
  <2>2. ImageRecord(d, i)'
    BY <1>1, <1>3, <2>1, Nothing DEF ImageRecord
  <2>3. Recorded(d)'  BY <1>1, <1>3, <2>1, <2>2, ImageRecords
  <2>4. run'[d].outcome = run[d].outcome /\ run'[d].pc \in {"runtime", "archive"}
    BY <1>3, NextFacts
  <2>5. Because(d)' /\ UnderWay(d)'
    BY <1>1, <2>4, GoesOn DEF UnderWay, RuntimePcs
  <2>. QED  BY <2>3, <2>5 DEF RecordInv
<1>4. CASE /\ r = Intent(p, p) /\ fs[i] # p
           /\ fs' = [fs EXCEPT ![i] = None] /\ GoTo(d, "import") /\ UNCHANGED rec
  <2>1. /\ run'[d].pc = "import" /\ run'[d].outcome = run[d].outcome /\ run'[d].img = i
    BY <1>0, <1>4, GoToFacts DEF ImagePcs, cur
  <2>2. fs'[i] = None /\ \A j \in Img : j # i => fs'[j] = fs[j]
    BY <1>4 DEF ImageTypes
  <2>3. r # None  BY <1>1, <1>4, IntentFacts
  <2>4. ImageRecord(d, i)'
    BY <1>1, <1>4, <2>3 DEF ImageRecord
  <2>5. Recorded(d)'  BY <1>1, <1>4, <2>2, <2>4, ImageRecords
  <2>6. Because(d)' /\ UnderWay(d)'
    BY <1>1, <1>4, <2>1, <2>3, GoesOn DEF UnderWay, RuntimePcs, cur
  <2>. QED  BY <2>5, <2>6 DEF RecordInv
<1>5. CASE /\ fs[i] = None /\ write_record(d, Image(i), Intent(p, p))
           /\ GoTo(d, "import") /\ UNCHANGED fs
  <2>1. /\ run'[d].pc = "import" /\ run'[d].outcome = run[d].outcome /\ run'[d].img = i
    BY <1>0, <1>5, GoToFacts DEF ImagePcs, cur
  <2>2. Intent(p, p) \in Records
    BY <1>1 DEF Intent, Records
  <2>3. /\ rec'[d][Image(i)] = Intent(p, p) /\ rec'[d][Image(i)] # None
        /\ \A u \in Targets : u # Image(i) => rec'[d][u] = rec[d][u]
    BY <1>1, <1>5, <2>2, RecordFacts, IntentFacts
  <2>4. ImageRecord(d, i)'
    BY <1>1, <2>3 DEF ImageRecord
  <2>5. Recorded(d)'  BY <1>1, <1>5, <2>3, <2>4, ImageRecords
  <2>6. Because(d)' /\ UnderWay(d)'
    BY <1>1, <2>1, <2>3, GoesOn DEF UnderWay, RuntimePcs, cur
  <2>. QED  BY <2>5, <2>6 DEF RecordInv
<1>. QED  BY <1>0, <1>1, <1>2, <1>3, <1>4, <1>5 DEF CheckImage

LEMMA ImportRecords ==
  ASSUME ImageTypes, NEW d \in Roots, ImageInv(d), RecordInv(d),
         Import(d) \/ Prove(d) \/ ImageDone(d)
  PROVE  RecordInv(d)'
<1>0. PICK i \in Img : i = cur(d)
  BY RunFacts
<1>. DEFINE p == prov[d][i]
            r == rec[d][Image(i)]
<1>1. /\ run[d].pc \in ImagePcs /\ run[d].pc # "idle" /\ Image(i) \in Targets
      /\ UNCHANGED <<archive, prov, assets, runtime>>
      /\ Recorded(d) /\ UnderWay(d) /\ ImageRecord(d, i)
      /\ p # None /\ p \in Contents
  BY <1>0, RunFacts, TargetFacts, Nothing
     DEF Import, Prove, ImageDone, At, RecordInv, Recorded, ImageInv, AtImage, Archived, ImagePcs
<1>2. CASE Import(d)
  <2>1. fs[i] = None /\ rec' = rec /\ r # None
    BY <1>0, <1>1, <1>2 DEF Import, At, ImageInv, AtImage, UnderWay
  <2>2. fs' = [fs EXCEPT ![i] = Partial] /\ GoTo(d, "prove")
    BY <1>0, <1>2, <2>1 DEF Import
  <2>3. run'[d].pc = "prove" /\ run'[d].outcome = run[d].outcome /\ run'[d].img = i
    BY <1>0, <2>2, GoToFacts DEF ImagePcs, cur
  <2>4. \A j \in Img : j # i => fs'[j] = fs[j]
    BY <2>2 DEF ImageTypes
  <2>5. ImageRecord(d, i)'
    BY <1>1, <2>1 DEF ImageRecord
  <2>6. Recorded(d)'  BY <1>1, <2>1, <2>4, <2>5, ImageRecords
  <2>7. Because(d)' /\ UnderWay(d)'
    BY <1>1, <2>1, <2>3, GoesOn DEF UnderWay, RuntimePcs, cur
  <2>. QED  BY <2>6, <2>7 DEF RecordInv
<1>3. CASE Prove(d)
  <2>1. fs[i] # None /\ rec' = rec /\ r # None
    BY <1>0, <1>1, <1>3, Nothing DEF Prove, At, ImageInv, AtImage, UnderWay
  <2>2. fs' = [fs EXCEPT ![i] = p] /\ GoTo(d, "proved")
    BY <1>0, <1>3, <2>1 DEF Prove
  <2>3. run'[d].pc = "proved" /\ run'[d].outcome = run[d].outcome /\ run'[d].img = i
    BY <1>0, <2>2, GoToFacts DEF ImagePcs, cur
  <2>4. fs'[i] = p /\ \A j \in Img : j # i => fs'[j] = fs[j]
    BY <2>2 DEF ImageTypes
  <2>5. ImageRecord(d, i)'
    BY <1>1, <2>1 DEF ImageRecord
  <2>6. Recorded(d)'  BY <1>1, <2>1, <2>4, <2>5, ImageRecords
  <2>7. Because(d)' /\ UnderWay(d)'
    BY <1>1, <2>3, <2>4, GoesOn DEF UnderWay, RuntimePcs, cur
  <2>. QED  BY <2>6, <2>7 DEF RecordInv
<1>4. CASE ImageDone(d)
  <2>1. fs[i] = p /\ fs' = fs
    BY <1>0, <1>1, <1>4 DEF ImageDone, At, UnderWay
  <2>2. clear_record(d, Image(i)) /\ NextImage(d)
    BY <1>0, <1>4, <2>1 DEF ImageDone
  <2>3. /\ rec'[d][Image(i)] = None
        /\ \A u \in Targets : u # Image(i) => rec'[d][u] = rec[d][u]
    BY <1>1, <2>2, ClearFacts
  <2>4. ImageRecord(d, i)'
    BY <1>1, <2>1, <2>3, Nothing DEF ImageRecord
  <2>5. Recorded(d)'  BY <1>1, <2>1, <2>3, <2>4, ImageRecords
  <2>6. run'[d].outcome = run[d].outcome /\ run'[d].pc \in {"runtime", "archive"}
    BY <2>2, NextFacts
  <2>7. Because(d)' /\ UnderWay(d)'
    BY <1>1, <2>6, GoesOn DEF UnderWay, RuntimePcs
  <2>. QED  BY <2>5, <2>7 DEF RecordInv
<1>. QED  BY <1>2, <1>3, <1>4

\* A step on the runtime and its record.
LEMMA RuntimeRecords ==
  ASSUME NEW d \in Roots, Recorded(d), UNCHANGED <<archive, prov, fs>>,
         \A t \in Targets : t # Runtime => rec'[d][t] = rec[d][t],
         RuntimeRecord(d)'
  PROVE  Recorded(d)'
<1>1. \A j \in Img : /\ Archive(j) \in Targets /\ Image(j) \in Targets
                     /\ Archive(j) # Runtime /\ Image(j) # Runtime
  BY TargetFacts
<1>2. \A j \in Img : ArchiveRecord(d, j)'
  BY <1>1 DEF Recorded, ArchiveRecord
<1>3. \A j \in Img : ImageRecord(d, j)'
  BY <1>1 DEF Recorded, ImageRecord
<1>. QED  BY <1>2, <1>3 DEF Recorded

\* A run that goes on with the runtime has its intent on record.
LEMMA RuntimeGoesOn ==
  ASSUME NEW d \in Roots, UnderWay(d), run[d].pc \in RuntimePcs,
         run'[d].pc \in RuntimePcs \ {"runtime"}, run'[d].inv = run[d].inv,
         run'[d].outcome = run[d].outcome, prov' = prov,
         rec'[d][Runtime] # None, rec'[d][Runtime] = RuntimeIntent(d),
         run'[d].pc \in {"transport", "build"} => runtime'.state = None,
         run'[d].pc = "validate" =>
           runtime'.state = "clean" \/ (runtime'.state = "leaky" /\ inv(d).proxy),
         run'[d].pc = "installed" => Whole(d)'
  PROVE  UnderWay(d)' /\ Because(d)'
<1>1. run[d].pc # "idle"  BY DEF RuntimePcs
<1>2. run'[d].outcome = "none" /\ Because(d)'
  BY <1>1, GoesOn
<1>3. RuntimeIntent(d)' = RuntimeIntent(d)
  BY DEF RuntimeIntent, inv
<1>. QED  BY <1>2, <1>3 DEF UnderWay, RuntimePcs, inv

LEMMA CheckRuntimeRecords ==
  ASSUME ImageTypes, NEW d \in Roots, ImageInv(d), RecordInv(d), CheckRuntime(d)
  PROVE  RecordInv(d)'
<1>. DEFINE r == rec[d][Runtime]
<1>1. /\ run[d].pc = "runtime" /\ run[d].pc \in RuntimePcs /\ Runtime \in Targets
      /\ UNCHANGED <<archive, prov, fs, runtime>>
      /\ Recorded(d) /\ UnderWay(d) /\ RuntimeRecord(d) /\ RuntimePublished(d)
      /\ assets \in [Roots -> BOOLEAN] /\ inv(d).proxy \in BOOLEAN
  BY RunFacts, TargetFacts
     DEF CheckRuntime, At, RecordInv, Recorded, ImageInv, RuntimePcs, ImageTypes
<1>2. prov[d] \in [Img -> Contents] /\ \A i \in Img : prov[d][i] # None
  <2>1. prov[d] \in [Img -> Contents]  BY <1>1, AllImported
  <2>. QED  BY <2>1, Nothing
<1>3. RuntimeIntent(d) # None /\ RuntimeIntent(d) \in Records
      /\ RuntimeIntent(d).intent.proxy = inv(d).proxy
  <2>1. RuntimeIntent(d) # None  BY <1>1, <1>2, IntentFacts DEF RuntimeIntent
  <2>. QED  BY <2>1, RunFacts DEF RuntimeIntent, Intent, Records
<1>4. CASE Whole(d) /\ r = RuntimeIntent(d) /\ GoTo(d, "proven") /\ UNCHANGED <<rec, assets>>
  <2>1. run'[d].pc = "proven" /\ run'[d].inv = run[d].inv /\ run'[d].outcome = run[d].outcome
    BY <1>4, GoToFacts DEF RuntimePcs
  <2>2. UnderWay(d)' /\ Because(d)'
    BY <1>1, <1>3, <1>4, <2>1, RuntimeGoesOn DEF RuntimePcs
  <2>. QED  BY <1>1, <1>4, <2>2, RecordsKept DEF RecordInv
<1>5. CASE Exit(d, "ready") /\ UNCHANGED <<rec, assets>>
  BY <1>1, <1>5, Ended DEF Outcomes
<1>6. CASE /\ r = RuntimeIntent(d) /\ assets' = [assets EXCEPT ![d] = FALSE] /\ UNCHANGED rec
           /\ GoTo(d, IF runtime.state = None THEN "transport" ELSE "discard")
  <2>. DEFINE pc == IF runtime.state = None THEN "transport" ELSE "discard"
  <2>1. GoTo(d, pc) /\ pc \in {"transport", "discard"} /\ (pc = "transport" => runtime.state = None)
    BY <1>6
  <2>. HIDE DEF pc
  <2>2. pc \in {"idle"} \cup ArchivePcs \cup ImagePcs \cup RuntimePcs  BY <2>1 DEF RuntimePcs
  <2>3. run'[d].pc = pc /\ run'[d].inv = run[d].inv /\ run'[d].outcome = run[d].outcome
    BY <2>1, <2>2, GoToFacts
  <2>4. UnderWay(d)' /\ Because(d)'
    BY <1>1, <1>3, <1>6, <2>1, <2>3, RuntimeGoesOn DEF RuntimePcs
  <2>5. assets'[d] => assets[d]  BY <1>1, <1>6
  <2>. QED  BY <1>1, <1>6, <2>4, <2>5, RecordsKept DEF RecordInv
<1>7. CASE /\ runtime.state = None /\ r = None /\ ~assets[d]
           /\ write_record(d, Runtime, RuntimeIntent(d))
           /\ GoTo(d, "transport") /\ UNCHANGED assets
  <2>1. run'[d].pc = "transport" /\ run'[d].inv = run[d].inv /\ run'[d].outcome = run[d].outcome
    BY <1>7, GoToFacts DEF RuntimePcs
  <2>2. /\ rec'[d][Runtime] = RuntimeIntent(d)
        /\ \A u \in Targets : u # Runtime => rec'[d][u] = rec[d][u]
    BY <1>1, <1>3, <1>7, RecordFacts
  <2>3. UnderWay(d)' /\ Because(d)'
    BY <1>1, <1>3, <1>7, <2>1, <2>2, RuntimeGoesOn DEF RuntimePcs
  <2>4. RuntimeRecord(d)'
    BY <1>1, <1>2, <1>3, <1>7, <2>2 DEF RuntimeRecord, RuntimeIntent
  <2>5. Recorded(d)'  BY <1>1, <2>2, <2>4, RuntimeRecords
  <2>. QED  BY <2>3, <2>5 DEF RecordInv
<1>8. CASE /\ Die(d, "refused") /\ UNCHANGED rec
           /\ \/ r # None /\ r # RuntimeIntent(d)
              \/ ~Whole(d) /\ r = RuntimeIntent(d) /\ Unowned(d)
              \/ r = None /\ assets[d]
              \/ r = None /\ ~Whole(d) /\ runtime.state # None
  <2>1. r # None /\ r # RuntimeIntent(d)
    <3>1. ~(r = RuntimeIntent(d) /\ Unowned(d))
      BY <1>1, <1>3 DEF Unowned, RuntimeRecord
    <3>2. ~(r = None /\ assets[d])
      BY <1>1 DEF RuntimeRecord
    <3>3. ~(r = None /\ ~Whole(d) /\ runtime.state # None)
      BY <1>1 DEF RuntimeRecord, RuntimePublished, Whole
    <3>. QED  BY <1>8, <3>1, <3>2, <3>3
  <2>2. r.intent.proxy # inv(d).proxy
    <3>1. PICK proxy \in BOOLEAN : r = Intent([prov |-> prov[d], proxy |-> proxy], prov[d])
      BY <1>1, <2>1 DEF RuntimeRecord
    <3>2. proxy # inv(d).proxy
      BY <2>1, <3>1 DEF RuntimeIntent
    <3>3. r.intent.proxy = proxy
      BY <3>1 DEF Intent
    <3>. QED  BY <3>2, <3>3
  <2>3. assets'[d] => assets[d]
    BY <1>1, <1>8 DEF Die, cleanup
  <2>. QED  BY <1>1, <1>8, <2>1, <2>2, <2>3, Ended DEF Outcomes, Die
<1>. QED  BY <1>4, <1>5, <1>6, <1>7, <1>8 DEF CheckRuntime

LEMMA BuildRecords ==
  ASSUME ImageTypes, NEW d \in Roots, ImageInv(d), RecordInv(d),
         Discard(d) \/ Transport(d) \/ Build(d) \/ Built(d)
  PROVE  RecordInv(d)'
<1>1. /\ run[d].pc \in {"discard", "transport", "build", "built"}
      /\ run[d].pc \in RuntimePcs /\ run[d] \in ImageRun /\ run \in [Roots -> ImageRun]
      /\ UNCHANGED <<archive, prov, rec, fs>>
      /\ Recorded(d) /\ UnderWay(d) /\ RuntimeRecord(d)
      /\ assets \in [Roots -> BOOLEAN] /\ runtime \in RuntimeFs /\ inv(d).proxy \in BOOLEAN
      /\ rec[d][Runtime] # None /\ rec[d][Runtime] = RuntimeIntent(d)
  BY RunFacts
     DEF Discard, Transport, Build, Built, At, RecordInv, Recorded, RuntimePcs, ImageTypes, UnderWay
<1>2. RuntimeIntent(d).intent.proxy = inv(d).proxy
  BY DEF RuntimeIntent, Intent
<1>3. ASSUME run'[d].inv = run[d].inv, run'[d].outcome = run[d].outcome,
             run'[d].pc \in RuntimePcs \ {"runtime", "installed"},
             run'[d].pc \in {"transport", "build"} => runtime'.state = None,
             run'[d].pc = "validate" =>
               runtime'.state = "clean" \/ (runtime'.state = "leaky" /\ inv(d).proxy),
             assets'[d] => assets[d] \/ inv(d).proxy
      PROVE  RecordInv(d)'
  <2>1. UnderWay(d)' /\ Because(d)'
    BY <1>1, <1>3, RuntimeGoesOn
  <2>2. RuntimeRecord(d)'
    BY <1>1, <1>2, <1>3 DEF RuntimeRecord
  <2>3. Recorded(d)'  BY <1>1, <2>2, RuntimeRecords
  <2>. QED  BY <2>1, <2>3 DEF RecordInv
<1>4. CASE Discard(d)
  <2>1. run'[d].pc = "transport" /\ run'[d].inv = run[d].inv /\ run'[d].outcome = run[d].outcome
    BY <1>4, GoToFacts DEF Discard, RuntimePcs
  <2>2. runtime'.state = None /\ assets' = assets  BY <1>4 DEF Discard, NoRuntime
  <2>. QED  BY <1>3, <2>1, <2>2 DEF RuntimePcs
<1>5. CASE Transport(d)
  <2>1. /\ run'[d].pc = "build" /\ run'[d].inv = run[d].inv /\ run'[d].outcome = run[d].outcome
    BY <1>1, <1>5 DEF Transport, ImageRun
  <2>2. runtime'.state = None /\ assets'[d] = inv(d).proxy
    BY <1>1, <1>5 DEF Transport, At, UnderWay
  <2>. QED  BY <1>3, <2>1, <2>2 DEF RuntimePcs
<1>6. CASE Build(d)
  <2>1. runtime.state = None  BY <1>1, <1>6 DEF Build, At, UnderWay
  <2>2. GoTo(d, "built") /\ assets' = assets  BY <1>6, <2>1 DEF Build
  <2>3. run'[d].pc = "built" /\ run'[d].inv = run[d].inv /\ run'[d].outcome = run[d].outcome
    BY <2>2, GoToFacts DEF RuntimePcs
  <2>. QED  BY <1>3, <2>2, <2>3 DEF RuntimePcs
<1>7. CASE Built(d)
  <2>1. run'[d].pc = "validate" /\ run'[d].inv = run[d].inv /\ run'[d].outcome = run[d].outcome
    BY <1>7, GoToFacts DEF Built, RuntimePcs
  <2>2. PICK s \in {"clean"} \cup (IF inv(d).proxy THEN {"leaky"} ELSE {}) :
          runtime' = [runtime EXCEPT !.state = s]
    BY <1>7 DEF Built
  <2>3. runtime'.state = s /\ (s = "clean" \/ (s = "leaky" /\ inv(d).proxy))
    BY <1>1, <2>2 DEF RuntimeFs
  <2>4. assets' = assets  BY <1>7 DEF Built
  <2>. QED  BY <1>3, <2>1, <2>3, <2>4 DEF RuntimePcs
<1>. QED  BY <1>4, <1>5, <1>6, <1>7

LEMMA ProvenRecords ==
  ASSUME ImageTypes, NEW d \in Roots, ImageInv(d), RecordInv(d),
         InstallProvenance(d) \/ ValidateRuntime(d) \/ RemoveTransport(d) \/ RuntimeDone(d)
  PROVE  RecordInv(d)'
<1>1. /\ run[d].pc \in RuntimePcs
      /\ UNCHANGED <<archive, prov, fs>> /\ Runtime \in Targets
      /\ Recorded(d) /\ UnderWay(d) /\ RuntimeRecord(d)
      /\ assets \in [Roots -> BOOLEAN] /\ runtime \in RuntimeFs
      /\ rec[d][Runtime] # None /\ rec[d][Runtime] = RuntimeIntent(d)
  BY TargetFacts
     DEF InstallProvenance, ValidateRuntime, RemoveTransport, RuntimeDone, At, RecordInv,
         Recorded, RuntimePcs, ImageTypes, UnderWay
<1>2. CASE InstallProvenance(d) /\ Clean
  <2>1. /\ runtime' = [runtime EXCEPT !.prov = prov[d]] /\ GoTo(d, "installed")
        /\ assets' = assets /\ rec' = rec
    BY <1>2 DEF InstallProvenance
  <2>2. run'[d].pc = "installed" /\ run'[d].inv = run[d].inv /\ run'[d].outcome = run[d].outcome
    BY <2>1, GoToFacts DEF RuntimePcs
  <2>3. Whole(d)'
    BY <1>1, <1>2, <2>1 DEF Whole, Clean, RuntimeFs
  <2>4. UnderWay(d)' /\ Because(d)'
    BY <1>1, <2>1, <2>2, <2>3, RuntimeGoesOn DEF RuntimePcs
  <2>5. RuntimeRecord(d)'
    BY <1>1, <2>1 DEF RuntimeRecord
  <2>6. Recorded(d)'  BY <1>1, <2>1, <2>5, RuntimeRecords
  <2>. QED  BY <2>4, <2>6 DEF RecordInv
<1>3. CASE InstallProvenance(d) /\ ~Clean
  <2>1. runtime.state = "leaky" /\ inv(d).proxy
    BY <1>1, <1>3 DEF InstallProvenance, At, UnderWay, Clean
  <2>2. Die(d, "failed") /\ UNCHANGED <<runtime, rec>>
    BY <1>3 DEF InstallProvenance
  <2>3. assets'[d] => assets[d]
    BY <1>1, <2>2 DEF Die, cleanup
  <2>. QED  BY <1>1, <2>1, <2>2, <2>3, Ended DEF Outcomes, Die
<1>4. CASE ValidateRuntime(d)
  <2>1. Whole(d)  BY <1>1, <1>4 DEF ValidateRuntime, At, UnderWay
  <2>2. GoTo(d, "proven") /\ UNCHANGED <<rec, assets, runtime>>
    BY <1>4, <2>1 DEF ValidateRuntime
  <2>3. run'[d].pc = "proven" /\ run'[d].inv = run[d].inv /\ run'[d].outcome = run[d].outcome
    BY <2>2, GoToFacts DEF RuntimePcs
  <2>4. UnderWay(d)' /\ Because(d)'
    BY <1>1, <2>2, <2>3, RuntimeGoesOn DEF RuntimePcs
  <2>. QED  BY <1>1, <2>2, <2>4, RecordsKept DEF RecordInv
<1>5. CASE RemoveTransport(d)
  <2>1. /\ assets' = [assets EXCEPT ![d] = FALSE] /\ GoTo(d, "settle") /\ UNCHANGED <<rec, runtime>>
    BY <1>5 DEF RemoveTransport
  <2>2. run'[d].pc = "settle" /\ run'[d].inv = run[d].inv /\ run'[d].outcome = run[d].outcome
    BY <2>1, GoToFacts DEF RuntimePcs
  <2>3. UnderWay(d)' /\ Because(d)'
    BY <1>1, <2>1, <2>2, RuntimeGoesOn DEF RuntimePcs
  <2>4. assets'[d] => assets[d]  BY <1>1, <2>1
  <2>. QED  BY <1>1, <2>1, <2>3, <2>4, RecordsKept DEF RecordInv
<1>6. CASE RuntimeDone(d)
  <2>1. Whole(d) /\ ~assets[d]
    BY <1>6 DEF RuntimeDone, At, ImageInv, AtRuntime
  <2>2. runtime.prov # None
    BY <1>1, <2>1, WholeFacts
  <2>3. clear_record(d, Runtime) /\ Exit(d, "ready") /\ UNCHANGED <<assets, runtime>>
    BY <1>6 DEF RuntimeDone
  <2>4. /\ rec'[d][Runtime] = None
        /\ \A u \in Targets : u # Runtime => rec'[d][u] = rec[d][u]
    BY <1>1, <2>3, ClearFacts
  <2>5. RuntimeRecord(d)'
    BY <2>1, <2>2, <2>3, <2>4 DEF RuntimeRecord
  <2>6. Recorded(d)'  BY <1>1, <2>4, <2>5, RuntimeRecords
  <2>7. run'[d].pc = "idle" /\ run'[d].outcome = "ready"
    BY <2>3, ExitFacts DEF Outcomes
  <2>8. UnderWay(d)' /\ Because(d)'
    BY <2>7 DEF UnderWay, Because, RuntimePcs
  <2>. QED  BY <2>6, <2>8 DEF RecordInv
<1>. QED  BY <1>2, <1>3, <1>4, <1>5, <1>6

\* Every step of a run.
LEMMA RunRecords ==
  ASSUME ImageTypes, NEW d \in Roots, ImageInv(d), RecordInv(d),
         Step(d) \/ Fail(d) \/ Kill(d) \/ \E v \in Invocations : Begin(d, v)
  PROVE  RecordInv(d)'
<1>1. CASE Fail(d) \/ Kill(d)
  <2>1. UNCHANGED <<archive, prov, rec, fs, runtime>> /\ (assets'[d] => assets[d])
    BY <1>1 DEF Fail, Kill, Die, cleanup, ImageTypes
  <2>. QED  BY <1>1, <2>1, Ended DEF Fail, Kill, Die, Outcomes, RecordInv
<1>2. ASSUME NEW v \in Invocations, Begin(d, v) PROVE RecordInv(d)'
  <2>1. Started(v).pc = "archive" /\ Started(v).outcome = "none"
    BY Nothing, StartedFacts
  <2>2. run'[d] = Started(v) /\ UNCHANGED <<archive, prov, rec, assets, fs, runtime>>
    BY <1>2, RunFacts DEF Begin
  <2>3. UnderWay(d)' /\ Because(d)'
    BY <2>1, <2>2 DEF UnderWay, Because, RuntimePcs
  <2>. QED  BY <2>2, <2>3, RecordsKept DEF RecordInv
<1>3. CASE Step(d)
  BY <1>3, CheckArchiveRecords, PublishRecords, CheckImageRecords, ImportRecords,
     CheckRuntimeRecords, BuildRecords, ProvenRecords DEF Step
<1>. QED  BY <1>1, <1>2, <1>3

(***************************************************************************)
(* A deployment keeps what it has to answer for.                           *)
(***************************************************************************)
\* What an apply that ends has to show for what it says.
Outcome(d) == ~Doing(d, "idle") =>
  /\ app'[d].outcome = "refused" =>
       \/ drec[d] \notin {None, want(d)}
       \/ con # None /\ con.topo # Topology(want(d))
       \/ inside.identity \notin {None, want(d)}
       \/ con = None /\ owner[d] = "service"
  /\ app'[d].outcome = "deployed" =>
       /\ drec'[d] = None
       /\ con # None => inside.identity = want(d) /\ inside.enabled

LEMMA SaysHow ==
  ASSUME DeployTypes, NEW d \in Roots, NEW how, End(d, how)
  PROVE  app'[d].pc = "idle" /\ app'[d].outcome = how
<1>. QED  BY AppFacts DEF End, DeployTypes, DeployRun

LEMMA DeployEnds ==
  ASSUME DeployTypes, NEW d \in Roots, Answering(d),
         NEW how \in {"refused", "failed", "stopped", "deployed"}, End(d, how),
         UNCHANGED <<con, inside, owner>>,
         drec'[d] = drec[d] \/ (con # None => inside.identity # None),
         how \in {"refused", "deployed"} => Outcome(d)
  PROVE  Answering(d)' /\ Outcome(d)
<1>1. app'[d].pc = "idle" /\ app'[d].outcome = how
  BY SaysHow
<1>. QED  BY <1>1 DEF Answering, Outcome

\* One that goes on says nothing yet.
LEMMA DeployGoesOn ==
  ASSUME NEW d \in Roots, Answering(d), ~Doing(d, "idle"), app'[d].outcome = app[d].outcome
  PROVE  app'[d].outcome = "none" /\ Outcome(d)
<1>. QED  BY DEF Answering, Outcome, Doing

\* An identical retry is never refused: what a stopped deployment left is
\* complete, or may be resumed, or there is nothing yet.
LEMMA DecideAnswers ==
  ASSUME ImageTypes, DeployTypes, Vouched, NEW d \in Roots, DeployInv(d), Answering(d), Decide(d)
  PROVE  Answering(d)' /\ Outcome(d)
<1>1. /\ app[d].pc = "decide" /\ ~Doing(d, "idle") /\ app[d] \in DeployRun
      /\ want(d) \in Identity /\ want(d) = app[d].want /\ want(d) # None
      /\ UNCHANGED <<con, inside, owner>>
  BY AppFacts, NoneFacts DEF Decide, Doing, DeployInv, Locked, want
<1>2. CASE Complete(d) /\ Then(d, "start") /\ UNCHANGED drec
  <2>1. app'[d].pc = "start" /\ app'[d].outcome = app[d].outcome
    BY <1>1, <1>2 DEF Then, DeployTypes, DeployRun
  <2>. QED  BY <1>1, <1>2, <2>1, DeployGoesOn DEF Answering
<1>3. CASE Resumable(d) /\ app' = [app EXCEPT ![d].pc = "start", ![d].install = TRUE]
           /\ UNCHANGED drec
  <2>1. app'[d].pc = "start" /\ app'[d].outcome = app[d].outcome
    BY <1>1, <1>3 DEF DeployTypes, DeployRun
  <2>. QED  BY <1>1, <1>3, <2>1, DeployGoesOn DEF Answering
<1>4. CASE /\ Creatable(d) /\ drec' = [drec EXCEPT ![d] = want(d)]
           /\ app' = [app EXCEPT ![d].pc = "bind", ![d].install = TRUE]
  <2>1. /\ app'[d].pc = "bind" /\ app'[d].outcome = app[d].outcome
        /\ app'[d].want = want(d) /\ drec'[d] = want(d)
    BY <1>1, <1>4 DEF DeployTypes, DeployRun
  <2>2. con = None  BY <1>4 DEF Creatable
  <2>. QED  BY <1>1, <2>1, <2>2, DeployGoesOn DEF Answering, want
<1>5. CASE ~Complete(d) /\ ~Resumable(d) /\ ~Creatable(d) /\ End(d, "refused") /\ UNCHANGED drec
  <2>1. ASSUME drec[d] \in {None, want(d)}, con # None => con.topo = Topology(want(d)),
               inside.identity \in {None, want(d)}
        PROVE  FALSE
    <3>1. con # None  BY <1>5, <2>1 DEF Creatable
    <3>2. Expected(d)  BY <2>1, <3>1 DEF Expected, Answering
    <3>3. CASE inside.identity = None
      <4>1. drec[d] = want(d)  BY <2>1, <3>1, <3>3 DEF Answering
      <4>2. ~inside.enabled /\ ~inside.active  BY <3>3 DEF Vouched
      <4>. QED  BY <1>5, <3>2, <3>3, <4>1, <4>2 DEF Resumable
    <3>4. CASE inside.identity = want(d)
      <4>1. inside.config = want(d) /\ inside.tls = Credentials(want(d))
        BY <1>1, <3>4 DEF Vouched
      <4>. QED  BY <1>5, <2>1, <3>2, <3>4, <4>1 DEF Complete
    <3>. QED  BY <2>1, <3>3, <3>4
  <2>2. app'[d].outcome = "refused"  BY <1>1, <1>5, SaysHow
  <2>3. Outcome(d)  BY <2>1, <2>2 DEF Outcome
  <2>. QED  BY <1>1, <1>5, <2>3, DeployEnds
<1>. QED  BY <1>2, <1>3, <1>4, <1>5 DEF Decide

LEMMA CreateAnswers ==
  ASSUME ImageTypes, DeployTypes, Vouched, NEW d \in Roots, DeployInv(d), Answering(d),
         MakeBind(d) \/ Create(d) \/ EnsureStarted(d)
  PROVE  Answering(d)' /\ Outcome(d)
<1>1. /\ app[d].pc \in {"bind", "create", "start"} /\ ~Doing(d, "idle")
      /\ want(d) \in Identity /\ want(d) = app[d].want /\ want(d) # None
      /\ drec' = drec /\ owner \in [Roots -> {"absent", "root", "service"}]
      /\ app[d].pc \in {"bind", "create"} => con = None /\ drec[d] = want(d)
  BY AppFacts, NoneFacts
     DEF MakeBind, Create, EnsureStarted, Doing, DeployInv, Locked, want, DeployTypes, Answering
<1>2. CASE MakeBind(d) /\ owner[d] = "service"
  <2>1. End(d, "refused") /\ UNCHANGED <<con, inside, owner>> /\ con = None
    BY <1>1, <1>2 DEF MakeBind, Doing
  <2>2. app'[d].outcome = "refused"  BY <2>1, SaysHow
  <2>3. Outcome(d)  BY <1>2, <2>1, <2>2 DEF Outcome
  <2>. QED  BY <1>1, <2>1, <2>3, DeployEnds
<1>3. CASE MakeBind(d) /\ owner[d] # "service"
  <2>1. /\ Then(d, "create") /\ owner' = [owner EXCEPT ![d] = "root"]
        /\ UNCHANGED <<con, inside>> /\ con = None
    BY <1>1, <1>3 DEF MakeBind, Doing
  <2>2. /\ app'[d].pc = "create" /\ app'[d].outcome = app[d].outcome /\ app'[d].want = want(d)
    BY <2>1, AppFacts DEF Then, DeployTypes, DeployRun, want
  <2>3. owner'[d] = "root"  BY <1>1, <2>1
  <2>4. drec'[d] = want(d)  BY <1>1, <1>3 DEF MakeBind, Doing
  <2>. QED  BY <1>1, <2>1, <2>2, <2>3, <2>4, DeployGoesOn DEF Answering, want
<1>4. CASE Create(d)
  <2>1. con = None /\ drec[d] = want(d) /\ owner' = owner /\ owner[d] # "absent"
    BY <1>1, <1>4 DEF Create, Doing, Answering
  <2>2. Then(d, "start") /\ inside' = Fresh
    BY <1>4, <2>1 DEF Create
  <2>3. app'[d].pc = "start" /\ app'[d].outcome = app[d].outcome
    BY <2>2, AppFacts DEF Then, DeployTypes, DeployRun
  <2>. QED  BY <1>1, <2>1, <2>3, DeployGoesOn DEF Answering
<1>5. CASE EnsureStarted(d) /\ con = None
  <2>1. End(d, "failed") /\ UNCHANGED <<con, inside, owner>>
    BY <1>5 DEF EnsureStarted
  <2>. QED  BY <1>1, <2>1, DeployEnds
<1>6. CASE EnsureStarted(d) /\ con # None
  <2>. DEFINE pc == IF app[d].install THEN "tls" ELSE "storage"
  <2>1. /\ Then(d, pc) /\ pc \in {"tls", "storage"} /\ owner' = owner
        /\ inside' \in {inside, Up(inside.enabled)}
    BY <1>6 DEF EnsureStarted
  <2>. HIDE DEF pc
  <2>2. app'[d].pc = pc /\ app'[d].outcome = app[d].outcome
    BY <2>1, AppFacts DEF Then, DeployTypes, DeployRun
  <2>3. inside'.identity = inside.identity
    BY <2>1 DEF Up, DeployTypes, Inside
  <2>. QED  BY <1>1, <1>6, <2>1, <2>2, <2>3, DeployGoesOn DEF Answering
<1>. QED  BY <1>2, <1>3, <1>4, <1>5, <1>6

LEMMA CommandAnswers ==
  ASSUME DeployTypes, NEW d \in Roots, Answering(d), ~Doing(d, "idle"),
         NEW pc \in DeployPcs \ {"bind", "create"}, Then(d, pc), UNCHANGED <<con, drec>>,
         inside'.identity = None => inside.identity = None,
         owner[d] # "absent" => owner'[d] # "absent",
         pc = "finish" /\ con # None => inside'.identity = want(d) /\ inside'.enabled
  PROVE  Answering(d)' /\ Outcome(d)
<1>1. app'[d].pc = pc /\ app'[d].outcome = app[d].outcome /\ app'[d].want = want(d)
  BY AppFacts DEF Then, DeployTypes, DeployRun, want
<1>. QED  BY <1>1, DeployGoesOn DEF Answering, want, DeployPcs

LEMMA CommandsAnswer ==
  ASSUME DeployTypes, Vouched, NEW d \in Roots, DeployInv(d), Answering(d),
         \/ InstallTls(d) \/ PublishTls(d) \/ CopyAssets(d) \/ AssetsCopied(d)
         \/ PrepareStorage(d) \/ CopyEnvironment(d) \/ EnvironmentCopied(d) \/ PublishIdentity(d)
         \/ Enable(d) \/ Restart(d)
  PROVE  Answering(d)' /\ Outcome(d)
<1>1. /\ ~Doing(d, "idle") /\ UNCHANGED <<con, drec>>
      /\ want(d) # None /\ inside \in Inside /\ owner \in [Roots -> {"absent", "root", "service"}]
  BY AppFacts, NoneFacts
     DEF InstallTls, PublishTls, CopyAssets, AssetsCopied, PrepareStorage, CopyEnvironment, EnvironmentCopied,
         PublishIdentity, Enable, Restart, Command, Doing, DeployInv, Locked, DeployTypes
<1>2. ASSUME End(d, "failed"), UNCHANGED <<inside, owner>>
      PROVE  Answering(d)' /\ Outcome(d)
  BY <1>1, <1>2, DeployEnds
<1>3. ASSUME NEW pc \in DeployPcs \ {"bind", "create", "finish"}, Then(d, pc),
             inside'.identity = inside.identity \/ inside'.identity = want(d),
             owner' = owner \/ owner' = [owner EXCEPT ![d] = "service"]
      PROVE  Answering(d)' /\ Outcome(d)
  <2>1. owner[d] # "absent" => owner'[d] # "absent"  BY <1>1, <1>3
  <2>. QED  BY <1>1, <1>3, <2>1, CommandAnswers
<1>4. CASE InstallTls(d)
  BY <1>1, <1>2, <1>3, <1>4 DEF InstallTls, Command, DeployPcs, Inside
<1>5. CASE PublishTls(d)
  BY <1>1, <1>2, <1>3, <1>5 DEF PublishTls, Command, DeployPcs, Inside
<1>6. CASE CopyAssets(d)
  BY <1>1, <1>2, <1>3, <1>6 DEF CopyAssets, Command, DeployPcs, Inside
<1>7. CASE AssetsCopied(d)
  BY <1>1, <1>2, <1>3, <1>7 DEF AssetsCopied, Command, DeployPcs, Inside
<1>8. CASE PrepareStorage(d)
  BY <1>1, <1>2, <1>3, <1>8 DEF PrepareStorage, Command, DeployPcs
<1>9. CASE CopyEnvironment(d)
  <2>. DEFINE env == IF Written(inside) THEN "rewritten" ELSE "torn"
  <2>1. \/ End(d, "failed") /\ UNCHANGED <<inside, owner>>
        \/ inside' = [inside EXCEPT !.env = env] /\ Then(d, "environment") /\ UNCHANGED owner
    BY <1>9 DEF CopyEnvironment, Command
  <2>. HIDE DEF env
  <2>. QED  BY <1>1, <1>2, <1>3, <2>1 DEF Inside, DeployPcs
<1>13. CASE EnvironmentCopied(d)
  <2>. DEFINE pc == IF app[d].install THEN "identity" ELSE "enable"
  <2>1. pc \in DeployPcs \ {"bind", "create", "finish"}  BY DEF DeployPcs
  <2>2. \/ End(d, "failed") /\ UNCHANGED <<inside, owner>>
        \/ inside' = [inside EXCEPT !.env = "whole"] /\ Then(d, pc) /\ UNCHANGED owner
    BY <1>13 DEF EnvironmentCopied, Command
  <2>. HIDE DEF pc
  <2>. QED  BY <1>1, <1>2, <1>3, <2>1, <2>2 DEF Inside
<1>10. CASE PublishIdentity(d)
  BY <1>1, <1>2, <1>3, <1>10 DEF PublishIdentity, Command, DeployPcs, Inside
<1>11. CASE Enable(d)
  BY <1>1, <1>2, <1>3, <1>11 DEF Enable, Command, DeployPcs, Inside
<1>12. CASE Restart(d)
  <2>1. CASE Running
    <3>1. inside' = Up(TRUE) /\ Then(d, "finish") /\ UNCHANGED owner /\ Doing(d, "restart")
      BY <1>12, <2>1 DEF Restart, Command
    <3>2. inside.identity = want(d) /\ inside.enabled
      BY <2>1, <3>1 DEF DeployInv, Installing, Doing, Running
    <3>3. inside'.identity = want(d) /\ inside'.enabled
      BY <1>1, <3>1, <3>2 DEF Up, Inside
    <3>. QED  BY <1>1, <3>1, <3>3, CommandAnswers DEF DeployPcs
  <2>2. CASE ~Running
    BY <1>2, <1>12, <2>2 DEF Restart, Command
  <2>. QED  BY <2>1, <2>2
<1>. QED  BY <1>4, <1>5, <1>6, <1>7, <1>8, <1>9, <1>10, <1>11, <1>12, <1>13

LEMMA EndsAnswer ==
  ASSUME DeployTypes, NEW d \in Roots, DeployInv(d), Answering(d),
         Finish(d) \/ Stopped(d) \/ \E x \in Identity : Deploy(d, x)
  PROVE  Answering(d)' /\ Outcome(d)
<1>1. CASE Finish(d)
  <2>1. /\ app[d].pc = "finish" /\ ~Doing(d, "idle") /\ End(d, "deployed")
        /\ UNCHANGED <<con, inside, owner>> /\ drec'[d] = None
    BY <1>1 DEF Finish, Doing, DeployTypes
  <2>2. con # None => inside.identity = want(d) /\ inside.enabled
    BY <2>1 DEF Answering
  <2>3. want(d) # None
    BY <2>1, NoneFacts DEF DeployInv, Locked
  <2>4. app'[d].outcome = "deployed"
    BY <2>1, SaysHow
  <2>5. Outcome(d)
    BY <2>1, <2>2, <2>4 DEF Outcome
  <2>. QED  BY <2>1, <2>2, <2>3, <2>5, DeployEnds
<1>2. CASE Stopped(d)
  BY <1>2, DeployEnds DEF Stopped
<1>3. ASSUME NEW x \in Identity, Deploy(d, x) PROVE Answering(d)' /\ Outcome(d)
  <2>. DEFINE a == [Off EXCEPT !.pc = "decide", !.want = x]
  <2>1. a.pc = "decide" /\ a.outcome = "none"  BY DEF Off
  <2>2. app' = [app EXCEPT ![d] = a]  BY <1>3 DEF Deploy
  <2>. HIDE DEF a
  <2>3. app'[d] = a /\ UNCHANGED <<con, inside, owner, drec>> /\ Doing(d, "idle")
    BY <1>3, <2>2 DEF Deploy, DeployTypes
  <2>. QED  BY <2>1, <2>3 DEF Answering, Outcome
<1>. QED  BY <1>1, <1>2, <1>3

\* The operator's acts leave a deployment nothing to answer for that it did
\* not do: a container removed under it is missed by the next command.
LEMMA OperatorAnswers ==
  ASSUME DeployTypes, NEW d \in Roots, Answering(d), LifecycleStart \/ LifecycleStop \/ Remove
  PROVE  Answering(d)' /\ Outcome(d)
<1>1. con # None /\ UNCHANGED <<owner, drec, app>> /\ inside \in Inside
  BY DEF LifecycleStart, LifecycleStop, Remove, Running, DeployTypes
<1>2. Outcome(d)
  BY <1>1 DEF Outcome, Answering, Doing
<1>3. CASE Remove
  BY <1>1, <1>2, <1>3 DEF Remove, Answering, want
<1>4. CASE LifecycleStart \/ LifecycleStop
  <2>1. inside'.identity = inside.identity /\ inside'.enabled = inside.enabled
    BY <1>1, <1>4 DEF LifecycleStart, LifecycleStop, Up, Inside
  <2>. QED  BY <1>1, <1>2, <2>1 DEF Answering, want
<1>. QED  BY <1>2, <1>3, <1>4

(***************************************************************************)
(* Every step, once more.                                                  *)
(***************************************************************************)
TellInv == \A d \in Roots : RecordInv(d) /\ Answering(d)

LEMMA RecordInvKept == ASSUME NEW d \in Roots, RecordInv(d), UNCHANGED ivars PROVE RecordInv(d)'
<1>1. Recorded(d)'  BY RecordsKept DEF ivars, RecordInv
<1>2. UnderWay(d)' /\ Because(d)'
  BY DEF ivars, RecordInv, UnderWay, Because, cur, inv, RuntimeIntent, Whole, Clean
<1>. QED  BY <1>1, <1>2 DEF RecordInv

LEMMA EveryStepTells ==
  ASSUME OneRoot, AllInv, TellInv, [DNext]_vars
  PROVE  TellInv' /\ \A d \in Roots : Outcome(d)
<1>1. CASE ImageStep
  <2>1. PICK d \in Roots : Step(d) \/ Fail(d) \/ Kill(d) \/ \E v \in Invocations : Begin(d, v)
    BY <1>1 DEF ImageStep
  <2>2. \A e \in Roots : e = d
    BY DEF OneRoot
  <2>3. RecordInv(d)'
    BY <2>1, RunRecords DEF AllInv, TellInv
  <2>4. Answering(d)' /\ Outcome(d)
    BY <1>1 DEF ImageStep, dvars, TellInv, Answering, Outcome, Doing, want
  <2>. QED  BY <2>2, <2>3, <2>4 DEF TellInv
<1>2. ASSUME NEW d \in Roots, DeployStep(d) \/ Stopped(d) \/ \E x \in Identity : Deploy(d, x)
      PROVE  TellInv' /\ \A e \in Roots : Outcome(e)
  <2>1. \A e \in Roots : e = d
    BY DEF OneRoot
  <2>2. UNCHANGED ivars
    BY <1>2 DEF DeployStep, Stopped, Deploy, Decide, MakeBind, Create, EnsureStarted, InstallTls,
           PublishTls, CopyAssets, AssetsCopied, PrepareStorage, CopyEnvironment, EnvironmentCopied,
           PublishIdentity, Enable, Restart, Finish, Command
  <2>3. RecordInv(d)'  BY <2>2, RecordInvKept DEF TellInv
  <2>4. Answering(d)' /\ Outcome(d)
    BY <1>2, DecideAnswers, CreateAnswers, CommandsAnswer, EndsAnswer
       DEF AllInv, TellInv, DeployStep
  <2>. QED  BY <2>1, <2>3, <2>4 DEF TellInv
<1>3. CASE LifecycleStart \/ LifecycleStop \/ Remove
  <2>1. UNCHANGED ivars  BY <1>3 DEF LifecycleStart, LifecycleStop, Remove
  <2>. QED  BY <1>3, <2>1, RecordInvKept, OperatorAnswers DEF TellInv, AllInv
<1>4. CASE UNCHANGED vars
  <2>1. UNCHANGED ivars /\ UNCHANGED <<con, inside, owner, drec, app>>
    BY <1>4 DEF vars, dvars
  <2>2. ASSUME NEW d \in Roots PROVE Answering(d)' /\ Outcome(d)
    BY <2>1 DEF TellInv, Answering, Outcome, Doing, want
  <2>. QED  BY <2>1, <2>2, RecordInvKept DEF TellInv
<1>. QED  BY <1>1, <1>2, <1>3, <1>4 DEF DNext

LEMMA TellsAtFirst == ASSUME DInit PROVE TellInv
<1>. SUFFICES ASSUME NEW d \in Roots PROVE RecordInv(d) /\ Answering(d)
  BY DEF TellInv
<1>1. PICK v \in Invocations : run = [e \in Roots |-> [Started(v) EXCEPT !.pc = "idle"]]
  BY DEF DInit, Init
<1>2. run[d].pc = "idle" /\ run[d].outcome = "none"
  BY <1>1 DEF Started
<1>3. UnderWay(d) /\ Because(d)
  BY <1>2 DEF UnderWay, Because, RuntimePcs
<1>4. Recorded(d)
  <2>1. /\ \A t \in Targets : rec[d][t] = None
        /\ \A i \in Img : archive[d][i] = None /\ fs[i] = None
        /\ runtime.state = None /\ assets[d] = FALSE
    BY DEF DInit, Init, NoRuntime
  <2>. QED
    BY <2>1, TargetFacts, Nothing DEF Recorded, ArchiveRecord, ImageRecord, RuntimeRecord
<1>5. Answering(d)
  BY DEF DInit, Off, Answering
<1>. QED  BY <1>3, <1>4, <1>5 DEF RecordInv

LEMMA Telling == ASSUME OneRoot PROVE DSpec => [](AllInv /\ TellInv)
<1>1. DInit => AllInv /\ TellInv  BY AtFirst, TellsAtFirst
<1>2. AllInv /\ TellInv /\ [DNext]_vars => (AllInv /\ TellInv)'
  BY EveryStep, EveryStepTells DEF Kept
<1>. QED  BY <1>1, <1>2, PTL DEF DSpec

(***************************************************************************)
(* The theorems.                                                           *)
(***************************************************************************)
\* prepare-runtime, and apply after it, report success only over a scanned
\* runtime built from exactly the images their provenance names.
THEOREM ReadyHolds == ASSUME OneRoot PROVE DSpec => []ReadyIsWhole
<1>1. AllInv => ReadyIsWhole  BY DEF AllInv, ImageInv, Ready, ReadyIsWhole
<1>. QED  BY <1>1, Invariance, PTL

\* No run, wherever earlier ones were killed, discards or alters what has its
\* provenance, and an identity stays with what it vouches for.
THEOREM FinalHolds == ASSUME OneRoot PROVE DSpec => PublishedIsFinal
<1>1. AllInv /\ [DNext]_vars =>
        [/\ PublishedUntouched
         /\ inside.identity # None /\ con' # None =>
              /\ inside'.identity = inside.identity
              /\ inside'.config = inside.config /\ inside'.tls = inside.tls]_vars
  BY EveryStep DEF Kept, StaysVouched
<1>. QED  BY <1>1, Invariance, PTL DEF DSpec, PublishedIsFinal

\* Whoever starts and stops the container while a deployment is half done,
\* NativeLink runs only on a whole installation of one identity.
THEOREM ServesHolds == ASSUME OneRoot PROVE DSpec => []ServesOnlyComplete
<1>1. AllInv => ServesOnlyComplete
  BY DEF AllInv, Vouched, ServesOnlyComplete, Running
<1>. QED  BY <1>1, Invariance, PTL

\* Wherever earlier runs were killed, a run is refused only if it asks for
\* something else than is published or recorded, and one nobody stops gives
\* up only on a build that captured proxy material.
THEOREM RefusalsHold == ASSUME OneRoot PROVE DSpec => []RefusedOnlyWhenChanged
<1>1. TellInv => RefusedOnlyWhenChanged
  BY DEF TellInv, RecordInv, Because, RefusedOnlyWhenChanged
<1>. QED  BY <1>1, Telling, PTL

\* apply is never refused what an apply before it was stopped in the middle of,
\* and one that says it deployed leaves an enabled service and no record.
THEOREM OutcomesHold == ASSUME OneRoot PROVE DSpec => DeployOutcomeHolds
<1>1. AllInv /\ TellInv /\ [DNext]_vars =>
        [\A d \in Roots : ~Doing(d, "idle") =>
           /\ app'[d].outcome = "refused" =>
                \/ drec[d] \notin {None, want(d)}
                \/ con # None /\ con.topo # Topology(want(d))
                \/ inside.identity \notin {None, want(d)}
                \/ con = None /\ owner[d] = "service"
           /\ app'[d].outcome = "deployed" =>
                /\ drec'[d] = None
                /\ con # None => inside.identity = want(d) /\ inside.enabled]_vars
  BY EveryStepTells DEF Outcome
<1>. QED  BY <1>1, Telling, PTL DEF DSpec, DeployOutcomeHolds
=============================================================================
