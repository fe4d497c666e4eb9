---------------------------- MODULE RuntimeImages ----------------------------
(***************************************************************************)
(* How sdme-provision.sh publishes what a NativeLink container runs on: an *)
(* OCI archive for each image, the filesystem imported from it, and the    *)
(* runtime filesystem built from those.  `prepare-runtime` does this, and  *)
(* `apply` before it deploys (Provision).                                  *)
(*                                                                         *)
(* Each object is published in several steps.  An intent record is on disk *)
(* before the first and cleared after the last; what a killed run leaves   *)
(* half-published may be discarded only by a run whose intent is the one   *)
(* recorded.  Archives, records and the lock belong to a data root, the    *)
(* filesystems to the host.                                                *)
(***************************************************************************)
EXTENDS Integers, Sequences

CONSTANTS Roots,        \* data roots in use on the host
          Images,       \* how many images, numbered in the order imported
          Forced,       \* the images whose import replaces a filesystem (-f)
          Saves,        \* archives `podman save` may write of one image
          Invocations,  \* what operators may ask for
          Partial,      \* a filesystem imported, without its provenance
          None

Img == 1..Images

\* An archive, identified by its provenance: the tracked offline archive is
\* pinned by its digest, a registry archive is whatever podman saved.
Contents == [acq : {"offline"}, id : {"pinned"}] \cup [acq : {"registry"}, id : Saves]

\* acq: where each image comes from; proxy: the environment sets one.
Invocation == [acq : [Img -> {"offline", "registry"}], proxy : BOOLEAN]
ASSUME InvocationAssumption ==
  /\ Images \in Nat \ {0} /\ Forced \subseteq Img
  /\ {None, Partial} \cap Contents = {} /\ None # Partial
  /\ Invocations \subseteq Invocation
  \* Nothing that exists is None: a state of the runtime, a whole provenance,
  \* an intent record.
  /\ None \notin {"partial", "clean", "leaky"} /\ None \notin [Img -> Contents]
  /\ None \notin [intent : {"offline", "registry"} \cup Contents
                             \cup [prov : [Img -> Contents], proxy : BOOLEAN],
                   object : Contents \cup [Img -> Contents]]

VARIABLES archive,  \* the cached archive of an image
          prov,     \* its provenance file
          rec,      \* the intent records
          assets,   \* the proxy transport files of a runtime build exist
          fs,       \* the imported filesystems
          runtime,  \* the runtime filesystem
          run       \* the run in progress under each root's lock
ivars == <<archive, prov, rec, assets, fs, runtime, run>>

NoRuntime == [state |-> None, from |-> None, prov |-> None]

Archive(i) == <<"archive", i>>
Image(i)   == <<"image", i>>
Runtime    == <<"runtime", 0>>
Targets    == ({"archive", "image"} \X Img) \cup {Runtime}
Intent(intent, object) == [intent |-> intent, object |-> object]

At(d, pc)   == run[d].pc = pc
GoTo(d, pc) == run' = [run EXCEPT ![d].pc = pc]
cur(d)    == run[d].img
inv(d)    == run[d].inv
source(d) == inv(d).acq[cur(d)]

\* mine: this run made the transport files, and removes them when it exits.
Started(v)   == [pc |-> "archive", img |-> 1, inv |-> v, new |-> None,
                 mine |-> FALSE, outcome |-> "none"]
Exit(d, how) == run' = [run EXCEPT ![d] = [Started(inv(d)) EXCEPT !.pc = "idle", !.outcome = how]]
cleanup(d)   == assets' = [assets EXCEPT ![d] = @ /\ ~run[d].mine]
Die(d, how)  == Exit(d, how) /\ cleanup(d)

write_record(d, t, r) == rec' = [rec EXCEPT ![d][t] = r]
clear_record(d, t)    == write_record(d, t, None)

Init ==
  /\ archive = [d \in Roots |-> [i \in Img |-> None]]
  /\ prov = archive
  /\ rec = [d \in Roots |-> [t \in Targets |-> None]]
  /\ assets = [d \in Roots |-> FALSE]
  /\ fs = [i \in Img |-> None]
  /\ runtime = NoRuntime
  /\ \E v \in Invocations :
       run = [d \in Roots |-> [Started(v) EXCEPT !.pc = "idle"]]

\* Under the root's lock: a second run on the same root ends at flock.
Begin(d, v) ==
  /\ At(d, "idle")
  /\ run' = [run EXCEPT ![d] = Started(v)]
  /\ UNCHANGED <<archive, prov, rec, assets, fs, runtime>>

-----------------------------------------------------------------------------
(* materialize_archive: the archive, then the provenance beside it.        *)

Reusable(d, i) ==
  /\ archive[d][i] # None /\ prov[d][i] = archive[d][i]
  /\ archive[d][i].acq = source(d)
  /\ rec[d][Archive(i)] \in {None, Intent(source(d), prov[d][i])}

\* Mutation: an archive with a record counts as unpublished.
DiscardableRecorded(d, i) ==
  /\ archive[d][i] # None
  /\ rec[d][Archive(i)] = Intent(source(d), archive[d][i])

Discardable(d, i) ==
  /\ archive[d][i] # None /\ prov[d][i] = None
  /\ rec[d][Archive(i)] = Intent(source(d), archive[d][i])

\* Mutation: a record without an object is never taken over.
UnstartedUnrecorded(d, i) ==
  archive[d][i] = None /\ prov[d][i] = None /\ rec[d][Archive(i)] = None

Unstarted(d, i) ==
  /\ archive[d][i] = None /\ prov[d][i] = None
  /\ rec[d][Archive(i)] # None => rec[d][Archive(i)].intent = source(d)

CheckArchive(d) ==
  LET i == cur(d)
  IN /\ At(d, "archive")
     /\ \/ /\ Reusable(d, i)
           /\ clear_record(d, Archive(i)) /\ GoTo(d, "image")
           /\ UNCHANGED archive
        \/ /\ Discardable(d, i)
           /\ archive' = [archive EXCEPT ![d][i] = None]
           /\ GoTo(d, "archive") /\ UNCHANGED rec
        \/ /\ Unstarted(d, i)
           /\ clear_record(d, Archive(i)) /\ GoTo(d, "acquire")
           /\ UNCHANGED archive
        \/ /\ ~Reusable(d, i) /\ ~Discardable(d, i) /\ ~Unstarted(d, i)
           /\ Exit(d, "refused") /\ UNCHANGED <<archive, rec>>
     /\ UNCHANGED <<prov, assets, fs, runtime>>

\* Copied or pulled, verified, and recorded before it gets its name.
Acquire(d) ==
  /\ At(d, "acquire")
  /\ \E c \in Contents :
       /\ c.acq = source(d)
       /\ write_record(d, Archive(cur(d)), Intent(source(d), c))
       /\ run' = [run EXCEPT ![d].pc = "publish", ![d].new = c]
  /\ UNCHANGED <<archive, prov, assets, fs, runtime>>

PublishArchive(d) ==
  /\ At(d, "publish")
  /\ archive' = [archive EXCEPT ![d][cur(d)] = run[d].new]
  /\ GoTo(d, "provenance")
  /\ UNCHANGED <<prov, rec, assets, fs, runtime>>

PublishProvenance(d) ==
  /\ At(d, "provenance")
  /\ prov' = [prov EXCEPT ![d][cur(d)] = run[d].new]
  /\ run' = [run EXCEPT ![d].pc = "published", ![d].new = None]
  /\ UNCHANGED <<archive, rec, assets, fs, runtime>>

ArchiveDone(d) ==
  /\ At(d, "published")
  /\ clear_record(d, Archive(cur(d)))
  /\ GoTo(d, "image")
  /\ UNCHANGED <<archive, prov, assets, fs, runtime>>

-----------------------------------------------------------------------------
(* ensure_image_fs: imported, then marked with the archive's provenance.   *)

NextImage(d) == run' = [run EXCEPT ![d].pc = IF cur(d) = Images THEN "runtime" ELSE "archive",
                                   ![d].img = IF cur(d) = Images THEN 1 ELSE cur(d) + 1]

CheckImage(d) ==
  LET i == cur(d)
      p == prov[d][i]
      r == rec[d][Image(i)]
  IN /\ At(d, "image")
     /\ \/ /\ r \in {None, Intent(p, p)} /\ fs[i] = p
           /\ clear_record(d, Image(i)) /\ NextImage(d)
           /\ UNCHANGED fs
        \/ /\ r = Intent(p, p) /\ fs[i] # p
           /\ fs' = [fs EXCEPT ![i] = None]
           /\ GoTo(d, "import") /\ UNCHANGED rec
        \/ /\ r = None /\ fs[i] = None
           /\ write_record(d, Image(i), Intent(p, p))
           /\ GoTo(d, "import") /\ UNCHANGED fs
        \/ /\ r \notin {None, Intent(p, p)} \/ (r = None /\ fs[i] \notin {None, p})
           /\ Exit(d, "refused") /\ UNCHANGED <<rec, fs>>
     /\ UNCHANGED <<archive, prov, assets, runtime>>

Import(d) ==
  /\ At(d, "import")
  /\ IF fs[cur(d)] # None /\ cur(d) \notin Forced
     THEN Exit(d, "failed") /\ UNCHANGED fs
     ELSE fs' = [fs EXCEPT ![cur(d)] = Partial] /\ GoTo(d, "prove")
  /\ UNCHANGED <<archive, prov, rec, assets, runtime>>

Prove(d) ==
  /\ At(d, "prove")
  /\ IF fs[cur(d)] = None
     THEN Exit(d, "failed") /\ UNCHANGED fs
     ELSE fs' = [fs EXCEPT ![cur(d)] = prov[d][cur(d)]] /\ GoTo(d, "proved")
  /\ UNCHANGED <<archive, prov, rec, assets, runtime>>

ImageDone(d) ==
  /\ At(d, "proved")
  /\ IF fs[cur(d)] # prov[d][cur(d)]
     THEN Exit(d, "failed") /\ UNCHANGED rec
     ELSE clear_record(d, Image(cur(d))) /\ NextImage(d)
  /\ UNCHANGED <<archive, prov, assets, fs, runtime>>

-----------------------------------------------------------------------------
(* ensure_runtime_fs: built from the images, scanned, then marked.         *)

\* runtime_fs_matches: no proxy material, and the expected provenance.
Clean == runtime.state = "clean"

\* Mutation: a runtime is recognised by its content alone.
WholeByContent(d) == Clean

Whole(d) == Clean /\ runtime.prov = prov[d]
RuntimeIntent(d) == Intent([prov |-> prov[d], proxy |-> inv(d).proxy], prov[d])
Unowned(d) == assets[d] /\ ~inv(d).proxy

CheckRuntime(d) ==
  LET r == rec[d][Runtime]
      recorded == r = RuntimeIntent(d)
      absent == runtime.state = None
  IN /\ At(d, "runtime")
     /\ \/ /\ Whole(d) /\ recorded
           /\ GoTo(d, "proven") /\ UNCHANGED <<rec, assets>>
        \/ /\ Whole(d) /\ r = None /\ ~assets[d]
           /\ Exit(d, "ready") /\ UNCHANGED <<rec, assets>>
        \/ /\ ~Whole(d) /\ recorded /\ ~Unowned(d)
           /\ assets' = [assets EXCEPT ![d] = FALSE]
           /\ GoTo(d, IF absent THEN "transport" ELSE "discard") /\ UNCHANGED rec
        \/ /\ absent /\ r = None /\ ~assets[d]
           /\ write_record(d, Runtime, RuntimeIntent(d))
           /\ GoTo(d, "transport") /\ UNCHANGED assets
        \/ /\ \/ r # None /\ ~recorded
              \/ ~Whole(d) /\ recorded /\ Unowned(d)
              \/ r = None /\ assets[d]
              \/ r = None /\ ~Whole(d) /\ ~absent
           /\ Die(d, "refused") /\ UNCHANGED rec
     /\ UNCHANGED <<archive, prov, fs, runtime>>

Discard(d) ==
  /\ At(d, "discard")
  /\ runtime' = NoRuntime
  /\ GoTo(d, "transport")
  /\ UNCHANGED <<archive, prov, rec, assets, fs>>

Transport(d) ==
  /\ At(d, "transport")
  /\ assets' = [assets EXCEPT ![d] = inv(d).proxy]
  /\ run' = [run EXCEPT ![d].pc = "build", ![d].mine = inv(d).proxy]
  /\ UNCHANGED <<archive, prov, rec, fs, runtime>>

\* sdme builds for minutes: a killed build leaves a partial filesystem.
Build(d) ==
  /\ At(d, "build")
  /\ IF runtime.state # None
     THEN Die(d, "failed") /\ UNCHANGED runtime
     ELSE /\ runtime' = [state |-> "partial", from |-> fs, prov |-> None]
          /\ GoTo(d, "built") /\ UNCHANGED assets
  /\ UNCHANGED <<archive, prov, rec, fs>>

\* A build through a proxy may capture what the transport conveyed.
Built(d) ==
  /\ At(d, "built")
  /\ \E s \in {"clean"} \cup (IF inv(d).proxy THEN {"leaky"} ELSE {}) :
       runtime' = [runtime EXCEPT !.state = s]
  /\ GoTo(d, "validate")
  /\ UNCHANGED <<archive, prov, rec, assets, fs>>

InstallProvenance(d) ==
  /\ At(d, "validate")
  /\ IF Clean
     THEN /\ runtime' = [runtime EXCEPT !.prov = prov[d]]
          /\ GoTo(d, "installed") /\ UNCHANGED assets
     ELSE Die(d, "failed") /\ UNCHANGED runtime
  /\ UNCHANGED <<archive, prov, rec, fs>>

ValidateRuntime(d) ==
  /\ At(d, "installed")
  /\ IF Whole(d) THEN GoTo(d, "proven") /\ UNCHANGED assets ELSE Die(d, "failed")
  /\ UNCHANGED <<archive, prov, rec, fs, runtime>>

\* clear_runtime_transaction: the transport files, then the record.
RemoveTransport(d) ==
  /\ At(d, "proven")
  /\ assets' = [assets EXCEPT ![d] = FALSE]
  /\ GoTo(d, "settle")
  /\ UNCHANGED <<archive, prov, rec, fs, runtime>>

RuntimeDone(d) ==
  /\ At(d, "settle")
  /\ clear_record(d, Runtime)
  /\ Exit(d, "ready")
  /\ UNCHANGED <<archive, prov, assets, fs, runtime>>

-----------------------------------------------------------------------------

\* A step fails, or a signal ends the run: the EXIT trap cleans up.
Fail(d) ==
  /\ ~At(d, "idle") /\ Die(d, "stopped")
  /\ UNCHANGED <<archive, prov, rec, fs, runtime>>

Kill(d) ==
  /\ ~At(d, "idle") /\ Exit(d, "killed")
  /\ UNCHANGED <<archive, prov, rec, assets, fs, runtime>>

Step(d) ==
  \/ CheckArchive(d) \/ Acquire(d) \/ PublishArchive(d) \/ PublishProvenance(d)
  \/ ArchiveDone(d) \/ CheckImage(d) \/ Import(d) \/ Prove(d) \/ ImageDone(d)
  \/ CheckRuntime(d) \/ Discard(d) \/ Transport(d) \/ Build(d) \/ Built(d)
  \/ InstallProvenance(d) \/ ValidateRuntime(d) \/ RemoveTransport(d) \/ RuntimeDone(d)

Next == \E d \in Roots :
  Step(d) \/ Fail(d) \/ Kill(d) \/ \E v \in Invocations : Begin(d, v)

Spec == Init /\ [][Next]_ivars

-----------------------------------------------------------------------------
(* Properties. *)

\* "An identical retry may discard and recreate": wherever earlier runs
\* were stopped, a run is refused only if it asks for something else than
\* what is published or recorded, and a run nobody stops gives up only on a
\* build that captured proxy material.
RefusedOnlyWhenChanged ==
  \A d \in Roots :
    /\ run[d].outcome = "refused" =>
         \/ \E i \in Img : prov[d][i] # None /\ prov[d][i].acq # inv(d).acq[i]
         \/ \E i \in Img : rec[d][Archive(i)] # None
                            /\ rec[d][Archive(i)].intent # inv(d).acq[i]
         \/ rec[d][Runtime] # None /\ rec[d][Runtime].intent.proxy # inv(d).proxy
    /\ run[d].outcome = "failed" => runtime.state = "leaky" /\ inv(d).proxy

\* "only an unpublished partial object": no step removes or alters an
\* archive, an image filesystem or a runtime that has its provenance.
PublishedUntouched ==
  /\ \A d \in Roots, i \in Img : prov[d][i] # None =>
       archive'[d][i] = archive[d][i] /\ prov'[d][i] = prov[d][i]
  /\ \A i \in Img : fs[i] \in Contents => fs'[i] = fs[i]
  /\ runtime.prov # None => runtime' = runtime

\* A run that succeeds leaves a scanned runtime, built from exactly the
\* images its root has the provenance of, and no record or transport file.
ReadyIsWhole ==
  \A d \in Roots : run[d].outcome = "ready" =>
    /\ runtime = [state |-> "clean", from |-> prov[d], prov |-> prov[d]]
    /\ fs = prov[d] /\ archive[d] = prov[d]
    /\ \A i \in Img : prov[d][i] \in Contents /\ prov[d][i].acq = inv(d).acq[i]
    /\ rec[d] = [t \in Targets |-> None] /\ ~assets[d]
=============================================================================
