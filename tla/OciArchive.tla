----------------------------- MODULE OciArchive -----------------------------
(* infra/remote-execution/scripts/oci_archive.py: which archive of an image may  *)
(* be handed to SDME.  A digest is the document it is the digest of, so a blob    *)
(* is what its name says when its body is its name; an archive is its root        *)
(* descriptor, the platform that states if any, and its blobs, and its SHA-256    *)
(* is the archive.                                                                *)
EXTENDS Naturals, Sequences, FiniteSets, SequencesExt

CONSTANTS Digest,      \* blobs and documents
          Image        \* the images a runtime is built from, in order

None == "none"
(* Documents: an index lists manifests, each with the platform it states, if any; *)
(* a manifest has a config and layers; a config states a platform.  A platform    *)
(* is <<architecture, variant>>, the variant None or a name.                      *)
NoPlatform == <<>>
Index(children) == [kind |-> "index", children |-> children]
Manifest(config, layers) == [kind |-> "manifest", config |-> config, layers |-> layers]
Config(platform) == [kind |-> "config", platform |-> platform]
Blob == [kind |-> "layer"]

(* A contract: what the tracked metadata says of one image on one architecture;  *)
(* without metadata for it, only the reference is known.                         *)
Tracked(c) == c.manifest # None

-----------------------------------------------------------------------------
(* _platform_matches; without metadata any variant will do. *)
States(c, platform) ==
  /\ platform # NoPlatform
  /\ platform[1] = c.platform[1]
  /\ Tracked(c) => platform[2] = c.platform[2]
(* _select_parent_manifest: exactly one child states the platform. *)
Matching(docs, c) ==
  {i \in DOMAIN docs[c.parent].children : States(c, docs[c.parent].children[i].platform)}
Selectable(docs, c) ==
  /\ docs[c.parent].kind = "index"
  /\ \A i, j \in DOMAIN docs[c.parent].children :
       docs[c.parent].children[i].digest = docs[c.parent].children[j].digest => i = j
  /\ Cardinality(Matching(docs, c)) = 1
Position(docs, c) == CHOOSE i \in Matching(docs, c) : TRUE
Selected(docs, c) == docs[c.parent].children[Position(docs, c)].digest

(* _verify_blob: present, and what its name says. *)
Verified(a, d) == d \in DOMAIN a.blobs /\ a.blobs[d] = d
Needs(docs, m) == {docs[m].config} \cup ToSet(docs[m].layers)

(* The manifest an archive's root leads to, by the pinned parent or directly. *)
FromParent_anywhere(docs, c, a) ==   \* mutant: the selected child may be any
  /\ a.root = c.parent
  /\ a.annotated
  /\ Verified(a, c.parent) /\ Selectable(docs, c)

FromParent(docs, c, a) ==
  /\ a.root = c.parent
  /\ a.annotated                                  \* with the pinned reference
  /\ Verified(a, c.parent) /\ Selectable(docs, c)
  /\ Position(docs, c) = 1                        \* SDME 0.18 takes the first
Direct(docs, c, a) ==
  /\ a.root # c.parent
  /\ \/ /\ Verified(a, c.parent) /\ Selectable(docs, c)
        /\ Selected(docs, c) = a.root
     \/ c.parent \notin DOMAIN a.blobs /\ ~Tracked(c)
Chosen(docs, c, a) == IF a.root = c.parent THEN Selected(docs, c) ELSE a.root
Stated(docs, c, a) ==
  IF a.root = c.parent THEN docs[c.parent].children[Position(docs, c)].platform ELSE a.platform
Disagree(p, q) == p # NoPlatform /\ p[2] # None /\ q[2] # None /\ p[2] # q[2]

(* _inspect_archive: the manifest is the tracked one, of the right platform, with *)
(* its config and layers, and there is no other blob.                            *)
Closed(docs, c, a) ==
  LET m == Chosen(docs, c, a)
      platform == docs[docs[m].config].platform
      stated == Stated(docs, c, a)
      parent == {c.parent} \cap DOMAIN a.blobs
  IN  /\ docs[m].kind = "manifest"
      /\ Tracked(c) => m = c.manifest
      /\ stated # NoPlatform => States(c, stated)
      /\ docs[m].layers # <<>>
      /\ \A d \in {m} \cup Needs(docs, m) : Verified(a, d)
      /\ docs[docs[m].config].kind = "config" /\ States(c, platform)
      /\ ~Disagree(stated, platform)
      /\ DOMAIN a.blobs = {m} \cup Needs(docs, m) \cup parent

Inspected(docs, c, a) ==
  /\ FromParent(docs, c, a) \/ Direct(docs, c, a)
  /\ Closed(docs, c, a)

verify_contents(docs, c, a, acquisition) ==   \* mutant: no archive identity
  /\ acquisition = "offline" => Tracked(c)
  /\ Inspected(docs, c, a)

(* verify_archive: an offline archive is the tracked file, byte for byte. *)
verify_archive(docs, c, a, acquisition) ==
  /\ acquisition = "offline" => Tracked(c) /\ a = c.archive
  /\ Inspected(docs, c, a)

(* What SDME imports from an archive, by its own rule. *)
Imports(docs, a) ==
  IF docs[a.root].kind = "index" THEN docs[a.root].children[1].digest ELSE a.root

-----------------------------------------------------------------------------
(* An archive that is admitted for a tracked image makes SDME import the one      *)
(* manifest the pinned index selects for the platform, with every blob of it the  *)
(* one its digest names, and carries nothing else.                                *)
Pinned(docs, c, a) ==
  LET m == Imports(docs, a)
  IN  /\ m = c.manifest
      /\ \E i \in DOMAIN docs[c.parent].children :
           docs[c.parent].children[i] = [digest |-> m, platform |-> c.platform]
      /\ docs[docs[m].config].platform = c.platform
      /\ \A d \in {m} \cup Needs(docs, m) : d \in DOMAIN a.blobs
      /\ \A d \in DOMAIN a.blobs : a.blobs[d] = d /\ d \in {m, c.parent} \cup Needs(docs, m)
=============================================================================
