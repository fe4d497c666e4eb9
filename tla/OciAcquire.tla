----------------------------- MODULE OciAcquire -----------------------------
(* infra/remote-execution/scripts/oci_acquire.py: a run fetches the pinned       *)
(* documents of every image from its registry, writes one archive of each in a   *)
(* staging directory, verifies it as a consumer would, and moves the archives     *)
(* into the output directory one after the other.  Several runs may share an      *)
(* output directory; the registry may answer wrongly, ask for a token or forget   *)
(* one; a run may be killed; and somebody else may put files there.               *)
EXTENDS OciArchive

CONSTANTS Run,
          Worlds,       \* what the registries hold and the metadata tracks
          MaxFaults,    \* bound: bad answers, errors, kills
          MaxForeign    \* bound: acts of somebody else in the output directory

NoFile == [root |-> None]
Foreign == [root |-> "foreign"]

(* Platforms are pairs, children state one or none, and an archive is neither the *)
(* absence of a file nor somebody else's.                                        *)
IsPair(p) == p = <<p[1], p[2]>>
WellFormed(docs, c) ==
  /\ IsPair(c.platform) /\ c.archive \notin {NoFile, Foreign}
  /\ \A d \in DOMAIN docs :
       /\ docs[d].kind = "config" => docs[d].platform = NoPlatform \/ IsPair(docs[d].platform)
       /\ docs[d].kind = "index" =>
            \A i \in DOMAIN docs[d].children :
              LET child == docs[d].children[i]
              IN  /\ child = [digest |-> child.digest, platform |-> child.platform]
                  /\ child.platform = NoPlatform \/ IsPair(child.platform)
ASSUME OciAssumption ==
  /\ Len(Image) \in Nat \ {0}
  /\ \A w \in Worlds : \A i \in 1 .. Len(Image) :
       LET c == w.contracts[i]
       IN  /\ WellFormed(w.docs, c)
           /\ w.documents[i] \subseteq DOMAIN w.docs /\ c.parent \in DOMAIN w.docs

VARIABLES world,
          files,       \* files[i]: what has image i's name in the output directory
          staging,     \* runs whose staging directory exists
          run,
          faults, foreign,
          cut          \* history: a run was stopped between two of its moves

vars == <<world, files, staging, run, faults, foreign, cut>>

Process == [pc |-> "start", at |-> 1, phase |-> "parent", want |-> None,
            have |-> {},                     \* documents and blobs fetched for this image
            tokens |-> {},                   \* images whose registry has given a token
            archives |-> <<>>]

Init ==
  /\ world \in Worlds
  /\ files = [i \in 1 .. Len(Image) |-> NoFile]
  /\ staging = {}
  /\ run = [r \in Run |-> Process]
  /\ faults = 0 /\ foreign = 0
  /\ cut = FALSE

At(r, pc) == run[r].pc = pc
Goto(r, pc) == run' = [run EXCEPT ![r].pc = pc]
Over == {"done", "failed", "killed"}
contract(r) == world.contracts[run[r].at]
docs == world.docs
Faulty == faults < MaxFaults /\ faults' = faults + 1
(* Any exception leaves the TemporaryDirectory block, which removes it. *)
Fail(r) == Goto(r, "failed") /\ staging' = staging \ {r}
Token(r) == run[r].at \in run[r].tokens
Fetching(r, phase, d) == [run[r] EXCEPT !.pc = "open", !.phase = phase, !.want = d]

-----------------------------------------------------------------------------
(* The metadata is loaded and no destination may exist. *)
Check(r) ==
  /\ At(r, "start")
  /\ \/ /\ \A i \in DOMAIN files : Tracked(world.contracts[i]) /\ files[i] = NoFile
        /\ staging' = staging \cup {r}
        /\ run' = [run EXCEPT ![r] = Fetching(r, "parent", contract(r).parent)]
     \/ /\ \E i \in DOMAIN files : ~Tracked(world.contracts[i]) \/ files[i] # NoFile
        /\ Fail(r)
  /\ UNCHANGED <<world, files, faults, foreign, cut>>

(* HTTPRegistryTransport._open: a 401 is answered by a token and one more try. *)
Open(r) ==
  /\ At(r, "open")
  /\ Goto(r, IF world.auth => Token(r) THEN "body" ELSE "token")
  /\ UNCHANGED <<world, files, staging, faults, foreign, cut>>

FetchToken(r) ==
  /\ At(r, "token")
  /\ \/ /\ run' = [run EXCEPT ![r].tokens = run[r].tokens \cup {run[r].at}, ![r].pc = "reopen"]
        /\ UNCHANGED <<staging, faults>>
     \/ Faulty /\ Fail(r)
  /\ UNCHANGED <<world, files, foreign, cut>>

Reopen(r) ==
  /\ At(r, "reopen")
  /\ \/ Token(r) /\ Goto(r, "body") /\ UNCHANGED staging
     \/ ~Token(r) /\ Fail(r)
  /\ UNCHANGED <<world, files, faults, foreign, cut>>

(* The registry forgets the token. *)
Expire(r) ==
  /\ Token(r) /\ run[r].pc \notin Over /\ Faulty
  /\ run' = [run EXCEPT ![r].tokens = run[r].tokens \ {run[r].at}]
  /\ UNCHANGED <<world, files, staging, foreign, cut>>

(* What the code does with each document once its digest is right: the parent    *)
(* must select the tracked manifest, first for x86_64; the manifest must have a   *)
(* config and layers, none of them one of the two documents.                      *)
ParentAccepted(r) ==
  LET c == contract(r)
  IN  /\ Selectable(docs, c) /\ Selected(docs, c) = c.manifest
      /\ world.arch = "x86_64" => Position(docs, c) = 1
ManifestAccepted(r) ==
  LET c == contract(r)
  IN  /\ docs[c.manifest].kind = "manifest" /\ docs[c.manifest].layers # <<>>
      /\ Needs(docs, c.manifest) \cap {c.parent, c.manifest} = {}

(* The config and then the layers, each once. *)
Left(r, got) ==
  LET m == docs[contract(r).manifest]
  IN  SelectSeq(<<m.config>> \o m.layers, LAMBDA d : d \notin got)

Body(r) ==
  /\ At(r, "body")
  /\ LET got == run[r].have \cup {run[r].want}
         fetch(phase, d) == run' = [run EXCEPT ![r] = [Fetching(r, phase, d) EXCEPT !.have = got]]
     IN  \/ /\ run[r].phase = "parent" /\ ParentAccepted(r)
            /\ fetch("manifest", contract(r).manifest)
            /\ UNCHANGED <<staging, faults>>
         \/ /\ \/ run[r].phase = "manifest" /\ ManifestAccepted(r)
               \/ run[r].phase = "blobs"
            /\ \/ Left(r, got) # <<>> /\ fetch("blobs", Head(Left(r, got)))
               \/ /\ Left(r, got) = <<>>
                  /\ run' = [run EXCEPT ![r].have = got, ![r].pc = "assemble"]
            /\ UNCHANGED <<staging, faults>>
         \/ /\ \/ run[r].phase = "parent" /\ ~ParentAccepted(r)
               \/ run[r].phase = "manifest" /\ ~ManifestAccepted(r)
            /\ Fail(r) /\ UNCHANGED faults
         \/ Faulty /\ Fail(r)              \* another body, a short one, or an error
  /\ UNCHANGED <<world, files, foreign, cut>>

(* _write_archive: the index leads to the parent on x86_64 and straight to the   *)
(* selected manifest on aarch64.                                                 *)
Written(r) ==
  [root |-> IF world.arch = "x86_64" THEN contract(r).parent ELSE contract(r).manifest,
   annotated |-> world.arch = "x86_64",
   platform |-> IF world.arch = "x86_64" THEN NoPlatform ELSE contract(r).platform,
   blobs |-> [d \in run[r].have |-> d]]

Assemble(r) ==
  /\ At(r, "assemble")
  /\ LET c == contract(r)
         config == docs[docs[c.manifest].config]
         good == /\ config.kind = "config" /\ config.platform = c.platform
                 /\ verify_archive(docs, c, Written(r), "offline")
         next == [run[r] EXCEPT !.archives = Append(run[r].archives, Written(r)), !.have = {}]
     IN  \/ ~good /\ Fail(r)
         \/ /\ good /\ UNCHANGED staging
            /\ run' = [run EXCEPT ![r] =
                 IF run[r].at < Len(Image)
                 THEN [next EXCEPT !.at = run[r].at + 1, !.pc = "open", !.phase = "parent",
                                   !.want = world.contracts[run[r].at + 1].parent]
                 ELSE [next EXCEPT !.at = 1, !.pc = "move"]]
  /\ UNCHANGED <<world, files, faults, foreign, cut>>

Move_returns_early(r) ==          \* mutant: the return is inside the loop
  /\ At(r, "move")
  /\ files' = [files EXCEPT ![run[r].at] = run[r].archives[run[r].at]]
  /\ Goto(r, "sync")
  /\ UNCHANGED <<world, staging, faults, foreign, cut>>

(* os.replace, one image after the other; then the directory is synced. *)
Move(r) ==
  /\ At(r, "move")
  /\ LET i == run[r].at
     IN  \/ /\ files' = [files EXCEPT ![i] = run[r].archives[i]]
            /\ run' = [run EXCEPT ![r].at = IF i < Len(Image) THEN i + 1 ELSE 1,
                                  ![r].pc = IF i < Len(Image) THEN "move" ELSE "sync"]
            /\ UNCHANGED <<staging, faults, cut>>
         \/ /\ Faulty /\ Fail(r)
            /\ cut' = (cut \/ i > 1)
            /\ UNCHANGED files
  /\ UNCHANGED <<world, foreign>>

Sync(r) ==
  /\ At(r, "sync")
  /\ \/ Goto(r, "done") /\ staging' = staging \ {r} /\ UNCHANGED faults
     \/ Faulty /\ Fail(r)
  /\ UNCHANGED <<world, files, foreign, cut>>

-----------------------------------------------------------------------------
Kill(r) ==
  /\ run[r].pc \notin Over /\ Faulty
  /\ Goto(r, "killed")
  /\ cut' = (cut \/ (At(r, "move") /\ run[r].at > 1))
  /\ UNCHANGED <<world, files, staging, foreign>>

(* Somebody else writes or removes a file of the output directory. *)
Meddle ==
  /\ foreign < MaxForeign
  /\ foreign' = foreign + 1
  /\ \E i \in DOMAIN files : files' = [files EXCEPT ![i] = IF files[i] = NoFile THEN Foreign ELSE NoFile]
  /\ UNCHANGED <<world, staging, run, faults, cut>>

Advance(r) == \/ Check(r) \/ Open(r) \/ FetchToken(r) \/ Reopen(r) \/ Body(r)
              \/ Assemble(r) \/ Move(r) \/ Sync(r)

Next == \/ \E r \in Run : Advance(r) \/ Expire(r) \/ Kill(r)
        \/ Meddle

Spec == Init /\ [][Next]_vars /\ \A r \in Run : WF_vars(Advance(r))

-----------------------------------------------------------------------------
(* Whatever the registries answered and whoever was killed, a file this program   *)
(* has put in the output directory is the archive the metadata tracks, to the     *)
(* byte: nothing half-written, and nothing of a document that drifted (verify at  *)
(* the end of _acquire_image, os.replace from the staging directory).             *)
PublishedIsTracked ==
  \A i \in DOMAIN files : files[i] \notin {NoFile, Foreign} => files[i] = world.contracts[i].archive

(* The archives of an acquisition are published together: one stands without the  *)
(* others only while a run is moving them, or because a run was stopped between    *)
(* two moves, or because somebody else touched the directory.                     *)
WholeUnlessCut ==
  \/ \A i, j \in DOMAIN files : files[i] = NoFile <=> files[j] = NoFile
  \/ \E r \in Run : At(r, "move") /\ run[r].at > 1
  \/ cut \/ foreign > 0

(* What an archive can be that reaches verify_archive: any root, any blobs of the *)
(* image, each of them right or wrong.                                            *)
Offered(documents) ==
  {[root |-> root, annotated |-> annotated, platform |-> NoPlatform,
    blobs |-> [d \in present |-> IF d \in wrong THEN "garbage" ELSE d]] :
      root \in {d \in documents : docs[d].kind \in {"index", "manifest"}},
      annotated \in BOOLEAN, present \in SUBSET documents, wrong \in SUBSET documents}

(* An archive admitted for a tracked image, registry-made ones included, makes    *)
(* SDME import the one manifest the pinned index selects, with every blob what     *)
(* its digest says and none besides (_inspect_archive).                           *)
AdmittedIsPinned ==
  \A i \in DOMAIN files :
    LET c == world.contracts[i]
    IN  (\A r \in Run : At(r, "start")) /\ Tracked(c) =>
          \A a \in Offered(world.documents[i]) :
            verify_archive(docs, c, a, "registry") => Pinned(docs, c, a)
=============================================================================
