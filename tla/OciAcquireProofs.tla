--------------------------- MODULE OciAcquireProofs ---------------------------
(* Theorems about OciAcquire, for any images, documents and registries, and any  *)
(* number of runs, faults and foreign acts.                                      *)
EXTENDS OciAcquire, FiniteSetTheorems, TLAPS

-----------------------------------------------------------------------------
(* The validator. *)
LEMMA PositionMatches ==
  ASSUME NEW documents, NEW c, Selectable(documents, c)
  PROVE  Position(documents, c) \in Matching(documents, c)
<1>1. Matching(documents, c) # {}  BY FS_EmptySet DEF Selectable
<1>. QED  BY <1>1 DEF Position

(* The child of the parent at the selected position. *)
LEMMA SelectedChild ==
  ASSUME NEW documents, NEW c, WellFormed(documents, c), Tracked(c),
         c.parent \in DOMAIN documents, Selectable(documents, c)
  PROVE  LET i == Position(documents, c)
         IN  /\ i \in DOMAIN documents[c.parent].children
             /\ documents[c.parent].children[i] =
                  [digest |-> Selected(documents, c), platform |-> c.platform]
<1>. DEFINE i == Position(documents, c)
            child == documents[c.parent].children[i]
<1>1. i \in DOMAIN documents[c.parent].children /\ States(c, child.platform)
  BY PositionMatches DEF Matching
<1>2. /\ child = [digest |-> child.digest, platform |-> child.platform]
      /\ child.platform = NoPlatform \/ IsPair(child.platform)
  BY <1>1 DEF WellFormed, Selectable
<1>3. child.platform = c.platform
  BY <1>1, <1>2 DEF States, IsPair, WellFormed
<1>. QED  BY <1>1, <1>2, <1>3 DEF Selected

LEMMA AdmittedMeansPinned ==
  ASSUME NEW documents, NEW c, NEW a, WellFormed(documents, c), Tracked(c),
         c.parent \in DOMAIN documents, DOMAIN a.blobs \subseteq DOMAIN documents,
         Inspected(documents, c, a)
  PROVE  Pinned(documents, c, a)
<1>. DEFINE m == Chosen(documents, c, a)
<1>1. Selectable(documents, c) /\ Verified(a, c.parent)
  BY DEF Inspected, FromParent, Direct
<1>2. m = Selected(documents, c)
  BY DEF Inspected, FromParent, Direct, Chosen
<1>3. /\ documents[m].kind = "manifest" /\ m = c.manifest
      /\ \A d \in {m} \cup Needs(documents, m) : Verified(a, d)
      /\ documents[documents[m].config].kind = "config"
      /\ States(c, documents[documents[m].config].platform)
      /\ DOMAIN a.blobs = {m} \cup Needs(documents, m) \cup ({c.parent} \cap DOMAIN a.blobs)
  BY DEF Inspected, Closed
<1>4. Imports(documents, a) = m
  <2>1. CASE a.root = c.parent
    BY <2>1, <1>1, <1>2 DEF Inspected, FromParent, Direct, Imports, Selectable, Selected
  <2>2. CASE a.root # c.parent
    BY <2>2, <1>3 DEF Chosen, Imports
  <2>. QED  BY <2>1, <2>2
<1>5. \E i \in DOMAIN documents[c.parent].children :
         documents[c.parent].children[i] = [digest |-> m, platform |-> c.platform]
  BY <1>1, <1>2, SelectedChild
<1>6. documents[documents[m].config].platform = c.platform
  <2>1. documents[m].config \in DOMAIN documents
    BY <1>3 DEF Needs, Verified
  <2>. QED  BY <2>1, <1>3 DEF WellFormed, States, IsPair
<1>7. \A d \in DOMAIN a.blobs : a.blobs[d] = d /\ d \in {m, c.parent} \cup Needs(documents, m)
  BY <1>1, <1>3 DEF Verified
<1>8. \A d \in {m} \cup Needs(documents, m) : d \in DOMAIN a.blobs
  BY <1>3 DEF Verified
<1>. QED  BY <1>3, <1>4, <1>5, <1>6, <1>7, <1>8 DEF Pinned

-----------------------------------------------------------------------------
(* The runs.  While a run acquires image `at`, it holds the tracked archives of   *)
(* the images before it; while it moves them, it holds all of them and has put   *)
(* those before `at` in place, where they stay unless somebody else acts.        *)
N == Len(Image)
Archive(i) == world.contracts[i].archive
Acquiring == {"open", "token", "reopen", "body", "assemble"}

IsProcess(p) ==
  p = [pc |-> p.pc, at |-> p.at, phase |-> p.phase, want |-> p.want, have |-> p.have,
       tokens |-> p.tokens, archives |-> p.archives]
ProcessType ==
  \A r \in Run :
    /\ IsProcess(run[r])
    /\ run[r].at \in 1 .. N
    /\ run[r].archives \in Seq({Archive(i) : i \in 1 .. N})

Holding ==
  \A r \in Run :
    /\ run[r].pc = "start" => run[r].at = 1 /\ run[r].archives = <<>>
    /\ run[r].pc \in Acquiring => Len(run[r].archives) = run[r].at - 1
    /\ run[r].pc = "move" => Len(run[r].archives) = N
    /\ \A j \in DOMAIN run[r].archives : run[r].archives[j] = Archive(j)

InPlace ==
  \A r \in Run : At(r, "move") => \A j \in 1 .. N : j < run[r].at => files[j] # NoFile

OInv ==
  /\ world \in Worlds
  /\ run = [r \in Run |-> run[r]] /\ files = [i \in 1 .. N |-> files[i]]
  /\ foreign \in Nat
  /\ ProcessType /\ Holding
  /\ PublishedIsTracked
  /\ cut \/ foreign > 0 \/ (InPlace /\ WholeUnlessCut)

LEMMA ArchiveIsAFile ==
  ASSUME OInv, NEW i \in 1 .. N
  PROVE  Archive(i) \notin {NoFile, Foreign} /\ WellFormed(world.docs, world.contracts[i])
BY OciAssumption DEF OInv, N, Archive, WellFormed

LEMMA OInvInit == Init => OInv
<1>. SUFFICES ASSUME Init PROVE OInv  OBVIOUS
<1>0. N \in Nat \ {0}  BY OciAssumption DEF N
<1>1. /\ run = [r \in Run |-> run[r]] /\ files = [i \in 1 .. N |-> files[i]] /\ foreign \in Nat
      /\ world \in Worlds
  BY DEF Init, N
<1>2. ProcessType
  <2>1. ASSUME NEW r \in Run PROVE run[r] = Process  BY DEF Init
  <2>2. 1 \in 1 .. N  BY <1>0
  <2>3. <<>> \in Seq({Archive(i) : i \in 1 .. N})  OBVIOUS
  <2>4. ASSUME NEW r \in Run
        PROVE  /\ IsProcess(run[r])
               /\ run[r].at = 1 /\ run[r].archives = <<>>
    BY <2>1 DEF Process, IsProcess
  <2>. QED  BY <2>2, <2>3, <2>4 DEF ProcessType
<1>5. Holding
  <2>1. ASSUME NEW r \in Run PROVE run[r] = Process  BY DEF Init
  <2>. QED  BY <2>1 DEF Process, Holding, Acquiring
<1>3. PublishedIsTracked  BY DEF Init, PublishedIsTracked
<1>4. InPlace /\ WholeUnlessCut
  BY DEF Init, Process, InPlace, WholeUnlessCut, At
<1>. QED  BY <1>1, <1>2, <1>3, <1>4, <1>5 DEF OInv

(* A step in which one run goes on and no file changes. *)
LEMMA QuietStep ==
  ASSUME OInv, NEW r \in Run,
         UNCHANGED <<world, files, foreign>>,
         run' = [run EXCEPT ![r] = run'[r]],
         IsProcess(run'[r]),
         run'[r].at \in 1 .. N,
         run'[r].archives \in Seq({Archive(i) : i \in 1 .. N}),
         \A j \in DOMAIN run'[r].archives : run'[r].archives[j] = Archive(j),
         run'[r].pc # "start",
         run'[r].pc \in Acquiring => Len(run'[r].archives) = run'[r].at - 1,
         run'[r].pc = "move" => Len(run'[r].archives) = N /\ run'[r].at = 1,
         cut => cut',
         run[r].pc = "move" /\ run[r].at > 1 => cut'
  PROVE  OInv'
<1>1. \A q \in Run : q # r => run'[q] = run[q]  BY DEF OInv
<1>2. world' \in Worlds /\ files' = [i \in 1 .. N |-> files'[i]] /\ foreign' \in Nat
      /\ run' = [q \in Run |-> run'[q]]
  BY DEF OInv
<1>3. ProcessType'  BY <1>1 DEF OInv, ProcessType, Archive
<1>4. Holding'  BY <1>1 DEF OInv, Holding, Archive
<1>5. PublishedIsTracked'  BY DEF OInv, PublishedIsTracked
<1>6. ASSUME ~cut', ~(foreign' > 0) PROVE InPlace' /\ WholeUnlessCut'
  <2>1. InPlace /\ WholeUnlessCut /\ ~cut /\ ~(foreign > 0)  BY <1>6 DEF OInv
  <2>2. InPlace'  BY <1>1, <2>1 DEF InPlace, At
  <2>3. WholeUnlessCut'  BY <1>1, <1>6, <2>1 DEF WholeUnlessCut, At
  <2>. QED  BY <2>2, <2>3
<1>. QED  BY <1>2, <1>3, <1>4, <1>5, <1>6 DEF OInv

(* What the invariant says of one run. *)
LEMMA OneRun ==
  ASSUME OInv, NEW r \in Run
  PROVE  /\ IsProcess(run[r])
         /\ run = [q \in Run |-> run[q]]
         /\ run[r].at \in 1 .. N /\ N \in Nat \ {0}
         /\ run[r].archives \in Seq({Archive(i) : i \in 1 .. N})
         /\ run[r].pc = "start" => run[r].at = 1 /\ run[r].archives = <<>>
         /\ run[r].pc \in Acquiring => Len(run[r].archives) = run[r].at - 1
         /\ run[r].pc = "move" => Len(run[r].archives) = N
         /\ \A j \in DOMAIN run[r].archives : run[r].archives[j] = Archive(j)
BY OciAssumption DEF OInv, ProcessType, Holding, N

(* A run that only changes place, phase, documents or tokens.                    *)
LEMMA PlaceStep ==
  ASSUME OInv, NEW r \in Run,
         UNCHANGED <<world, files, foreign>>,
         NEW pc, NEW phase, NEW want, NEW have, NEW tokens,
         run' = [run EXCEPT ![r] = run'[r]],
         run'[r] = [pc |-> pc, at |-> run[r].at, phase |-> phase, want |-> want, have |-> have,
                    tokens |-> tokens, archives |-> run[r].archives],
         pc \notin {"start", "move"},
         pc \in Acquiring => run[r].pc \in Acquiring \cup {"start"},
         cut => cut',
         run[r].pc = "move" /\ run[r].at > 1 => cut'
  PROVE  OInv'
<1>1. run'[r].pc \in Acquiring => Len(run'[r].archives) = run'[r].at - 1
  <2>1. run[r].pc = "start" => Len(run[r].archives) = run[r].at - 1
    <3>1. Len(<<>>) = 1 - 1  OBVIOUS
    <3>. QED  BY <3>1, OneRun
  <2>2. run'[r].pc = pc /\ run'[r].archives = run[r].archives /\ run'[r].at = run[r].at
    OBVIOUS
  <2>3. run[r].pc \in Acquiring => Len(run[r].archives) = run[r].at - 1  BY OneRun
  <2>. QED  BY <2>1, <2>2, <2>3
<1>2. /\ run'[r].at = run[r].at /\ run'[r].archives = run[r].archives /\ run'[r].pc = pc
      /\ run'[r].phase = phase /\ run'[r].want = want /\ run'[r].have = have
      /\ run'[r].tokens = tokens
  OBVIOUS
<1>3. IsProcess(run'[r])  BY DEF IsProcess
<1>4. /\ run'[r].at \in 1 .. N /\ run'[r].archives \in Seq({Archive(i) : i \in 1 .. N})
      /\ \A j \in DOMAIN run'[r].archives : run'[r].archives[j] = Archive(j)
  BY <1>2, OneRun
<1>5. run'[r].pc # "start" /\ run'[r].pc # "move"  BY <1>2
<1>. QED  BY <1>1, <1>3, <1>4, <1>5, QuietStep

LEMMA FailStep ==
  ASSUME OInv, NEW r \in Run, Fail(r) \/ Goto(r, "killed"), UNCHANGED <<world, files, foreign>>,
         cut => cut', run[r].pc = "move" /\ run[r].at > 1 => cut'
  PROVE  OInv'
<1>1. PICK pc \in {"failed", "killed"} : run' = [run EXCEPT ![r].pc = pc]
  BY DEF Fail, Goto
<1>2. IsProcess(run[r]) /\ run = [q \in Run |-> run[q]]  BY OneRun
<1>3. run'[r] = [pc |-> pc, at |-> run[r].at, phase |-> run[r].phase,
                    want |-> run[r].want, have |-> run[r].have,
                    tokens |-> run[r].tokens, archives |-> run[r].archives]
  BY <1>1, <1>2 DEF IsProcess
<1>4. run' = [run EXCEPT ![r] = run'[r]]
  BY <1>1, <1>2
<1>. QED  BY <1>3, <1>4, PlaceStep DEF Acquiring

LEMMA CheckStep == ASSUME OInv, NEW r \in Run, Check(r) PROVE OInv'
<1>1. CASE Fail(r)  BY <1>1, FailStep DEF Check, At
<1>2. CASE run' = [run EXCEPT ![r] = Fetching(r, "parent", contract(r).parent)]
  <2>1. IsProcess(run[r]) /\ run = [q \in Run |-> run[q]]  BY OneRun
  <2>2. run'[r] = [pc |-> "open", at |-> run[r].at, phase |-> "parent",
                      want |-> contract(r).parent, have |-> run[r].have,
                      tokens |-> run[r].tokens, archives |-> run[r].archives]
    BY <1>2, <2>1 DEF IsProcess, Fetching
  <2>3. run' = [run EXCEPT ![r] = run'[r]]
    BY <1>2, <2>1 DEF Fetching
  <2>. QED  BY <2>2, <2>3, PlaceStep DEF Check, At, Acquiring
<1>. QED  BY <1>1, <1>2 DEF Check

LEMMA OpenStep == ASSUME OInv, NEW r \in Run, Open(r) PROVE OInv'
<1>1. PICK pc \in {"body", "token"} : run' = [run EXCEPT ![r].pc = pc]
  BY DEF Open, Goto
<1>2. IsProcess(run[r]) /\ run = [q \in Run |-> run[q]]  BY OneRun
<1>3. run'[r] = [pc |-> pc, at |-> run[r].at, phase |-> run[r].phase,
                    want |-> run[r].want, have |-> run[r].have,
                    tokens |-> run[r].tokens, archives |-> run[r].archives]
  BY <1>1, <1>2 DEF IsProcess
<1>4. run' = [run EXCEPT ![r] = run'[r]]
  BY <1>1, <1>2
<1>. QED  BY <1>3, <1>4, PlaceStep DEF Open, At, Acquiring

LEMMA FetchTokenStep == ASSUME OInv, NEW r \in Run, FetchToken(r) PROVE OInv'
<1>1. CASE Fail(r)  BY <1>1, FailStep DEF FetchToken, At
<1>2. CASE run' = [run EXCEPT ![r].tokens = run[r].tokens \cup {run[r].at}, ![r].pc = "reopen"]
  <2>. DEFINE tokens == run[r].tokens \cup {run[r].at}
  <2>1. IsProcess(run[r]) /\ run = [q \in Run |-> run[q]]  BY OneRun
  <2>2. run'[r] = [pc |-> "reopen", at |-> run[r].at, phase |-> run[r].phase,
                      want |-> run[r].want, have |-> run[r].have,
                      tokens |-> tokens, archives |-> run[r].archives]
    BY <1>2, <2>1 DEF IsProcess
  <2>3. run' = [run EXCEPT ![r] = run'[r]]
    BY <1>2, <2>1
  <2>. QED  BY <2>2, <2>3, PlaceStep DEF FetchToken, At, Acquiring
<1>. QED  BY <1>1, <1>2 DEF FetchToken

LEMMA ReopenStep == ASSUME OInv, NEW r \in Run, Reopen(r) PROVE OInv'
<1>1. CASE Fail(r)  BY <1>1, FailStep DEF Reopen, At
<1>2. CASE Goto(r, "body")
  <2>1. IsProcess(run[r]) /\ run = [q \in Run |-> run[q]]  BY OneRun
  <2>2. run'[r] = [pc |-> "body", at |-> run[r].at, phase |-> run[r].phase,
                      want |-> run[r].want, have |-> run[r].have,
                      tokens |-> run[r].tokens, archives |-> run[r].archives]
    BY <1>2, <2>1 DEF IsProcess, Goto
  <2>3. run' = [run EXCEPT ![r] = run'[r]]
    BY <1>2, <2>1 DEF Goto
  <2>. QED  BY <2>2, <2>3, PlaceStep DEF Reopen, At, Acquiring
<1>. QED  BY <1>1, <1>2 DEF Reopen

LEMMA BodyStep == ASSUME OInv, NEW r \in Run, Body(r) PROVE OInv'
<1>. DEFINE got == run[r].have \cup {run[r].want}
<1>1. CASE Fail(r)  BY <1>1, FailStep DEF Body, At
<1>2. ASSUME NEW phase, NEW d,
             run' = [run EXCEPT ![r] = [Fetching(r, phase, d) EXCEPT !.have = got]]
      PROVE  OInv'
  <2>1. IsProcess(run[r]) /\ run = [q \in Run |-> run[q]]  BY OneRun
  <2>2. run'[r] = [pc |-> "open", at |-> run[r].at, phase |-> phase,
                      want |-> d, have |-> got,
                      tokens |-> run[r].tokens, archives |-> run[r].archives]
    BY <1>2, <2>1 DEF IsProcess, Fetching
  <2>3. run' = [run EXCEPT ![r] = run'[r]]
    BY <1>2, <2>1 DEF Fetching
  <2>. QED  BY <2>2, <2>3, PlaceStep DEF Body, At, Acquiring
<1>3. CASE run' = [run EXCEPT ![r].have = got, ![r].pc = "assemble"]
  <2>1. IsProcess(run[r]) /\ run = [q \in Run |-> run[q]]  BY OneRun
  <2>2. run'[r] = [pc |-> "assemble", at |-> run[r].at, phase |-> run[r].phase,
                      want |-> run[r].want, have |-> got,
                      tokens |-> run[r].tokens, archives |-> run[r].archives]
    BY <1>3, <2>1 DEF IsProcess
  <2>3. run' = [run EXCEPT ![r] = run'[r]]
    BY <1>3, <2>1
  <2>. QED  BY <2>2, <2>3, PlaceStep DEF Body, At, Acquiring
<1>4. \/ Fail(r)
      \/ \E phase, d : run' = [run EXCEPT ![r] = [Fetching(r, phase, d) EXCEPT !.have = got]]
      \/ run' = [run EXCEPT ![r].have = got, ![r].pc = "assemble"]
  BY DEF Body
<1>. QED  BY <1>1, <1>2, <1>3, <1>4

(* The registry forgets a token: nothing the invariant speaks of changes. *)
LEMMA ExpireStep == ASSUME OInv, NEW r \in Run, Expire(r) PROVE OInv'
<1>. DEFINE tokens == run[r].tokens \ {run[r].at}
<1>0. IsProcess(run[r]) /\ run = [q \in Run |-> run[q]]  BY OneRun
<1>1. run'[r] = [pc |-> run[r].pc, at |-> run[r].at, phase |-> run[r].phase,
                 want |-> run[r].want, have |-> run[r].have, tokens |-> tokens,
                 archives |-> run[r].archives]
  BY <1>0 DEF IsProcess, Expire
<1>. HIDE DEF tokens
<1>2. \A q \in Run : q # r => run'[q] = run[q]  BY DEF OInv, Expire
<1>3. \A q \in Run : run'[q].pc = run[q].pc /\ run'[q].at = run[q].at
                     /\ run'[q].archives = run[q].archives
  BY <1>1, <1>2
<1>4. UNCHANGED <<world, files, foreign, cut>>  BY DEF Expire
<1>5. run' = [q \in Run |-> run'[q]]  BY DEF OInv, Expire
<1>6. ProcessType'
  <2>1. ASSUME NEW q \in Run, q # r
        PROVE  IsProcess(run'[q])
    BY <1>2, <2>1, OneRun
  <2>2. IsProcess(run'[r])  BY <1>1 DEF IsProcess
  <2>3. \A q \in Run : /\ run'[q].at \in 1 .. N
                       /\ run'[q].archives \in Seq({Archive(i)' : i \in 1 .. N})
    BY <1>3, <1>4 DEF OInv, ProcessType, Archive
  <2>. QED  BY <2>1, <2>2, <2>3 DEF ProcessType
<1>7. Holding'  BY <1>3, <1>4 DEF OInv, Holding, Archive
<1>8. PublishedIsTracked'  BY <1>4 DEF OInv, PublishedIsTracked
<1>9. InPlace => InPlace'  BY <1>3, <1>4 DEF InPlace, At
<1>10. WholeUnlessCut => WholeUnlessCut'  BY <1>3, <1>4 DEF WholeUnlessCut, At
<1>. QED  BY <1>4, <1>5, <1>6, <1>7, <1>8, <1>9, <1>10 DEF OInv

(* The archive assembled for an image is the tracked one, or the run fails. *)
LEMMA AssembleStep == ASSUME OInv, NEW r \in Run, Assemble(r) PROVE OInv'
<1>. DEFINE next == [run[r] EXCEPT !.archives = Append(run[r].archives, Written(r)), !.have = {}]
            at == run[r].at
            held == Append(run[r].archives, Archive(at))
<1>1. CASE Fail(r)  BY <1>1, FailStep DEF Assemble, At
<1>2. CASE /\ verify_archive(docs, contract(r), Written(r), "offline")
           /\ run' = [run EXCEPT ![r] =
                IF run[r].at < Len(Image)
                THEN [next EXCEPT !.at = run[r].at + 1, !.pc = "open", !.phase = "parent",
                                  !.want = world.contracts[run[r].at + 1].parent]
                ELSE [next EXCEPT !.at = 1, !.pc = "move"]]
  <2>1. /\ IsProcess(run[r]) /\ run = [q \in Run |-> run[q]]
        /\ at \in 1 .. N /\ N \in Nat \ {0}
        /\ run[r].archives \in Seq({Archive(i) : i \in 1 .. N})
        /\ \A j \in DOMAIN run[r].archives : run[r].archives[j] = Archive(j)
    BY OneRun
  <2>2. Len(run[r].archives) = at - 1 /\ run[r].pc = "assemble"
    BY OneRun DEF Assemble, At, Acquiring
  <2>3. Written(r) = Archive(at)
    BY <1>2 DEF verify_archive, Archive, contract
  <2>4. /\ held \in Seq({Archive(i) : i \in 1 .. N}) /\ Len(held) = at
        /\ \A j \in DOMAIN held : held[j] = Archive(j)
    BY <2>1, <2>2
  <2>5. run' = [run EXCEPT ![r] = run'[r]]  BY <1>2, <2>1
  <2>6. next = [pc |-> run[r].pc, at |-> at, phase |-> run[r].phase, want |-> run[r].want,
                have |-> {}, tokens |-> run[r].tokens, archives |-> held]
    <3>. HIDE DEF held
    <3>1. next = [run[r] EXCEPT !.archives = held, !.have = {}]  BY <2>3 DEF held
    <3>. HIDE DEF next
    <3>. QED  BY <2>1, <3>1 DEF IsProcess
  <2>. HIDE DEF next
  <2>7. CASE at < N
    <3>1. run'[r] = [next EXCEPT !.at = at + 1, !.pc = "open", !.phase = "parent",
                                 !.want = world.contracts[at + 1].parent]
      BY <1>2, <2>1, <2>7 DEF N
    <3>2. /\ IsProcess(run'[r]) /\ run'[r].pc = "open" /\ run'[r].at = at + 1
          /\ run'[r].archives = held
      BY <2>6, <3>1 DEF IsProcess
    <3>3. run'[r].at \in 1 .. N /\ Len(run'[r].archives) = run'[r].at - 1
      BY <2>1, <2>4, <2>7, <3>2
    <3>. QED  BY <2>2, <2>4, <2>5, <3>2, <3>3, QuietStep DEF Assemble
  <2>8. CASE ~(at < N)
    <3>1. run'[r] = [next EXCEPT !.at = 1, !.pc = "move"]
      BY <1>2, <2>1, <2>8 DEF N
    <3>2. /\ IsProcess(run'[r]) /\ run'[r].pc = "move" /\ run'[r].at = 1
          /\ run'[r].archives = held
      BY <2>6, <3>1 DEF IsProcess
    <3>3. 1 \in 1 .. N /\ Len(run'[r].archives) = N  BY <2>1, <2>4, <2>8, <3>2
    <3>. QED  BY <2>2, <2>4, <2>5, <3>2, <3>3, QuietStep DEF Assemble, Acquiring
  <2>. QED  BY <2>7, <2>8
<1>. QED  BY <1>1, <1>2 DEF Assemble

LEMMA SyncStep == ASSUME OInv, NEW r \in Run, Sync(r) PROVE OInv'
<1>1. CASE Fail(r)  BY <1>1, FailStep DEF Sync, At
<1>2. CASE Goto(r, "done")
  <2>1. IsProcess(run[r]) /\ run = [q \in Run |-> run[q]]  BY OneRun
  <2>2. run'[r] = [pc |-> "done", at |-> run[r].at, phase |-> run[r].phase,
                   want |-> run[r].want, have |-> run[r].have,
                   tokens |-> run[r].tokens, archives |-> run[r].archives]
    BY <1>2, <2>1 DEF IsProcess, Goto
  <2>3. run' = [run EXCEPT ![r] = run'[r]]  BY <1>2, <2>1 DEF Goto
  <2>. QED  BY <2>2, <2>3, PlaceStep DEF Sync, At, Acquiring
<1>. QED  BY <1>1, <1>2 DEF Sync

LEMMA KillStep == ASSUME OInv, NEW r \in Run, Kill(r) PROVE OInv'
BY FailStep DEF Kill, At

(* Somebody else changes a file: the claim about whole acquisitions is given up. *)
LEMMA MeddleStep == ASSUME OInv, Meddle PROVE OInv'
<1>1. foreign' \in Nat /\ foreign' > 0  BY DEF OInv, Meddle
<1>2. UNCHANGED <<world, run>>  BY DEF Meddle
<1>3. files' = [i \in 1 .. N |-> files'[i]]  BY DEF OInv, Meddle
<1>4. PublishedIsTracked'  BY DEF OInv, Meddle, PublishedIsTracked
<1>5. ProcessType' /\ Holding'
  BY <1>2 DEF OInv, ProcessType, Holding, Archive
<1>. QED  BY <1>1, <1>2, <1>3, <1>4, <1>5 DEF OInv

(* One archive is put in its place; after the last all of them are there. *)
LEMMA MoveStep == ASSUME OInv, NEW r \in Run, Move(r) PROVE OInv'
<1>. DEFINE i == run[r].at
<1>1. CASE Fail(r) /\ cut' = (cut \/ i > 1) /\ UNCHANGED files
  BY <1>1, FailStep, OneRun DEF Move, At
<1>2. CASE /\ files' = [files EXCEPT ![i] = run[r].archives[i]]
           /\ run' = [run EXCEPT ![r].at = IF i < Len(Image) THEN i + 1 ELSE 1,
                                 ![r].pc = IF i < Len(Image) THEN "move" ELSE "sync"]
           /\ UNCHANGED cut
  <2>. DEFINE at == IF i < N THEN i + 1 ELSE 1
              pc == IF i < N THEN "move" ELSE "sync"
  <2>1. /\ IsProcess(run[r]) /\ run = [q \in Run |-> run[q]]
        /\ i \in 1 .. N /\ N \in Nat \ {0} /\ Len(run[r].archives) = N
        /\ run[r].archives \in Seq({Archive(j) : j \in 1 .. N})
        /\ \A j \in DOMAIN run[r].archives : run[r].archives[j] = Archive(j)
    BY OneRun DEF Move, At
  <2>2. UNCHANGED <<world, foreign>> /\ At(r, "move")  BY DEF Move
  <2>3. run'[r] = [run[r] EXCEPT !.at = at, !.pc = pc]  BY <1>2, <2>1 DEF N
  <2>4. at \in 1 .. N  BY <2>1
  <2>5. \A q \in Run : q # r => run'[q] = run[q]  BY <1>2, <2>1
  <2>6. run' = [q \in Run |-> run'[q]]  BY <1>2, <2>1
  <2>. HIDE DEF at, pc
  <2>7. /\ IsProcess(run'[r]) /\ run'[r].at = at /\ run'[r].pc = pc
        /\ run'[r].archives = run[r].archives
    BY <2>1, <2>3 DEF IsProcess
  <2>8. ProcessType'
    BY <2>2, <2>4, <2>5, <2>7 DEF OInv, ProcessType, Archive
  <2>9. Holding'
    <3>1. pc \in {"move", "sync"}  BY DEF pc
    <3>. QED  BY <2>1, <2>2, <2>5, <2>7, <3>1 DEF OInv, Holding, Archive, Acquiring
  <2>10. files = [j \in 1 .. N |-> files[j]]  BY DEF OInv
  <2>11. /\ files' = [j \in 1 .. N |-> files'[j]]
         /\ files'[i] = Archive(i) /\ \A j \in 1 .. N : j # i => files'[j] = files[j]
    <3>1. run[r].archives[i] = Archive(i)  BY <2>1
    <3>. QED  BY <1>2, <2>1, <2>10, <3>1
  <2>12. PublishedIsTracked'
    <3>1. Archive(i) = world.contracts[i].archive  BY DEF Archive
    <3>2. DOMAIN files' = 1 .. N /\ DOMAIN files = 1 .. N  BY <2>10, <2>11
    <3>. QED  BY <2>2, <2>11, <3>1, <3>2 DEF OInv, PublishedIsTracked
  <2>13. \A j \in 1 .. N : j = i \/ files[j] # NoFile => files'[j] # NoFile
    BY <2>1, <2>11, ArchiveIsAFile
  <2>14. ASSUME InPlace, WholeUnlessCut PROVE InPlace' /\ WholeUnlessCut'
    <3>1. ASSUME NEW q \in Run, run'[q].pc = "move", NEW j \in 1 .. N, j < run'[q].at
          PROVE  files'[j] # NoFile
      <4>1. CASE q # r  BY <2>5, <2>13, <2>14, <3>1, <4>1 DEF InPlace, At
      <4>2. CASE q = r
        <5>1. j < i \/ j = i  BY <2>1, <2>7, <3>1, <4>2 DEF at
        <5>. QED  BY <2>2, <2>13, <2>14, <5>1 DEF InPlace, At
      <4>. QED  BY <4>1, <4>2
    <3>2. InPlace'  BY <3>1 DEF InPlace, At
    <3>3. CASE i < N
      <4>1. run'[r].pc = "move" /\ run'[r].at > 1  BY <2>1, <2>7, <3>3 DEF at, pc
      <4>. QED  BY <3>2, <4>1 DEF WholeUnlessCut, At
    <3>4. CASE ~(i < N)
      <4>1. \A j \in 1 .. N : j < i \/ j = i  BY <2>1, <3>4
      <4>2. \A j \in 1 .. N : files'[j] # NoFile
        BY <2>2, <2>13, <2>14, <4>1 DEF InPlace, At
      <4>3. DOMAIN files' = 1 .. N  BY <2>11
      <4>. QED  BY <3>2, <4>2, <4>3 DEF WholeUnlessCut
    <3>. QED  BY <3>3, <3>4
  <2>. QED
    BY <1>2, <2>2, <2>6, <2>8, <2>9, <2>11, <2>12, <2>14 DEF OInv
<1>. QED  BY <1>1, <1>2 DEF Move

LEMMA OInvNext == OInv /\ [Next]_vars => OInv'
<1>. SUFFICES ASSUME OInv, [Next]_vars PROVE OInv'  OBVIOUS
<1>1. CASE UNCHANGED vars
  BY <1>1 DEF vars, OInv, ProcessType, Holding, InPlace, PublishedIsTracked, WholeUnlessCut,
              At, Archive
<1>2. CASE Meddle  BY <1>2, MeddleStep
<1>3. ASSUME NEW r \in Run, Advance(r) \/ Expire(r) \/ Kill(r) PROVE OInv'
  BY <1>3, CheckStep, OpenStep, FetchTokenStep, ReopenStep, BodyStep, AssembleStep, MoveStep,
     SyncStep, ExpireStep, KillStep DEF Advance
<1>. QED  BY <1>1, <1>2, <1>3 DEF Next

LEMMA Runs == Spec => []OInv
<1>. QED  BY OInvInit, OInvNext, PTL DEF Spec

-----------------------------------------------------------------------------
(* Theorems. *)

(* Whatever the registries answer, however many runs share the output directory   *)
(* and wherever they are killed, a file this program has put there is the archive *)
(* the metadata tracks: _acquire_image verifies what it assembled as a consumer   *)
(* would, and only staged archives are moved (os.replace).                        *)
THEOREM OnlyTrackedArchives == Spec => []PublishedIsTracked
<1>1. OInv => PublishedIsTracked  BY DEF OInv
<1>. QED  BY Runs, <1>1, PTL

(* The archives of an acquisition stand all together or not at all, unless a run  *)
(* is moving them, was stopped between two moves, or somebody else acted: two     *)
(* runs into one directory cannot take one another's archives away (acquire's     *)
(* check that no destination exists, and the loop over os.replace).               *)
THEOREM PublishedTogether == Spec => []WholeUnlessCut
<1>1. OInv => WholeUnlessCut
  <2>1. CASE cut \/ foreign > 0  BY <2>1 DEF WholeUnlessCut
  <2>2. CASE ~(cut \/ foreign > 0)  BY <2>2 DEF OInv
  <2>. QED  BY <2>1, <2>2
<1>. QED  BY Runs, <1>1, PTL

(* For every pinned index, manifest and archive: an archive verify_archive admits *)
(* for a tracked image makes SDME import the manifest the index selects, with     *)
(* every blob what its digest says and none besides (_inspect_archive).           *)
THEOREM AdmittedArchivesArePinned == Spec => []AdmittedIsPinned
<1>1. OInv => AdmittedIsPinned
  <2>. SUFFICES ASSUME OInv, NEW i \in 1 .. N, Tracked(world.contracts[i]),
                       NEW a \in Offered(world.documents[i]),
                       verify_archive(docs, world.contracts[i], a, "registry")
                PROVE  Pinned(docs, world.contracts[i], a)
    BY DEF OInv, AdmittedIsPinned
  <2>1. /\ WellFormed(docs, world.contracts[i]) /\ world.contracts[i].parent \in DOMAIN docs
        /\ world.documents[i] \subseteq DOMAIN docs
    BY OciAssumption DEF OInv, N, docs
  <2>2. DOMAIN a.blobs \subseteq DOMAIN docs  BY <2>1 DEF Offered
  <2>3. Inspected(docs, world.contracts[i], a)  BY DEF verify_archive
  <2>. QED  BY <2>1, <2>2, <2>3, AdmittedMeansPinned
<1>. QED  BY Runs, <1>1, PTL
=============================================================================
