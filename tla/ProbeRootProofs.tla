--------------------------- MODULE ProbeRootProofs ---------------------------
(* Theorems about ProbeRoot, for any number of runs, rootfs, failing commands,  *)
(* kills and acts of the operator.                                             *)
EXTENDS ProbeRoot, TLAPS

-----------------------------------------------------------------------------
(* How links resolve.  A tree that grows keeps what resolves in it. *)
LEMMA ResolvesFile ==
  ASSUME NEW fs, NEW tree, NEW p \in tree, IsFile(fs, p)
  PROVE  Resolves(fs, tree, p)
BY DEF Resolves, Files

LEMMA ResolvesLink ==
  ASSUME NEW fs, NEW tree, NEW p \in tree, IsLink(fs, p), Resolves(fs, tree, Entry(fs, p).to)
  PROVE  Resolves(fs, tree, p)
<1>. SUFFICES ASSUME NEW S \in SUBSET Links(fs, tree),
                     \A q \in Links(fs, tree) : Entry(fs, q).to \in Files(fs, tree) \cup S => q \in S
              PROVE  p \in Files(fs, tree) \cup S
  BY DEF Resolves
<1>1. Entry(fs, p).to \in Files(fs, tree) \cup S  BY DEF Resolves
<1>2. p \in Links(fs, tree)  BY DEF Links
<1>. QED  BY <1>1, <1>2

LEMMA ResolvesGrows ==
  ASSUME NEW fs, NEW tree, NEW more, tree \subseteq more, NEW p, Resolves(fs, tree, p)
  PROVE  Resolves(fs, more, p)
<1>. SUFFICES ASSUME NEW S \in SUBSET Links(fs, more),
                     \A q \in Links(fs, more) : Entry(fs, q).to \in Files(fs, more) \cup S => q \in S
              PROVE  p \in Files(fs, more) \cup S
  BY DEF Resolves
<1>. DEFINE T == S \cap Links(fs, tree)
<1>1. Links(fs, tree) \subseteq Links(fs, more) /\ Files(fs, tree) \subseteq Files(fs, more)
  BY DEF Links, Files
<1>2. \A q \in Links(fs, tree) : Entry(fs, q).to \in Files(fs, tree) \cup T => q \in T
  BY <1>1
<1>3. p \in Files(fs, tree) \cup T
  BY <1>2 DEF Resolves
<1>. QED  BY <1>1, <1>3

LEMMA UnbrokenGrows ==
  ASSUME NEW fs, NEW tree, NEW more, tree \subseteq more, NEW p, Unbroken(fs, tree, p)
  PROVE  Unbroken(fs, more, p)
<1>1. PICK S \in SUBSET Links(fs, tree) :
        p \in S /\ \A q \in S : Entry(fs, q).to \in S \cup (tree \ Links(fs, tree))
  BY DEF Unbroken
<1>2. S \in SUBSET Links(fs, more) /\ (tree \ Links(fs, tree)) \subseteq (more \ Links(fs, more))
  BY DEF Links
<1>. QED  BY <1>1, <1>2 DEF Unbroken

LEMMA NothingMissing ==
  ASSUME NEW fs, NEW tree, Missing(fs, tree) = {}, NEW p \in tree, IsLink(fs, p)
  PROVE  Unbroken(fs, tree, p)
<1>1. \A q \in Links(fs, tree) :
        Entry(fs, q).to \in Links(fs, tree) \cup (tree \ Links(fs, tree))
  BY DEF Missing, Links
<1>2. p \in Links(fs, tree)  BY DEF Links
<1>. QED  BY <1>1, <1>2 DEF Unbroken

(* Where a resolves as soon as b does, whatever is added to the tree. *)
Leads(fs, tree, a, b) == \A more : tree \subseteq more /\ Resolves(fs, more, b) => Resolves(fs, more, a)

LEMMA LeadsOn ==
  ASSUME NEW fs, NEW tree, NEW a, NEW b, Leads(fs, tree, a, b), NEW more, tree \subseteq more
  PROVE  /\ Leads(fs, more, a, b)
         /\ b \in more /\ IsLink(fs, b) => Leads(fs, more, a, Entry(fs, b).to)
         /\ b \in more /\ IsFile(fs, b) => Resolves(fs, more, a)
<1>1. Leads(fs, more, a, b)  BY DEF Leads
<1>2. ASSUME b \in more, IsLink(fs, b) PROVE Leads(fs, more, a, Entry(fs, b).to)
  <2>. SUFFICES ASSUME NEW most, more \subseteq most, Resolves(fs, most, Entry(fs, b).to)
                PROVE  Resolves(fs, most, a)
    BY DEF Leads
  <2>1. Resolves(fs, most, b)  BY <1>2, ResolvesLink
  <2>. QED  BY <2>1 DEF Leads
<1>3. ASSUME b \in more, IsFile(fs, b) PROVE Resolves(fs, more, a)
  <2>1. Resolves(fs, more, b)  BY <1>3, ResolvesFile
  <2>. QED  BY <2>1 DEF Leads
<1>. QED  BY <1>1, <1>2, <1>3

LEMMA LeadsStart == ASSUME NEW fs, NEW tree, NEW a PROVE Leads(fs, tree, a, a)
BY DEF Leads

-----------------------------------------------------------------------------
(* Types.  What a run looks at next is a path, a library it looks for has one    *)
(* candidate it is at, what was processed had been queued, and nothing is before *)
(* the standard library is whole.                                               *)
Pcs == Over \cup Body \cup
       {"main", "inventory", "look", "lookMarker", "bind", "check", "unmark", "thaw", "remove"}
Goals == {"python", "link", "interpreter", "library"}
Chains == [goal : Goals \cup {None}, at : Path, seen : SUBSET Path, name : Library \cup {None},
           nth : Nat]
States == [op : {"plan", "apply"}, fs : DOMAIN Images, flaws : SUBSET Flaws, pc : Pcs,
           saw : BOOLEAN, recorded : SUBSET Path, created : BOOLEAN, marked : BOOLEAN,
           chain : Chains, queued : SUBSET Path, processed : SUBSET Path,
           need : SUBSET Library, libraries : SUBSET Library]
EarlyPcs == {"main", "inventory", "look", "lookMarker", "bind", "check", "mkdir", "created",
             "stdlib", "links"}
Early(q) == \/ q.pc \in EarlyPcs
            \/ q.pc = "chain" /\ q.chain.goal \in {"python", "link"}
Sane(q) ==
  /\ q \in States
  /\ q.processed \subseteq q.queued
  /\ Early(q) => q.processed = {} /\ q.libraries = {}
  /\ q.pc = "chain" =>
       /\ q.chain.goal \in Goals
       /\ q.chain.goal = "library" =>
            q.chain.name \in Library /\ q.chain.nth \in 1 .. Len(Candidates[q.chain.name])

Roots == [by : Run \cup {None, Operator}, fs : DOMAIN Images \cup {None}, tree : SUBSET Path,
          frozen : BOOLEAN]
Markers == [by : Run \cup {None}, fs : DOMAIN Images \cup {None}, digest : SUBSET Path]
DiskOK == /\ root \in Roots /\ (root = NoRoot \/ root.by # None)
          /\ marker \in Markers
          /\ marker = NoMarker \/ (marker.by \in Run /\ marker.fs \in DOMAIN Images)
RunOK == run \in [Run -> States] /\ \A r \in Run : Sane(run[r])
TypeOK == DiskOK /\ RunOK

Keeps(q, s) ==
  /\ s.op = q.op /\ s.fs = q.fs /\ s.flaws = q.flaws /\ s.recorded = q.recorded
  /\ s.created = q.created /\ s.marked = q.marked /\ s.chain = q.chain
  /\ s.queued = q.queued /\ s.processed = q.processed /\ s.need = q.need
  /\ s.libraries = q.libraries
Only(r) == \A g \in Run \ {r} : run'[g] = run[g]

(* Whatever is at a path, what it names is a path, and a candidate is one too. *)
LEMMA Entries ==
  ASSUME NEW fs \in DOMAIN Images, NEW p
  PROVE  /\ IsLink(fs, p) => Entry(fs, p).to \in Path
         /\ IsElf(fs, p) => /\ Entry(fs, p).needed \subseteq Library
                            /\ Entry(fs, p).interpreter \in Path \cup {None}
         /\ IsElf(fs, p) \/ IsFile(fs, p) => ~IsLink(fs, p)
         /\ IsElf(fs, p) => IsFile(fs, p)
         /\ p \in Mountpoints => ~IsElf(fs, p)
<1>1. CASE p \in DOMAIN Images[fs].at
  <2>1. Entry(fs, p) = Images[fs].at[p]  BY <1>1 DEF Entry
  <2>. QED  BY <1>1, <2>1, ProbeRootAssumption DEF IsLink, IsElf, IsFile
<1>2. CASE p \notin DOMAIN Images[fs].at
  <2>1. Entry(fs, p).kind = "none"  BY <1>2 DEF Entry, None
  <2>. QED  BY <2>1 DEF IsLink, IsElf, IsFile
<1>. QED  BY <1>1, <1>2

LEMMA CandidatePath ==
  ASSUME NEW name \in Library
  PROVE  /\ \A i \in 1 .. Len(Candidates[name]) : Candidates[name][i] \in Path
         /\ Len(Candidates[name]) \in Nat /\ 1 \in 1 .. Len(Candidates[name])
<1>1. Candidates[name] \in Seq(Path) /\ Candidates[name] # <<>>  BY ProbeRootAssumption
<1>. QED  BY <1>1

LEMMA EmptyChain == NoChain \in Chains
BY ProbeRootAssumption DEF NoChain, Chains, None

LEMMA StartChain ==
  ASSUME NEW goal \in Goals, NEW p \in Path
  PROVE  /\ Chain(goal, p) \in Chains
         /\ Chain(goal, p).goal = goal /\ Chain(goal, p).at = p
BY ProbeRootAssumption DEF Chain, NoChain, Chains, None

LEMMA SetRun ==
  ASSUME TypeOK, NEW r \in Run, NEW q, Sane(q), run' = [run EXCEPT ![r] = q]
  PROVE  RunOK' /\ run'[r] = q /\ Only(r)
<1>1. run'[r] = q /\ Only(r) /\ run' \in [Run -> States]  BY DEF TypeOK, RunOK, Only, Sane
<1>2. \A g \in Run : Sane(run'[g])  BY <1>1 DEF TypeOK, RunOK, Only
<1>. QED  BY <1>1, <1>2 DEF RunOK, Sane

LEMMA GotoSays ==
  ASSUME TypeOK, NEW r \in Run, NEW pc \in Pcs \ {"chain"}, pc \in EarlyPcs => Early(run[r]),
         Goto(r, pc)
  PROVE  RunOK' /\ run'[r].pc = pc /\ Keeps(run[r], run'[r]) /\ Only(r)
<1>. DEFINE q == run[r]
            s == [q EXCEPT !.pc = pc]
<1>1. q \in States /\ Sane(q)  BY DEF TypeOK, RunOK
<1>2. s \in States /\ s.pc = pc /\ Keeps(q, s)  BY <1>1 DEF States, Keeps
<1>3. Sane(s)  BY <1>1, <1>2 DEF Sane, Keeps, Early
<1>4. run' = [run EXCEPT ![r] = s]  BY DEF Goto
<1>. QED  BY <1>2, <1>3, <1>4, SetRun

LEMMA FailSays ==
  ASSUME TypeOK, NEW r \in Run, Fail(r)
  PROVE  /\ RunOK' /\ Keeps(run[r], run'[r]) /\ Only(r)
         /\ run'[r].pc = IF run[r].created THEN "unmark" ELSE "failed"
<1>. DEFINE pc == IF run[r].created THEN "unmark" ELSE "failed"
<1>1. pc \in Pcs \ {"chain"} /\ pc \notin EarlyPcs /\ Goto(r, pc)
  BY DEF Fail, Goto, Pcs, Over, EarlyPcs
<1>. HIDE DEF pc
<1>2. RunOK' /\ run'[r].pc = pc /\ Keeps(run[r], run'[r]) /\ Only(r)  BY <1>1, GotoSays
<1>. QED  BY <1>2 DEF pc

LEMMA WalkSane ==
  ASSUME NEW q, Sane(q), q.pc = "chain", IsLink(q.fs, q.chain.at) \/ IsFile(q.fs, q.chain.at)
  PROVE  /\ Sane(Walk(q))
         /\ Walk(q).fs = q.fs /\ Walk(q).created = q.created /\ Walk(q).marked = q.marked
         /\ Walk(q).processed = q.processed /\ Walk(q).need = q.need
         /\ q.chain.goal # "library" => Walk(q).libraries = q.libraries
<1>. DEFINE p == q.chain.at
<1>0. /\ q \in States /\ q.chain \in Chains /\ q.fs \in DOMAIN Images /\ p \in Path
      /\ q.chain.goal \in Goals
  BY DEF Sane, States, Chains
<1>1. CASE IsLink(q.fs, p)
  <2>0. ~IsFile(q.fs, p)  BY <1>0, <1>1, Entries
  <2>1. Entry(q.fs, p).to \in Path  BY <1>0, <1>1, Entries
  <2>. DEFINE c == [q.chain EXCEPT !.at = Entry(q.fs, p).to, !.seen = q.chain.seen \cup {p}]
  <2>2. c \in Chains /\ c.goal = q.chain.goal /\ c.name = q.chain.name /\ c.nth = q.chain.nth
    BY <1>0, <2>1 DEF Chains
  <2>3. Walk(q) = [q EXCEPT !.chain = c]
    <3>1. Walk(q) = [q EXCEPT !.chain.at = Entry(q.fs, p).to, !.chain.seen = q.chain.seen \cup {p}]
      BY <1>1, <2>0 DEF Walk
    <3>2. @ = [q EXCEPT !.chain = c]  BY <1>0 DEF States, Chains
    <3>. QED  BY <3>1, <3>2
  <2>. HIDE DEF c
  <2>4. /\ Walk(q) \in States /\ Walk(q).chain = c /\ Walk(q).pc = q.pc
        /\ Walk(q).fs = q.fs /\ Walk(q).created = q.created /\ Walk(q).marked = q.marked
        /\ Walk(q).processed = q.processed /\ Walk(q).need = q.need
        /\ Walk(q).queued = q.queued /\ Walk(q).libraries = q.libraries
    BY <1>0, <2>2, <2>3 DEF States
  <2>. QED  BY <2>2, <2>4 DEF Sane, Early, EarlyPcs
<1>2. CASE ~IsLink(q.fs, p) /\ IsFile(q.fs, p)
  <2>1. Walk(q) = [Arrived(p, q) EXCEPT !.chain = NoChain]  BY <1>2 DEF Walk
  <2>2. /\ Arrived(p, q) \in States /\ Arrived(p, q).pc \in Pcs \ {"chain"}
        /\ Arrived(p, q).fs = q.fs /\ Arrived(p, q).created = q.created
        /\ Arrived(p, q).marked = q.marked
        /\ Arrived(p, q).processed = q.processed /\ Arrived(p, q).need = q.need
        /\ q.queued \subseteq Arrived(p, q).queued
        /\ q.chain.goal # "library" => Arrived(p, q).libraries = q.libraries
        /\ Arrived(p, q).pc \in EarlyPcs => q.chain.goal \in {"python", "link"}
    <3>1. CASE q.chain.goal = "python"
      BY <1>0, <3>1 DEF Arrived, States, Pcs, Body, EarlyPcs
    <3>2. CASE q.chain.goal = "link"
      BY <1>0, <3>2 DEF Arrived, States, Pcs, Body, EarlyPcs
    <3>3. CASE q.chain.goal = "interpreter"
      BY <1>0, <3>3 DEF Arrived, States, Pcs, Body, EarlyPcs
    <3>4. CASE q.chain.goal = "library"
      <4>1. q.chain.name \in Library  BY <3>4 DEF Sane
      <4>. QED  BY <1>0, <3>4, <4>1 DEF Arrived, States, Pcs, Body, EarlyPcs
    <3>. QED  BY <1>0, <3>1, <3>2, <3>3, <3>4 DEF Goals
  <2>. DEFINE a == Arrived(p, q)
  <2>. HIDE DEF a
  <2>3. /\ [a EXCEPT !.chain = NoChain] \in States
        /\ [a EXCEPT !.chain = NoChain].pc = a.pc /\ [a EXCEPT !.chain = NoChain].fs = a.fs
        /\ [a EXCEPT !.chain = NoChain].created = a.created
        /\ [a EXCEPT !.chain = NoChain].marked = a.marked
        /\ [a EXCEPT !.chain = NoChain].processed = a.processed
        /\ [a EXCEPT !.chain = NoChain].need = a.need
        /\ [a EXCEPT !.chain = NoChain].queued = a.queued
        /\ [a EXCEPT !.chain = NoChain].libraries = a.libraries
    <3>1. a \in States /\ NoChain \in Chains  BY <2>2, EmptyChain DEF a
    <3>. QED  BY <3>1 DEF States
  <2>. QED  BY <2>1, <2>2, <2>3 DEF a, Sane, Early
<1>. QED  BY <1>1, <1>2

LEMMA WalkOther ==
  ASSUME NEW q, Sane(q), ~IsLink(q.fs, q.chain.at), ~IsFile(q.fs, q.chain.at)
  PROVE  /\ Sane(Walk(q)) /\ Walk(q).pc = "unmark"
         /\ Walk(q).fs = q.fs /\ Walk(q).created = q.created /\ Walk(q).marked = q.marked
<1>1. Walk(q) = [q EXCEPT !.pc = "unmark", !.chain = NoChain]  BY DEF Walk
<1>2. NoChain \in Chains  BY EmptyChain
<1>3. q \in States  BY DEF Sane
<1>4. Walk(q) \in States /\ Walk(q).pc = "unmark" /\ Walk(q).fs = q.fs
      /\ Walk(q).created = q.created /\ Walk(q).marked = q.marked
      /\ Walk(q).processed = q.processed /\ Walk(q).queued = q.queued
  BY <1>1, <1>2, <1>3 DEF States, Pcs
<1>. QED  BY <1>4 DEF Sane, Early, EarlyPcs

(* The next candidate, where there is one. *)
Another(q) == q.chain.goal = "library" /\ q.chain.nth < Len(Candidates[q.chain.name])
LEMMA NotCopiedSane ==
  ASSUME NEW q, Sane(q), q.pc = "chain"
  PROVE  /\ Sane(NotCopied(q))
         /\ NotCopied(q).fs = q.fs /\ NotCopied(q).created = q.created
         /\ NotCopied(q).marked = q.marked
         /\ ~Another(q) => NotCopied(q).pc = "unmark"
         /\ Another(q) =>
              /\ NotCopied(q).pc = "chain"
              /\ NotCopied(q).chain.goal = "library"
              /\ NotCopied(q).chain.name = q.chain.name
              /\ NotCopied(q).chain.nth = q.chain.nth + 1
              /\ NotCopied(q).chain.at = Candidates[q.chain.name][q.chain.nth + 1]
              /\ NotCopied(q).processed = q.processed /\ NotCopied(q).need = q.need
              /\ NotCopied(q).queued = q.queued /\ NotCopied(q).libraries = q.libraries
<1>0. q \in States /\ q.chain \in Chains /\ NoChain \in Chains
  BY EmptyChain DEF Sane, States
<1>1. CASE Another(q)
  <2>. DEFINE i == q.chain.nth + 1
              c == [q.chain EXCEPT !.nth = i, !.seen = {}, !.at = Candidates[q.chain.name][i]]
  <2>1. q.chain.name \in Library /\ i \in 1 .. Len(Candidates[q.chain.name]) /\ i \in Nat
    <3>1. q.chain.name \in Library /\ q.chain.nth \in 1 .. Len(Candidates[q.chain.name])
      BY <1>1 DEF Sane, Another
    <3>2. Len(Candidates[q.chain.name]) \in Nat  BY <3>1, CandidatePath
    <3>. QED  BY <1>1, <3>1, <3>2 DEF Another
  <2>2. Candidates[q.chain.name][i] \in Path  BY <2>1, CandidatePath
  <2>. HIDE DEF i
  <2>3. /\ c \in Chains /\ c.goal = q.chain.goal /\ c.name = q.chain.name /\ c.nth = i
        /\ c.at = Candidates[q.chain.name][i]
    BY <1>0, <2>1, <2>2 DEF Chains
  <2>4. NotCopied(q) = [q EXCEPT !.chain = c]
    BY <1>0, <1>1 DEF NotCopied, Another, States, Chains, i
  <2>. HIDE DEF c
  <2>5. /\ NotCopied(q) \in States /\ NotCopied(q).chain = c /\ NotCopied(q).pc = q.pc
        /\ NotCopied(q).fs = q.fs /\ NotCopied(q).created = q.created
        /\ NotCopied(q).marked = q.marked
        /\ NotCopied(q).processed = q.processed /\ NotCopied(q).need = q.need
        /\ NotCopied(q).queued = q.queued /\ NotCopied(q).libraries = q.libraries
    BY <1>0, <2>3, <2>4 DEF States
  <2>6. Sane(NotCopied(q))  BY <1>1, <2>1, <2>3, <2>5 DEF Sane, Early, EarlyPcs, Another
  <2>. QED  BY <1>1, <2>3, <2>5, <2>6 DEF Another, i
<1>2. CASE ~Another(q)
  <2>1. NotCopied(q) = [q EXCEPT !.pc = "unmark", !.chain = NoChain]
    BY <1>2 DEF NotCopied, Another
  <2>2. NotCopied(q) \in States /\ NotCopied(q).pc = "unmark" /\ NotCopied(q).fs = q.fs
        /\ NotCopied(q).created = q.created /\ NotCopied(q).marked = q.marked
        /\ NotCopied(q).processed = q.processed /\ NotCopied(q).queued = q.queued
    BY <1>0, <2>1 DEF States, Pcs
  <2>. QED  BY <1>2, <2>2 DEF Sane, Early, EarlyPcs
<1>. QED  BY <1>1, <1>2

-----------------------------------------------------------------------------
(* What each step does to its run; it touches no other run. *)
Stays(q, s) == s.fs = q.fs /\ s.created = q.created /\ s.marked = q.marked
Undone(q) == IF q.created THEN "unmark" ELSE "failed"

LEMMA KeepsStays == ASSUME NEW q, NEW s, Keeps(q, s) PROVE Stays(q, s)
BY DEF Keeps, Stays

LEMMA Reading ==
  ASSUME TypeOK, NEW r \in Run,
         \/ Main(r) \/ Inventory(r) \/ LookDestination(r) \/ LookMarker(r)
         \/ ReadMarker(r) \/ CheckTree(r)
  PROVE  /\ RunOK' /\ Only(r) /\ Stays(run[r], run'[r]) /\ UNCHANGED <<Disk, blame>>
         /\ run[r].pc \in {"main", "inventory", "look", "lookMarker", "bind", "check"}
         /\ \/ run'[r].pc \in {"inventory", "look", "lookMarker", "bind", "mkdir", "planned", "failed"}
            \/ /\ run'[r].pc = "check" /\ run[r].pc = "bind"
               /\ marker # NoMarker /\ marker.fs = run[r].fs
               /\ run'[r].recorded = marker.digest
            \/ /\ run'[r].pc = "done" /\ run[r].pc = "check"
               /\ run'[r].recorded = run[r].recorded
         /\ run'[r].processed = run[r].processed /\ run'[r].libraries = run[r].libraries
<1>. DEFINE q == run[r]
<1>0. q \in States /\ Sane(q)  BY DEF TypeOK, RunOK
<1>8. Early(q)
  BY DEF Main, Inventory, LookDestination, LookMarker, ReadMarker, CheckTree, At, Early, EarlyPcs
<1>. DEFINE Nexts == {"inventory", "look", "bind", "mkdir", "planned", "failed"}
<1>1. ASSUME NEW pc \in Nexts, Goto(r, pc)
      PROVE  /\ RunOK' /\ Only(r) /\ Stays(q, run'[r]) /\ run'[r].pc = pc
             /\ run'[r].processed = q.processed /\ run'[r].libraries = q.libraries
  <2>1. pc \in Pcs \ {"chain"}  BY DEF Pcs, Over, Body
  <2>2. RunOK' /\ run'[r].pc = pc /\ Keeps(q, run'[r]) /\ Only(r)  BY <1>1, <1>8, <2>1, GotoSays
  <2>. QED  BY <2>2 DEF Keeps, Stays
<1>2. CASE Main(r)
  <2>1. PICK pc \in Nexts : Goto(r, pc)
    <3>1. Goto(r, "failed") \/ Goto(r, "look") \/ Goto(r, "inventory")  BY <1>2 DEF Main
    <3>. QED  BY <3>1
  <2>. QED  BY <1>1, <1>2, <2>1 DEF Main, World, At
<1>3. CASE Inventory(r)
  <2>1. PICK pc \in Nexts : Goto(r, pc)
    <3>1. Goto(r, "failed") \/ Goto(r, "look")  BY <1>3 DEF Inventory
    <3>. QED  BY <3>1
  <2>. QED  BY <1>1, <1>3, <2>1 DEF Inventory, World, At
<1>4. CASE LookDestination(r)
  <2>. DEFINE s == [q EXCEPT !.saw = root # NoRoot, !.pc = "lookMarker"]
  <2>1. s \in States /\ s.pc = "lookMarker" /\ Stays(q, s) /\ s.processed = q.processed
        /\ s.libraries = q.libraries /\ s.queued = q.queued
    BY <1>0 DEF States, Stays, Pcs
  <2>2. Sane(s)  BY <1>0, <1>8, <2>1 DEF Sane, Early
  <2>3. run' = [run EXCEPT ![r] = s]  BY <1>4 DEF LookDestination
  <2>. HIDE DEF s
  <2>4. RunOK' /\ run'[r] = s /\ Only(r)  BY <2>2, <2>3, SetRun
  <2>. QED  BY <1>4, <2>1, <2>4 DEF LookDestination, World, At
<1>5. CASE LookMarker(r)
  <2>1. PICK pc \in Nexts : Goto(r, pc)
    <3>1. Goto(r, "bind") \/ Goto(r, "planned") \/ Goto(r, "mkdir") \/ Goto(r, "failed")
      BY <1>5 DEF LookMarker
    <3>. QED  BY <3>1
  <2>. QED  BY <1>1, <1>5, <2>1 DEF LookMarker, World, At
<1>6. CASE ReadMarker(r)
  <2>1. CASE Goto(r, "failed")
    BY <1>1, <1>6, <2>1 DEF ReadMarker, World, At
  <2>2. CASE ~Goto(r, "failed")
    <3>. DEFINE s == [q EXCEPT !.recorded = marker.digest, !.pc = "check"]
    <3>1. marker.digest \in SUBSET Path  BY DEF TypeOK, DiskOK, Markers
    <3>2. s \in States /\ s.pc = "check" /\ Stays(q, s) /\ s.processed = q.processed
          /\ s.libraries = q.libraries /\ s.queued = q.queued /\ s.recorded = marker.digest
      BY <1>0, <3>1 DEF States, Stays, Pcs
    <3>3. Sane(s)  BY <1>0, <1>8, <3>2 DEF Sane, Early
    <3>4. run' = [run EXCEPT ![r] = s] /\ marker # NoMarker /\ marker.fs = q.fs
      BY <1>6, <2>2 DEF ReadMarker
    <3>. HIDE DEF s
    <3>5. RunOK' /\ run'[r] = s /\ Only(r)  BY <3>3, <3>4, SetRun
    <3>. QED  BY <1>6, <3>2, <3>4, <3>5 DEF ReadMarker, World, At
  <2>. QED  BY <2>1, <2>2
<1>7. CASE CheckTree(r)
  <2>1. PICK pc \in {"done", "failed"} : Goto(r, pc)
    <3>1. Goto(r, "done") \/ Goto(r, "failed")  BY <1>7 DEF CheckTree
    <3>. QED  BY <3>1
  <2>2. pc \in Pcs \ {"chain"}  BY DEF Pcs, Over, Body
  <2>3. RunOK' /\ run'[r].pc = pc /\ Keeps(q, run'[r]) /\ Only(r)  BY <1>8, <2>1, <2>2, GotoSays
  <2>. QED  BY <1>7, <2>1, <2>3 DEF Keeps, Stays, CheckTree, World, At
<1>. QED  BY <1>2, <1>3, <1>4, <1>5, <1>6, <1>7

LEMMA MakeRootSays ==
  ASSUME TypeOK, NEW r \in Run, MakeRoot(r)
  PROVE  /\ RunOK' /\ Only(r) /\ Stays(run[r], run'[r]) /\ run[r].pc = "mkdir"
         /\ run'[r].processed = run[r].processed /\ run'[r].libraries = run[r].libraries
         /\ UNCHANGED <<marker, blame>>
         /\ \/ /\ root = NoRoot /\ run'[r].pc = "created"
               /\ root' = [by |-> r, fs |-> run[r].fs, tree |-> {}, frozen |-> FALSE]
            \/ run'[r].pc = Undone(run[r]) /\ root' = root
<1>1. CASE Goto(r, "created") /\ root = NoRoot
           /\ root' = [by |-> r, fs |-> run[r].fs, tree |-> {}, frozen |-> FALSE]
  <2>1. "created" \in Pcs \ {"chain"}  BY DEF Pcs, Body
  <2>2. Early(run[r])  BY DEF MakeRoot, At, Early, EarlyPcs
  <2>3. RunOK' /\ run'[r].pc = "created" /\ Keeps(run[r], run'[r]) /\ Only(r)
    BY <1>1, <2>1, <2>2, GotoSays
  <2>. QED  BY <1>1, <2>3 DEF Keeps, Stays, MakeRoot, World, At
<1>2. CASE Fail(r) /\ root' = root
  BY <1>2, FailSays DEF Keeps, Stays, MakeRoot, World, At, Undone
<1>. QED  BY <1>1, <1>2 DEF MakeRoot

LEMMA OwnSays ==
  ASSUME TypeOK, NEW r \in Run, Own(r)
  PROVE  /\ RunOK' /\ Only(r) /\ run[r].pc = "created" /\ UNCHANGED <<Disk, blame>>
         /\ run'[r].created /\ run'[r].pc = "chain" /\ run'[r].fs = run[r].fs
         /\ run'[r].marked = run[r].marked
         /\ run'[r].chain.goal = "python" /\ run'[r].chain.at = Python
         /\ run'[r].processed = run[r].processed /\ run'[r].libraries = run[r].libraries
<1>. DEFINE q == run[r]
            c == Chain("python", Python)
            s == [q EXCEPT !.created = TRUE, !.pc = "chain", !.chain = c]
<1>0. q \in States /\ Sane(q)  BY DEF TypeOK, RunOK
<1>1. c \in Chains /\ c.goal = "python" /\ c.at = Python
  BY StartChain, ProbeRootAssumption DEF Goals
<1>. HIDE DEF c
<1>2. /\ s \in States /\ s.created /\ s.pc = "chain" /\ s.fs = q.fs /\ s.marked = q.marked
      /\ s.chain = c /\ s.processed = q.processed /\ s.libraries = q.libraries
      /\ s.queued = q.queued
  BY <1>0, <1>1 DEF States, Pcs, Body
<1>3. Sane(s)
  <2>1. Early(q)  BY DEF Own, At, Early, EarlyPcs
  <2>. QED  BY <1>0, <1>1, <1>2, <2>1 DEF Sane, Goals
<1>4. run' = [run EXCEPT ![r] = s]  BY DEF Own, c
<1>. HIDE DEF s
<1>5. RunOK' /\ run'[r] = s /\ Only(r)  BY <1>3, <1>4, SetRun
<1>. QED  BY <1>1, <1>2, <1>5 DEF Own, World, At

(* The tree grows by `more`, and nothing else at the destination changes. *)
Grows(r, more) ==
  /\ root.by = r /\ root' \in Roots
  /\ root'.by = r /\ root'.fs = root.fs /\ root'.frozen = root.frozen
  /\ root'.tree = root.tree \cup more

LEMMA GrowsSays ==
  ASSUME TypeOK, NEW r \in Run, Mine(r), NEW more \in SUBSET Path,
         root' = [root EXCEPT !.tree = root.tree \cup more]
  PROVE  Grows(r, more)
BY DEF TypeOK, DiskOK, Roots, Grows, Mine

LEMMA ChainSays ==
  ASSUME TypeOK, NEW r \in Run, copy_symlink_chain(r)
  PROVE  LET q == run[r]
             s == run'[r]
             p == run[r].chain.at
         IN  /\ RunOK' /\ Only(r) /\ Stays(q, s) /\ q.pc = "chain"
             /\ UNCHANGED <<marker, blame>>
             /\ \/ root' = root /\ s.pc \in {Undone(q), "unmark"}
                \/ Grows(r, {p}) /\ s.pc = "unmark"
                \/ Grows(r, {p}) /\ s = Walk(q) /\ (IsLink(q.fs, p) \/ IsFile(q.fs, p))
                \/ root' = root /\ s = NotCopied(q) /\ Another(q)
<1>. DEFINE q == run[r]
            s == run'[r]
            p == run[r].chain.at
<1>0. q \in States /\ Sane(q) /\ q.pc = "chain" /\ p \in Path
  BY DEF TypeOK, RunOK, copy_symlink_chain, At, States, Chains
<1>1. marker' = marker /\ UNCHANGED blame
  BY DEF copy_symlink_chain, World, Faulty
<1>2. CASE Fail(r) /\ root' = root
  BY <1>0, <1>1, <1>2, FailSays, KeepsStays DEF Undone
<1>3. ASSUME Mine(r), run' = [run EXCEPT ![r] = Walk(q)],
             root' = [root EXCEPT !.tree = root.tree \cup {p}]
      PROVE  /\ RunOK' /\ Only(r) /\ Stays(q, s) /\ Grows(r, {p})
             /\ s.pc = "unmark" \/ (s = Walk(q) /\ (IsLink(q.fs, p) \/ IsFile(q.fs, p)))
  <2>1. Grows(r, {p})  BY <1>0, <1>3, GrowsSays
  <2>2. /\ Sane(Walk(q)) /\ Stays(q, Walk(q))
        /\ Walk(q).pc = "unmark" \/ IsLink(q.fs, p) \/ IsFile(q.fs, p)
    BY <1>0, WalkSane, WalkOther DEF Stays
  <2>3. RunOK' /\ Only(r) /\ s = Walk(q)  BY <1>3, <2>2, SetRun
  <2>. QED  BY <2>1, <2>2, <2>3
<1>4. ASSUME Mine(r), p \in root.tree, UNCHANGED root
      PROVE  root' = [root EXCEPT !.tree = root.tree \cup {p}]
  <2>1. root.tree = root.tree \cup {p}  BY <1>4
  <2>. QED  BY <1>4, <2>1 DEF TypeOK, DiskOK, Roots
<1>5. ASSUME run' = [run EXCEPT ![r] = NotCopied(q)]
      PROVE  /\ RunOK' /\ Only(r) /\ Stays(q, s)
             /\ s.pc = "unmark" \/ (s = NotCopied(q) /\ Another(q))
  <2>1. /\ Sane(NotCopied(q)) /\ Stays(q, NotCopied(q))
        /\ NotCopied(q).pc = "unmark" \/ Another(q)
    BY <1>0, NotCopiedSane DEF Stays
  <2>2. RunOK' /\ Only(r) /\ s = NotCopied(q)  BY <1>5, <2>1, SetRun
  <2>. QED  BY <2>1, <2>2
<1>6. CASE Mine(r) /\ p \in root.tree /\ run' = [run EXCEPT ![r] = Walk(q)] /\ UNCHANGED root
  BY <1>0, <1>1, <1>3, <1>4, <1>6
<1>7. CASE Mine(r) /\ run' = [run EXCEPT ![r] = Walk(q)]
           /\ root' = [root EXCEPT !.tree = root.tree \cup {p}]
  BY <1>0, <1>1, <1>3, <1>7
<1>8. CASE run' = [run EXCEPT ![r] = NotCopied(q)] /\ UNCHANGED root
  BY <1>0, <1>1, <1>5, <1>8
<1>. QED  BY <1>2, <1>6, <1>7, <1>8 DEF copy_symlink_chain

LEMMA DirectorySays ==
  ASSUME TypeOK, NEW r \in Run, copy_directory(r)
  PROVE  /\ RunOK' /\ Only(r) /\ Keeps(run[r], run'[r]) /\ run[r].pc = "stdlib"
         /\ UNCHANGED <<marker, blame>>
         /\ \/ root' = root /\ run'[r].pc = Undone(run[r])
            \/ /\ Grows(r, {StdlibDir} \cup Images[run[r].fs].stdlib)
               /\ run'[r].pc = "links"
<1>0. run[r].fs \in DOMAIN Images  BY DEF TypeOK, RunOK, States
<1>1. CASE Fail(r) /\ root' = root
  BY <1>1, FailSays DEF copy_directory, At, World, Undone
<1>2. CASE Mine(r) /\ Goto(r, "links")
           /\ root' = [root EXCEPT !.tree = root.tree \cup {StdlibDir} \cup Images[run[r].fs].stdlib]
  <2>. DEFINE more == {StdlibDir} \cup Images[run[r].fs].stdlib
  <2>1. more \in SUBSET Path  BY <1>0, ProbeRootAssumption
  <2>2. root.tree \cup more = root.tree \cup {StdlibDir} \cup Images[run[r].fs].stdlib  OBVIOUS
  <2>3. Grows(r, more)  BY <1>2, <2>1, <2>2, GrowsSays
  <2>4. RunOK' /\ run'[r].pc = "links" /\ Keeps(run[r], run'[r]) /\ Only(r)
    <3>1. "links" \in Pcs \ {"chain"}  BY DEF Pcs, Body
    <3>2. Early(run[r])  BY DEF copy_directory, At, Early, EarlyPcs
    <3>. QED  BY <1>2, <3>1, <3>2, GotoSays
  <2>. QED  BY <2>3, <2>4 DEF copy_directory, At, World
<1>. QED  BY <1>1, <1>2 DEF copy_directory

LEMMA LinksSays ==
  ASSUME TypeOK, NEW r \in Run, ensure_tree_symlinks(r)
  PROVE  LET q == run[r]
             s == run'[r]
         IN  /\ RunOK' /\ Only(r) /\ Stays(q, s) /\ q.pc = "links"
             /\ UNCHANGED <<Disk, blame>>
             /\ s.processed = q.processed /\ s.libraries = q.libraries
             /\ \/ s.pc = Undone(q)
                \/ s.pc = "chain" /\ s.chain.goal = "link" /\ Mine(r)
                \/ /\ s.pc = "queue" /\ Mine(r) /\ Missing(q.fs, root.tree) = {}
                   /\ s.queued \subseteq root.tree
                   /\ \A p \in root.tree : IsElf(q.fs, p) <=> p \in s.queued
<1>. DEFINE q == run[r]
            s == run'[r]
<1>0. q \in States /\ Sane(q) /\ q.pc = "links" /\ UNCHANGED <<Disk, blame>>
  BY DEF TypeOK, RunOK, ensure_tree_symlinks, At, World
<1>4. q.processed = {} /\ q.libraries = {}  BY <1>0 DEF Sane, Early, EarlyPcs
<1>1. CASE ~Mine(r) /\ Fail(r)
  BY <1>0, <1>1, FailSays DEF Undone, Keeps, Stays
<1>2. CASE /\ Mine(r) /\ Missing(q.fs, root.tree) # {}
           /\ run' = [run EXCEPT ![r].pc = "chain",
                        ![r].chain = Chain("link", First(Missing(q.fs, root.tree)))]
  <2>. DEFINE c == Chain("link", First(Missing(q.fs, root.tree)))
              t == [q EXCEPT !.pc = "chain", !.chain = c]
  <2>1. First(Missing(q.fs, root.tree)) \in Path
    <3>1. First(Missing(q.fs, root.tree)) \in Missing(q.fs, root.tree)  BY <1>2 DEF First
    <3>2. PICK p \in root.tree :
            IsLink(q.fs, p) /\ First(Missing(q.fs, root.tree)) = Entry(q.fs, p).to
      BY <3>1 DEF Missing
    <3>3. q.fs \in DOMAIN Images  BY <1>0 DEF States
    <3>. QED  BY <3>2, <3>3, Entries
  <2>2. c \in Chains /\ c.goal = "link"  BY <2>1, StartChain DEF Goals
  <2>3. run' = [run EXCEPT ![r] = t]  BY <1>2
  <2>. HIDE DEF c
  <2>4. t \in States /\ t.pc = "chain" /\ t.chain = c /\ Stays(q, t)
        /\ t.processed = q.processed /\ t.libraries = q.libraries /\ t.queued = q.queued
    BY <1>0, <2>2 DEF States, Stays, Pcs, Body
  <2>5. Sane(t)  BY <1>0, <1>4, <2>2, <2>4 DEF Sane, Goals
  <2>. HIDE DEF t
  <2>6. RunOK' /\ s = t /\ Only(r)  BY <2>3, <2>5, SetRun
  <2>. QED  BY <1>0, <1>2, <2>2, <2>4, <2>6
<1>3. CASE /\ Mine(r) /\ Missing(q.fs, root.tree) = {}
           /\ run' = [run EXCEPT ![r].pc = "queue",
                                 ![r].queued = {p \in root.tree : IsElf(q.fs, p)}]
  <2>. DEFINE elves == {p \in root.tree : IsElf(q.fs, p)}
              t == [q EXCEPT !.pc = "queue", !.queued = elves]
  <2>1. elves \in SUBSET Path  BY DEF TypeOK, DiskOK, Roots
  <2>2. run' = [run EXCEPT ![r] = t]  BY <1>3
  <2>. HIDE DEF elves
  <2>3. t \in States /\ t.pc = "queue" /\ t.queued = elves /\ Stays(q, t)
        /\ t.processed = q.processed /\ t.libraries = q.libraries
    BY <1>0, <2>1 DEF States, Stays, Pcs, Body
  <2>4. Sane(t)  BY <1>0, <1>4, <2>3 DEF Sane, Early, EarlyPcs
  <2>. HIDE DEF t
  <2>5. RunOK' /\ s = t /\ Only(r)  BY <2>2, <2>4, SetRun
  <2>6. elves \subseteq root.tree /\ \A p \in root.tree : IsElf(q.fs, p) <=> p \in elves
    BY DEF elves
  <2>. QED  BY <1>0, <1>3, <2>3, <2>5, <2>6
<1>. QED  BY <1>1, <1>2, <1>3 DEF ensure_tree_symlinks

LEMMA DequeueSays ==
  ASSUME TypeOK, NEW r \in Run, Dequeue(r)
  PROVE  LET q == run[r]
             s == run'[r]
         IN  /\ RunOK' /\ Only(r) /\ Stays(q, s) /\ q.pc = "queue"
             /\ UNCHANGED <<Disk, blame>>
             /\ \/ s.pc = Undone(q)
                \/ Keeps(q, s) /\ s.pc = "tidy" /\ q.queued = q.processed
                \/ \E p \in q.queued :
                     /\ IsElf(q.fs, p) /\ Entry(q.fs, p).native
                     /\ s.processed = q.processed \cup {p} /\ s.need = Entry(q.fs, p).needed
                     /\ s.queued = q.queued /\ s.libraries = q.libraries
                     /\ \/ s.pc = "needs" /\ Entry(q.fs, p).interpreter = None
                        \/ /\ s.pc = "chain" /\ s.chain.goal = "interpreter"
                           /\ s.chain.at = Entry(q.fs, p).interpreter
<1>. DEFINE q == run[r]
            s == run'[r]
            p == First(q.queued \ q.processed)
            elf == Entry(q.fs, p)
<1>0. q \in States /\ Sane(q) /\ q.pc = "queue" /\ UNCHANGED <<Disk, blame>>
      /\ q.fs \in DOMAIN Images
  BY DEF TypeOK, RunOK, States, Dequeue, At, World
<1>1. CASE q.queued = q.processed /\ Goto(r, "tidy")
  <2>1. "tidy" \in Pcs \ {"chain"} /\ "tidy" \notin EarlyPcs  BY DEF Pcs, Body, EarlyPcs
  <2>2. RunOK' /\ s.pc = "tidy" /\ Keeps(q, s) /\ Only(r)  BY <1>1, <2>1, GotoSays
  <2>. QED  BY <1>0, <1>1, <2>2, KeepsStays
<1>2. CASE Fail(r)
  BY <1>0, <1>2, FailSays, KeepsStays DEF Undone
<1>3. CASE /\ q.queued # q.processed /\ elf.kind = "elf" /\ elf.native
           /\ run' = [run EXCEPT ![r].processed = q.processed \cup {p}, ![r].need = elf.needed,
                        ![r].pc = IF elf.interpreter = None THEN "needs" ELSE "chain",
                        ![r].chain = IF elf.interpreter = None THEN NoChain
                                     ELSE Chain("interpreter", elf.interpreter)]
  <2>. DEFINE pc == IF elf.interpreter = None THEN "needs" ELSE "chain"
              c == IF elf.interpreter = None THEN NoChain ELSE Chain("interpreter", elf.interpreter)
              done == q.processed \cup {p}
              need == elf.needed
              t == [q EXCEPT !.processed = done, !.need = need, !.pc = pc, !.chain = c]
  <2>1. p \in q.queued
    <3>1. q.queued \ q.processed # {}  BY <1>0, <1>3 DEF Sane
    <3>. QED  BY <3>1 DEF First
  <2>2. IsElf(q.fs, p) /\ need \subseteq Library /\ elf.interpreter \in Path \cup {None}
    BY <1>0, <1>3, Entries DEF IsElf
  <2>3. done \in SUBSET Path /\ done \subseteq q.queued  BY <1>0, <2>1 DEF Sane, States
  <2>4. /\ c \in Chains /\ pc \in Pcs /\ pc \in {"needs", "chain"}
        /\ pc = "needs" => elf.interpreter = None
        /\ pc = "chain" => c.goal = "interpreter" /\ c.at = elf.interpreter
    <3>1. CASE elf.interpreter = None
      BY <3>1, EmptyChain DEF Pcs, Body
    <3>2. CASE elf.interpreter # None
      <4>1. elf.interpreter \in Path  BY <2>2, <3>2
      <4>2. /\ Chain("interpreter", elf.interpreter) \in Chains
            /\ Chain("interpreter", elf.interpreter).goal = "interpreter"
            /\ Chain("interpreter", elf.interpreter).at = elf.interpreter
        BY <4>1, StartChain DEF Goals
      <4>. QED  BY <3>2, <4>2 DEF Pcs, Body
    <3>. QED  BY <3>1, <3>2
  <2>5. run' = [run EXCEPT ![r] = t]  BY <1>3
  <2>. HIDE DEF pc, c, done, need
  <2>6. /\ t \in States /\ t.pc = pc /\ t.chain = c /\ t.processed = done /\ t.need = need
        /\ Stays(q, t) /\ t.libraries = q.libraries /\ t.queued = q.queued
    BY <1>0, <2>2, <2>3, <2>4 DEF States, Stays
  <2>7. Sane(t)
    BY <2>3, <2>4, <2>6 DEF Sane, Goals, Early, EarlyPcs
  <2>. HIDE DEF t
  <2>8. RunOK' /\ s = t /\ Only(r)  BY <2>5, <2>7, SetRun
  <2>. QED  BY <1>0, <1>3, <2>1, <2>2, <2>4, <2>6, <2>8 DEF done, need
<1>. QED  BY <1>1, <1>2, <1>3 DEF Dequeue

LEMMA DependencySays ==
  ASSUME TypeOK, NEW r \in Run, Dependency(r)
  PROVE  LET q == run[r]
             s == run'[r]
         IN  /\ RunOK' /\ Only(r) /\ Stays(q, s) /\ q.pc = "needs"
             /\ UNCHANGED <<Disk, blame>>
             /\ s.processed = q.processed /\ s.libraries = q.libraries
             /\ s.queued = q.queued /\ s.need = q.need
             /\ \/ s.pc = "queue" /\ q.need \subseteq q.libraries
                \/ /\ s.pc = "chain" /\ s.chain.goal = "library"
                   /\ s.chain.at = Candidates[s.chain.name][s.chain.nth]
<1>. DEFINE q == run[r]
            s == run'[r]
            left == q.need \ q.libraries
            name == First(left)
<1>0. q \in States /\ Sane(q) /\ q.pc = "needs" /\ UNCHANGED <<Disk, blame>>
  BY DEF TypeOK, RunOK, Dependency, At, World
<1>1. CASE left = {} /\ Goto(r, "queue")
  <2>1. "queue" \in Pcs \ {"chain"} /\ "queue" \notin EarlyPcs  BY DEF Pcs, Body, EarlyPcs
  <2>2. RunOK' /\ s.pc = "queue" /\ Keeps(q, s) /\ Only(r)  BY <1>1, <2>1, GotoSays
  <2>. QED  BY <1>0, <1>1, <2>2 DEF Keeps, Stays
<1>2. CASE /\ left # {}
           /\ run' = [run EXCEPT ![r].pc = "chain",
                        ![r].chain = [Chain("library", Candidates[name][1])
                                        EXCEPT !.name = name, !.nth = 1]]
  <2>. DEFINE c == [Chain("library", Candidates[name][1]) EXCEPT !.name = name, !.nth = 1]
              t == [q EXCEPT !.pc = "chain", !.chain = c]
  <2>1. name \in Library
    <3>1. name \in left  BY <1>2 DEF First
    <3>. QED  BY <1>0, <3>1 DEF States
  <2>2. Candidates[name][1] \in Path /\ 1 \in 1 .. Len(Candidates[name])
    BY <2>1, CandidatePath
  <2>. HIDE DEF name
  <2>3. /\ c \in Chains /\ c.goal = "library" /\ c.name = name /\ c.nth = 1
        /\ c.at = Candidates[name][1]
    <3>. DEFINE d == Chain("library", Candidates[name][1])
    <3>1. d \in Chains /\ d.goal = "library" /\ d.at = Candidates[name][1]
      BY <2>2, StartChain DEF Goals
    <3>. HIDE DEF d
    <3>2. LET e == [d EXCEPT !.name = name, !.nth = 1]
          IN  e \in Chains /\ e.goal = d.goal /\ e.name = name /\ e.nth = 1 /\ e.at = d.at
      BY <2>1, <3>1 DEF Chains
    <3>. QED  BY <3>1, <3>2 DEF d
  <2>4. run' = [run EXCEPT ![r] = t]  BY <1>2 DEF name
  <2>. HIDE DEF c
  <2>5. /\ t \in States /\ t.pc = "chain" /\ t.chain = c /\ t.processed = q.processed
        /\ t.need = q.need /\ Stays(q, t) /\ t.libraries = q.libraries /\ t.queued = q.queued
    BY <1>0, <2>3 DEF States, Stays, Pcs, Body
  <2>6. Sane(t)
    BY <1>0, <2>1, <2>2, <2>3, <2>5 DEF Sane, Goals, Early, EarlyPcs
  <2>. HIDE DEF t
  <2>7. RunOK' /\ s = t /\ Only(r)  BY <2>4, <2>6, SetRun
  <2>. QED  BY <1>0, <2>3, <2>5, <2>7
<1>. QED  BY <1>1, <1>2 DEF Dependency

LEMMA TidySays ==
  ASSUME TypeOK, NEW r \in Run, Tidy(r)
  PROVE  /\ RunOK' /\ Only(r) /\ Keeps(run[r], run'[r]) /\ run[r].pc = "tidy"
         /\ UNCHANGED <<marker, blame>>
         /\ \/ root' = root /\ run'[r].pc = Undone(run[r])
            \/ Grows(r, Mountpoints) /\ run'[r].pc = "freeze"
<1>1. CASE Fail(r) /\ root' = root
  BY <1>1, FailSays DEF Tidy, At, World, Undone
<1>2. CASE Mine(r) /\ Goto(r, "freeze") /\ root' = [root EXCEPT !.tree = root.tree \cup Mountpoints]
  <2>1. Mountpoints \in SUBSET Path  BY ProbeRootAssumption
  <2>2. Grows(r, Mountpoints)  BY <1>2, <2>1, GrowsSays
  <2>3. "freeze" \in Pcs \ {"chain"} /\ "freeze" \notin EarlyPcs  BY DEF Pcs, Body, EarlyPcs
  <2>4. RunOK' /\ run'[r].pc = "freeze" /\ Keeps(run[r], run'[r]) /\ Only(r)
    BY <1>2, <2>3, GotoSays
  <2>. QED  BY <2>2, <2>4 DEF Tidy, At, World
<1>. QED  BY <1>1, <1>2 DEF Tidy

LEMMA Jump ==            \* a Goto where nothing is copied any more
  ASSUME TypeOK, NEW r \in Run,
         NEW pc \in {"queue", "freeze", "digest", "link", "linked", "written", "return", "done",
                     "unmark", "thaw", "remove", "failed", "killed"},
         Goto(r, pc)
  PROVE  /\ RunOK' /\ Only(r) /\ Keeps(run[r], run'[r]) /\ Stays(run[r], run'[r])
         /\ run'[r].pc = pc
<1>1. pc \in Pcs \ {"chain"} /\ pc \notin EarlyPcs  BY DEF Pcs, Body, Over, EarlyPcs
<1>. QED  BY <1>1, GotoSays, KeepsStays

LEMMA FreezeSays ==
  ASSUME TypeOK, NEW r \in Run, freeze_tree(r)
  PROVE  /\ RunOK' /\ Only(r) /\ Keeps(run[r], run'[r]) /\ run[r].pc = "freeze"
         /\ UNCHANGED <<marker, blame>>
         /\ \/ root' = root /\ run'[r].pc = Undone(run[r])
            \/ /\ run'[r].pc = "digest" /\ Mine(r) /\ root' \in Roots
               /\ root'.by = r /\ root'.fs = root.fs /\ root'.frozen /\ root'.tree = root.tree
<1>1. CASE Fail(r) /\ root' = root
  BY <1>1, FailSays DEF freeze_tree, At, World, Undone
<1>2. CASE Mine(r) /\ Goto(r, "digest") /\ root' = [root EXCEPT !.frozen = TRUE]
  BY <1>2, Jump DEF freeze_tree, At, World, Mine, TypeOK, DiskOK, Roots
<1>. QED  BY <1>1, <1>2 DEF freeze_tree

LEMMA DigestSays ==
  ASSUME TypeOK, NEW r \in Run, tree_digest(r)
  PROVE  /\ RunOK' /\ Only(r) /\ Stays(run[r], run'[r]) /\ run[r].pc = "digest"
         /\ UNCHANGED <<Disk, blame>>
         /\ \/ run'[r].pc = Undone(run[r])
            \/ run'[r].pc = "temp" /\ run'[r].recorded = root.tree
<1>. DEFINE q == run[r]
<1>1. CASE Fail(r)
  BY <1>1, FailSays, KeepsStays DEF tree_digest, At, World, Faulty, Undone
<1>2. CASE run' = [run EXCEPT ![r].recorded = root.tree, ![r].pc = "temp"] /\ UNCHANGED World
  <2>. DEFINE t == [q EXCEPT !.recorded = root.tree, !.pc = "temp"]
  <2>1. q \in States /\ Sane(q) /\ root.tree \in SUBSET Path
    BY DEF TypeOK, RunOK, DiskOK, Roots
  <2>2. /\ t \in States /\ t.pc = "temp" /\ t.recorded = root.tree /\ Stays(q, t)
        /\ t.processed = q.processed /\ t.queued = q.queued
    BY <2>1 DEF States, Stays, Pcs, Body
  <2>3. Sane(t)  BY <2>1, <2>2 DEF Sane, Early, EarlyPcs
  <2>4. run' = [run EXCEPT ![r] = t]  BY <1>2
  <2>. HIDE DEF t
  <2>5. RunOK' /\ run'[r] = t /\ Only(r)  BY <2>3, <2>4, SetRun
  <2>. QED  BY <1>2, <2>2, <2>5 DEF tree_digest, At, World
<1>. QED  BY <1>1, <1>2 DEF tree_digest

LEMMA ManifestSays ==
  ASSUME TypeOK, NEW r \in Run, WriteTemp(r) \/ Link(r) \/ RemoveTemp(r)
  PROVE  LET q == run[r]
             s == run'[r]
         IN  /\ RunOK' /\ Only(r) /\ Keeps(q, s) /\ UNCHANGED <<root, blame>>
             /\ q.pc \in {"temp", "link", "linked"}
             /\ \/ s.pc = Undone(q) /\ q.pc \in {"temp", "link"} /\ marker' = marker
                \/ s.pc = Undone(q) /\ q.pc = "linked" /\ marker' = NoMarker
                \/ q.pc = "temp" /\ s.pc = "link" /\ marker' = marker
                \/ /\ q.pc = "link" /\ s.pc = "linked" /\ marker = NoMarker
                   /\ marker' = [by |-> r, fs |-> q.fs, digest |-> q.recorded]
                \/ q.pc = "linked" /\ s.pc = "written" /\ marker' = marker
<1>0. UNCHANGED <<root, blame>>
  BY DEF WriteTemp, Link, RemoveTemp, World, Faulty
<1>1. CASE Fail(r)
  <2>1. RunOK' /\ Only(r) /\ Keeps(run[r], run'[r]) /\ run'[r].pc = Undone(run[r])
    BY <1>1, FailSays DEF Undone
  <2>2. \/ run[r].pc \in {"temp", "link"} /\ marker' = marker
        \/ run[r].pc = "linked" /\ marker' = NoMarker
        \/ Goto(r, "link") \/ Goto(r, "linked") \/ Goto(r, "written")
    BY DEF WriteTemp, Link, RemoveTemp, At
  <2>3. Undone(run[r]) \in {"unmark", "failed"}  BY DEF Undone
  <2>4. ~Goto(r, "link") /\ ~Goto(r, "linked") /\ ~Goto(r, "written")
    BY <2>1, <2>3, Jump
  <2>. QED  BY <1>0, <2>1, <2>2, <2>4
<1>2. CASE Goto(r, "link") /\ WriteTemp(r)
  BY <1>0, <1>2, Jump DEF WriteTemp, At
<1>3. CASE Goto(r, "linked") /\ Link(r) /\ ~Fail(r)
  BY <1>0, <1>3, Jump DEF Link, At
<1>4. CASE Goto(r, "written") /\ RemoveTemp(r) /\ ~Fail(r)
  BY <1>0, <1>4, Jump DEF RemoveTemp, At
<1>. QED  BY <1>1, <1>2, <1>3, <1>4 DEF WriteTemp, Link, RemoveTemp

LEMMA MarkSays ==
  ASSUME TypeOK, NEW r \in Run, Mark(r)
  PROVE  /\ RunOK' /\ Only(r) /\ run[r].pc = "written" /\ UNCHANGED <<Disk, blame>>
         /\ run'[r].marked /\ run'[r].pc = "return" /\ run'[r].fs = run[r].fs
         /\ run'[r].created = run[r].created /\ run'[r].recorded = run[r].recorded
<1>. DEFINE q == run[r]
            t == [q EXCEPT !.marked = TRUE, !.pc = "return"]
<1>1. q \in States /\ Sane(q)  BY DEF TypeOK, RunOK
<1>2. /\ t \in States /\ t.pc = "return" /\ t.marked /\ t.fs = q.fs /\ t.created = q.created
      /\ t.recorded = q.recorded /\ t.processed = q.processed /\ t.queued = q.queued
  BY <1>1 DEF States, Pcs, Body
<1>3. Sane(t)  BY <1>1, <1>2 DEF Sane, Early, EarlyPcs
<1>4. run' = [run EXCEPT ![r] = t]  BY DEF Mark
<1>. HIDE DEF t
<1>5. RunOK' /\ run'[r] = t /\ Only(r)  BY <1>3, <1>4, SetRun
<1>. QED  BY <1>2, <1>5 DEF Mark, At, World

LEMMA ReturnSays ==
  ASSUME TypeOK, NEW r \in Run, Return(r)
  PROVE  /\ RunOK' /\ Only(r) /\ Keeps(run[r], run'[r]) /\ run[r].pc = "return"
         /\ run'[r].pc = "done" /\ UNCHANGED <<Disk, blame>>
BY Jump DEF Return, At, World

LEMMA UndoSays ==
  ASSUME TypeOK, NEW r \in Run, Unmark(r) \/ Thaw(r) \/ RemoveRoot(r)
  PROVE  LET q == run[r]
             s == run'[r]
         IN  /\ RunOK' /\ Only(r) /\ Keeps(q, s) /\ blame \subseteq blame'
             /\ \/ /\ q.pc = "unmark" /\ root' = root /\ blame' = blame
                   /\ marker' = IF q.marked THEN NoMarker ELSE marker
                   /\ s.pc = IF root = NoRoot THEN "failed" ELSE "thaw"
                \/ /\ q.pc = "thaw" /\ s.pc = "remove" /\ Mine(r) /\ marker' = marker
                   /\ root' \in Roots /\ root'.by = r /\ blame' = blame
                \/ /\ q.pc \in {"thaw", "remove"} /\ s.pc = "failed" /\ ~Mine(r)
                   /\ UNCHANGED <<root, marker, blame>>
                \/ /\ q.pc = "remove" /\ s.pc = "failed" /\ Mine(r) /\ marker' = marker
                   /\ root' = NoRoot \/ (root' = root /\ "cleanup" \in blame')
<1>1. CASE Unmark(r)
  <2>1. Goto(r, IF root = NoRoot THEN "failed" ELSE "thaw")  BY <1>1 DEF Unmark
  <2>. QED  BY <1>1, <2>1, Jump DEF Unmark, At, World
<1>2. CASE Thaw(r)
  <2>1. CASE Goto(r, "failed") /\ ~Mine(r) /\ UNCHANGED root
    BY <1>2, <2>1, Jump DEF Thaw, At, World
  <2>2. CASE Goto(r, "remove") /\ Mine(r) /\ root' = [root EXCEPT !.frozen = FALSE]
    BY <1>2, <2>2, Jump DEF Thaw, At, World, Mine, TypeOK, DiskOK, Roots
  <2>. QED  BY <1>2, <2>1, <2>2 DEF Thaw
<1>3. CASE RemoveRoot(r)
  <2>1. Goto(r, "failed") /\ At(r, "remove") /\ marker' = marker  BY <1>3 DEF RemoveRoot
  <2>2. \/ Mine(r) /\ root' = NoRoot /\ blame' = blame
        \/ ~Mine(r) /\ root' = root /\ blame' = blame
        \/ Mine(r) /\ root' = root /\ blame' = blame \cup {"cleanup"}
    BY <1>3 DEF RemoveRoot, World
  <2>3. RunOK' /\ Only(r) /\ Keeps(run[r], run'[r]) /\ run'[r].pc = "failed"
    BY <2>1, Jump
  <2>. QED  BY <2>1, <2>2, <2>3 DEF At
<1>. QED  BY <1>1, <1>2, <1>3

LEMMA StopSays ==
  ASSUME TypeOK, NEW r \in Run, Interrupt(r) \/ Kill(r)
  PROVE  LET q == run[r]
             s == run'[r]
         IN  /\ RunOK' /\ Only(r) /\ Keeps(q, s) /\ UNCHANGED <<root, marker>>
             /\ blame \subseteq blame'
             /\ \/ /\ s.pc = Undone(q) /\ q.pc \in Body
                   /\ Unaware(r) => "window" \in blame'
                \/ /\ s.pc = "killed" /\ q.pc \notin Over
                   /\ Mine(r) => "kill" \in blame'
<1>1. CASE Interrupt(r)
  <2>1. Fail(r) /\ run[r].pc \in Body /\ UNCHANGED <<root, marker>>
        /\ blame' = IF Unaware(r) THEN blame \cup {"window"} ELSE blame
    BY <1>1 DEF Interrupt
  <2>. QED  BY <2>1, FailSays DEF Undone
<1>2. CASE Kill(r)
  <2>1. Goto(r, "killed") /\ run[r].pc \notin Over /\ UNCHANGED <<root, marker>>
        /\ blame' = IF Mine(r) THEN blame \cup {"kill"} ELSE blame
    BY <1>2 DEF Kill, Disk
  <2>. QED  BY <2>1, Jump
<1>. QED  BY <1>1, <1>2

LEMMA TypeInit == Init => TypeOK
<1>. SUFFICES ASSUME Init PROVE TypeOK
  OBVIOUS
<1>1. PICK start \in Starts : run = [r \in Run |-> Process(start[r])]  BY DEF Init
<1>2. \A r \in Run : start[r] \in [op : {"plan", "apply"}, fs : DOMAIN Images, flaws : SUBSET Flaws]
  BY <1>1, ProbeRootAssumption
<1>3. ASSUME NEW r \in Run PROVE Sane(run[r])
  <2>1. start[r].op \in {"plan", "apply"} /\ start[r].fs \in DOMAIN Images
        /\ start[r].flaws \in SUBSET Flaws
    BY <1>2
  <2>2. run[r] = Process(start[r])  BY <1>1
  <2>3. NoChain \in Chains  BY EmptyChain
  <2>4. Process(start[r]) \in States  BY <2>1, <2>3 DEF Process, States, Pcs
  <2>5. Sane(Process(start[r]))  BY <2>4 DEF Sane, Process
  <2>. QED  BY <2>2, <2>5
<1>4. DiskOK
  BY DEF Init, DiskOK, NoRoot, NoMarker, Roots, Markers
<1>5. run \in [Run -> States]  BY <1>1, <1>3 DEF Sane
<1>. QED  BY <1>3, <1>4, <1>5 DEF TypeOK, RunOK

Moves(r) == Advance(r) \/ Interrupt(r) \/ Kill(r)

(* A run changes what is at the destination, or the manifest, only where it made *)
(* that directory or that manifest, or there was none: the code verifies whose   *)
(* the directory is, and an exclusive link writes the manifest.  It takes back a *)
(* manifest it wrote, whatever is there by then.                                *)
OwnOnly(r) ==
  /\ root' = root \/ (root.by \in {r, None} /\ root'.by \in {r, None})
  /\ \/ marker' = marker
     \/ marker = NoMarker /\ marker'.by = r
     \/ marker' = NoMarker /\ (run[r].pc = "linked" \/ (run[r].pc = "unmark" /\ run[r].marked))

LEMMA StepType ==
  ASSUME TypeOK, NEW r \in Run, Moves(r)
  PROVE  TypeOK' /\ Only(r) /\ OwnOnly(r) /\ blame \subseteq blame'
<1>0. None \notin Run  BY ProbeRootAssumption
<1>1. CASE \/ Main(r) \/ Inventory(r) \/ LookDestination(r) \/ LookMarker(r)
           \/ ReadMarker(r) \/ CheckTree(r)
  BY <1>1, Reading DEF TypeOK, DiskOK, Disk, OwnOnly
<1>2. CASE MakeRoot(r)
  <2>1. run[r].fs \in DOMAIN Images  BY DEF TypeOK, RunOK, States
  <2>2. root' = root \/ root' = [by |-> r, fs |-> run[r].fs, tree |-> {}, frozen |-> FALSE]
    BY <1>2, MakeRootSays
  <2>3. root' \in Roots /\ (root' = NoRoot \/ root'.by # None)
    <3>1. CASE root' = root  BY <3>1 DEF TypeOK, DiskOK
    <3>2. CASE root' = [by |-> r, fs |-> run[r].fs, tree |-> {}, frozen |-> FALSE]
      BY <1>0, <2>1, <3>2 DEF Roots
    <3>. QED  BY <2>2, <3>1, <3>2
  <2>. QED  BY <1>2, <2>3, MakeRootSays DEF TypeOK, DiskOK, NoRoot, OwnOnly
<1>3. CASE Own(r)  BY <1>3, OwnSays DEF TypeOK, DiskOK, Disk, OwnOnly
<1>4. ASSUME NEW more, RunOK', Only(r), Grows(r, more), UNCHANGED <<marker, blame>>
      PROVE  TypeOK' /\ Only(r) /\ OwnOnly(r) /\ blame \subseteq blame'
  BY <1>0, <1>4 DEF TypeOK, DiskOK, Grows, OwnOnly
<1>5. ASSUME RunOK', Only(r), UNCHANGED <<root, marker, blame>>
      PROVE  TypeOK' /\ Only(r) /\ OwnOnly(r) /\ blame \subseteq blame'
  BY <1>5 DEF TypeOK, DiskOK, OwnOnly
<1>6. CASE copy_symlink_chain(r)  BY <1>4, <1>5, <1>6, ChainSays
<1>7. CASE copy_directory(r)  BY <1>4, <1>5, <1>7, DirectorySays
<1>8. CASE ensure_tree_symlinks(r)  BY <1>5, <1>8, LinksSays DEF Disk
<1>9. CASE Dequeue(r)  BY <1>5, <1>9, DequeueSays DEF Disk
<1>10. CASE Dependency(r)  BY <1>5, <1>10, DependencySays DEF Disk
<1>11. CASE Tidy(r)  BY <1>4, <1>5, <1>11, TidySays
<1>12. CASE freeze_tree(r)
  BY <1>0, <1>12, <1>5, FreezeSays DEF TypeOK, DiskOK, OwnOnly, Mine
<1>13. CASE tree_digest(r)  BY <1>5, <1>13, DigestSays DEF Disk
<1>14. CASE WriteTemp(r) \/ Link(r) \/ RemoveTemp(r)
  <2>0. run[r].fs \in DOMAIN Images /\ run[r].recorded \in SUBSET Path
    BY DEF TypeOK, RunOK, States
  <2>1. RunOK' /\ Only(r) /\ root' = root /\ blame' = blame  BY <1>14, ManifestSays
  <2>2. \/ marker' = marker
        \/ marker' = NoMarker /\ run[r].pc = "linked"
        \/ marker = NoMarker
           /\ marker' = [by |-> r, fs |-> run[r].fs, digest |-> run[r].recorded]
    BY <1>14, ManifestSays
  <2>3. NoMarker \in Markers  BY DEF NoMarker, Markers
  <2>4. marker' \in Markers
        /\ (marker' = NoMarker \/ (marker'.by \in Run /\ marker'.fs \in DOMAIN Images))
    <3>1. CASE marker' = marker  BY <3>1 DEF TypeOK, DiskOK
    <3>2. CASE marker' = NoMarker  BY <3>2, <2>3
    <3>3. CASE marker' = [by |-> r, fs |-> run[r].fs, digest |-> run[r].recorded]
      BY <3>3, <2>0 DEF Markers
    <3>. QED  BY <2>2, <3>1, <3>2, <3>3
  <2>. QED  BY <2>1, <2>2, <2>4 DEF TypeOK, DiskOK, OwnOnly
<1>15. CASE Mark(r)  BY <1>5, <1>15, MarkSays DEF Disk
<1>16. CASE Return(r)  BY <1>5, <1>16, ReturnSays DEF Disk
<1>17. CASE Unmark(r) \/ Thaw(r) \/ RemoveRoot(r)
  <2>1. NoMarker \in Markers  BY DEF NoMarker, Markers
  <2>2. NoRoot \in Roots /\ NoRoot.by = None  BY DEF NoRoot, Roots
  <2>3. /\ RunOK' /\ Only(r) /\ blame \subseteq blame'
        /\ \/ root' = root /\ marker' = NoMarker /\ run[r].pc = "unmark" /\ run[r].marked
           \/ UNCHANGED <<root, marker>>
           \/ marker' = marker /\ Mine(r) /\ root' \in Roots /\ root'.by = r
           \/ marker' = marker /\ Mine(r) /\ root' = NoRoot
    BY <1>17, UndoSays
  <2>. QED  BY <1>0, <2>1, <2>2, <2>3 DEF TypeOK, DiskOK, OwnOnly, Mine
<1>18. CASE Interrupt(r) \/ Kill(r)
  BY <1>18, StopSays DEF TypeOK, DiskOK, OwnOnly
<1>. QED
  BY <1>1, <1>2, <1>3, <1>6, <1>7, <1>8, <1>9, <1>10, <1>11, <1>12, <1>13, <1>14, <1>15,
     <1>16, <1>17, <1>18 DEF Moves, Advance

LEMMA OperateType ==
  ASSUME TypeOK, Operate
  PROVE  /\ TypeOK' /\ run' = run /\ "operator" \in blame' /\ blame \subseteq blame'
         /\ root'.by \in {None, Operator} /\ marker' \in {NoMarker, marker}
<1>1. /\ NoRoot \in Roots /\ NoRoot.by = None /\ NoMarker \in Markers /\ Operator # None
      /\ [by |-> Operator, fs |-> None, tree |-> {}, frozen |-> FALSE] \in Roots
  BY DEF NoRoot, NoMarker, Roots, Markers, Operator, None
<1>2. /\ run' = run /\ "operator" \in blame' /\ blame \subseteq blame'
      /\ root' \in {NoRoot, [by |-> Operator, fs |-> None, tree |-> {}, frozen |-> FALSE]}
      /\ marker' \in {NoMarker, marker}
  BY DEF Operate
<1>3. RunOK'  BY <1>2 DEF TypeOK, RunOK
<1>4. root' \in Roots /\ (root' = NoRoot \/ root'.by # None) /\ root'.by \in {None, Operator}
  <2>1. CASE root' = NoRoot  BY <1>1, <2>1
  <2>2. CASE root' = [by |-> Operator, fs |-> None, tree |-> {}, frozen |-> FALSE]
    <3>1. root'.by = Operator  BY <2>2
    <3>. QED  BY <1>1, <2>2, <3>1
  <2>. QED  BY <1>2, <2>1, <2>2
<1>5. marker' \in Markers
      /\ (marker' = NoMarker \/ (marker'.by \in Run /\ marker'.fs \in DOMAIN Images))
  BY <1>1, <1>2 DEF TypeOK, DiskOK
<1>. QED  BY <1>2, <1>3, <1>4, <1>5 DEF TypeOK, DiskOK

LEMMA TypeStep ==
  ASSUME TypeOK, [Next]_vars
  PROVE  TypeOK'
<1>1. CASE Operate  BY <1>1, OperateType
<1>2. ASSUME NEW r \in Run, Moves(r) PROVE TypeOK'  BY <1>2, StepType
<1>3. CASE UNCHANGED vars  BY <1>3 DEF vars, TypeOK, DiskOK, RunOK
<1>. QED  BY <1>1, <1>2, <1>3 DEF Next, Moves

(* What is on disk and what a run holds have their types in every state. *)
THEOREM TypesHold == Spec => []TypeOK
<1>1. Init => TypeOK  BY TypeInit
<1>2. TypeOK /\ [Next]_vars => TypeOK'  BY TypeStep
<1>. QED  BY <1>1, <1>2, PTL DEF Spec

-----------------------------------------------------------------------------
(* MarkerMeansWhole.  The strengthening says, for each place of a run, what of    *)
(* the destination and the manifest is its own there.                           *)
Calm == blame \cap {"operator", "window"} = {}
Copying == {"created", "chain", "stdlib", "links", "queue", "needs", "tidy", "freeze"}
Frozen == {"digest", "temp", "link", "linked", "written", "return"}
Undoing == {"unmark", "thaw", "remove"}
Before == {"main", "inventory", "look", "lookMarker", "bind", "check", "mkdir", "planned"}

(* The tree is the run's only once it has made it, and it knows what it made. *)
Knows(r) ==
  /\ root.by = r => run[r].pc \notin Before
  /\ run[r].pc \in (Copying \ {"created"}) \cup Frozen => run[r].created
  /\ run[r].pc \in Before \cup {"created"} => ~run[r].created
  /\ run[r].pc = "return" => run[r].marked
(* With no operator and no window: the tree is there until the run removes it,   *)
(* what was recorded is what it holds, and its manifest is only between the link *)
(* and the first step of the rollback.                                          *)
Holds(r) ==
  /\ run[r].pc \in Copying \cup Frozen \cup Undoing => root.by = r
  /\ run[r].pc \in Frozen => root.frozen
  /\ run[r].pc \in Frozen \ {"digest"} => run[r].recorded = root.tree
  /\ run[r].pc \in {"linked", "written", "return"} => marker.by = r
  /\ marker.by = r => \/ run[r].pc \in {"linked", "written", "return", "done", "killed"}
                      \/ run[r].pc = "unmark" /\ run[r].marked
(* With nothing to blame, a run that ended leaves both or neither. *)
Leaves(r) ==
  root.by = r => /\ run[r].pc \notin {"failed", "killed"}
                 /\ run[r].pc = "done" => marker.by = r
Place(r) == Knows(r) /\ (Calm => Holds(r)) /\ (blame = {} => Leaves(r))
Pair ==
  /\ Calm /\ marker # NoMarker => /\ root.by = marker.by /\ root.frozen
                                  /\ root.tree = marker.digest
  /\ blame = {} => root.by \in Run \cup {None}
PlaceInv == TypeOK /\ Pair /\ \A r \in Run : Place(r)

LEMMA PlaceInit == Init => PlaceInv
<1>. SUFFICES ASSUME Init PROVE PlaceInv
  OBVIOUS
<1>1. TypeOK  BY TypeInit
<1>2. PICK start \in Starts : run = [r \in Run |-> Process(start[r])]  BY DEF Init
<1>3. \A r \in Run : run[r].pc = "main"  BY <1>2 DEF Process
<1>4. \A r \in Run : root.by # r /\ marker.by # r
  BY ProbeRootAssumption DEF Init, NoRoot, NoMarker
<1>5. \A r \in Run : Place(r)
  BY <1>2, <1>3, <1>4 DEF Process, Place, Knows, Holds, Leaves, Copying, Frozen, Undoing
<1>6. Pair  BY DEF Init, Pair, NoRoot
<1>. QED  BY <1>1, <1>5, <1>6 DEF PlaceInv

(* The step of a run leaves the other runs in their place. *)
LEMMA OthersStay ==
  ASSUME PlaceInv, NEW r \in Run, Moves(r), NEW g \in Run \ {r}
  PROVE  Place(g)'
<1>0. None \notin Run /\ NoMarker.by = None  BY ProbeRootAssumption DEF NoMarker
<1>1. Only(r) /\ OwnOnly(r) /\ blame \subseteq blame'  BY StepType DEF PlaceInv
<1>2. run'[g] = run[g] /\ Place(g) /\ Place(r) /\ Pair  BY <1>1 DEF Only, PlaceInv
<1>3. (root.by = g \/ root'.by = g) => root' = root  BY <1>0, <1>1 DEF OwnOnly
<1>4. Calm => Holds(g) /\ Holds(r)  BY <1>2 DEF Place
<1>5. Calm' => Calm  BY <1>1 DEF Calm
<1>6. Calm /\ (marker.by = g \/ marker'.by = g) => marker' = marker
  <2>1. CASE marker' = NoMarker /\ (run[r].pc = "linked" \/ (run[r].pc = "unmark" /\ run[r].marked))
    <3>1. Calm => root.by = r
      BY <1>4, <2>1 DEF Holds, Frozen, Undoing
    <3>2. Calm /\ marker.by = g => root.by = g
      BY <1>0, <1>2 DEF Pair
    <3>. QED  BY <1>0, <2>1, <3>1, <3>2
  <2>2. CASE marker = NoMarker /\ marker'.by = r
    BY <1>0, <2>2
  <2>. QED  BY <1>1, <2>1, <2>2 DEF OwnOnly
<1>7. Knows(g)'  BY <1>2, <1>3 DEF Knows, Place
<1>8. Calm' => Holds(g)'
  <2>. SUFFICES ASSUME Calm' PROVE Holds(g)'
    OBVIOUS
  <2>1. Calm /\ Holds(g)  BY <1>4, <1>5
  <2>. QED  BY <1>2, <1>3, <1>6, <2>1 DEF Holds, Copying, Frozen, Undoing
<1>9. blame' = {} => Leaves(g)'
  <2>. SUFFICES ASSUME blame' = {}, root'.by = g PROVE Leaves(g)'
    BY DEF Leaves
  <2>1. blame = {} /\ Calm /\ root' = root  BY <1>1, <1>3 DEF Calm
  <2>2. Leaves(g)  BY <1>2, <2>1 DEF Place
  <2>. QED  BY <1>2, <1>6, <2>1, <2>2 DEF Leaves
<1>. QED  BY <1>7, <1>8, <1>9 DEF Place

LEMMA WalkPlace ==
  ASSUME NEW q, Sane(q), q.pc = "chain", IsLink(q.fs, q.chain.at) \/ IsFile(q.fs, q.chain.at)
  PROVE  Walk(q).pc \in {"chain", "stdlib", "links", "needs", "unmark"}
<1>. DEFINE p == q.chain.at
<1>0. /\ q \in States /\ q.chain \in Chains /\ q.fs \in DOMAIN Images /\ p \in Path
      /\ q.chain.goal \in Goals
  BY DEF Sane, States, Chains
<1>1. CASE IsLink(q.fs, p)
  <2>0. ~IsFile(q.fs, p)  BY <1>0, <1>1, Entries
  <2>1. Walk(q) = [q EXCEPT !.chain.at = Entry(q.fs, p).to, !.chain.seen = q.chain.seen \cup {p}]
    BY <1>1, <2>0 DEF Walk
  <2>. QED  BY <1>0, <2>1 DEF States
<1>2. CASE ~IsLink(q.fs, p) /\ IsFile(q.fs, p)
  <2>1. Walk(q) = [Arrived(p, q) EXCEPT !.chain = NoChain]  BY <1>2 DEF Walk
  <2>2. /\ DOMAIN Arrived(p, q) = DOMAIN q
        /\ Arrived(p, q).pc \in {"stdlib", "unmark", "links", "needs"}
    BY <1>0 DEF Arrived, Goals, States
  <2>. QED  BY <1>0, <2>1, <2>2 DEF States
<1>. QED  BY <1>1, <1>2

(* What is the run's own after its step, and what tree and manifest are to each *)
(* other.                                                                       *)
LEMMA OwnPlace ==
  ASSUME PlaceInv, NEW r \in Run, Moves(r)
  PROVE  Place(r)' /\ Pair'
<1>0. /\ None \notin Run /\ NoMarker.by = None /\ NoRoot.by = None
      /\ TypeOK /\ Place(r) /\ Pair
  BY ProbeRootAssumption DEF NoMarker, NoRoot, PlaceInv
<1>a. /\ root = NoRoot \/ root.by # None
      /\ marker = NoMarker \/ marker.by \in Run
  BY <1>0 DEF TypeOK, DiskOK
<1>b. Moves(r) /\ \A g \in Run : Place(g)  BY DEF PlaceInv
<1>. USE DEF Copying, Frozen, Undoing, Before
<1>1. CASE \/ Main(r) \/ Inventory(r) \/ LookDestination(r) \/ LookMarker(r)
           \/ ReadMarker(r) \/ CheckTree(r)
  <2>1. /\ run[r].pc \in Before /\ UNCHANGED <<root, marker, blame>>
        /\ run'[r].created = run[r].created
        /\ run'[r].pc \notin Copying \cup Frozen \cup Undoing
    BY <1>0, <1>1, Reading DEF Disk, Stays
  <2>2. root.by # r /\ (Calm => marker.by # r)
    BY <1>0, <2>1 DEF Place, Knows, Holds
  <2>. QED  BY <1>0, <2>1, <2>2 DEF Place, Knows, Holds, Leaves, Pair, Calm
<1>2. CASE MakeRoot(r)
  <2>1. /\ run[r].pc = "mkdir" /\ UNCHANGED <<marker, blame>>
        /\ run'[r].created = run[r].created /\ run'[r].marked = run[r].marked
        /\ \/ root = NoRoot /\ run'[r].pc = "created" /\ root'.by = r
           \/ run'[r].pc = Undone(run[r]) /\ root' = root
    BY <1>0, <1>2, MakeRootSays DEF Stays
  <2>2. Undone(run[r]) = "failed" /\ root.by # r /\ (Calm => marker.by # r)
    BY <1>0, <2>1 DEF Place, Knows, Holds, Undone
  <2>3. Place(r)'
    BY <1>0, <2>1, <2>2 DEF Place, Knows, Holds, Leaves, Calm
  <2>4. Pair'
    BY <1>0, <1>a, <2>1 DEF Pair, Calm
  <2>. QED  BY <2>3, <2>4
(* Copying goes on, or the rollback begins. *)
<1>3. ASSUME run[r].pc \in Copying \ {"created"}, UNCHANGED <<marker, blame>>,
             run'[r].created = run[r].created, run'[r].marked = run[r].marked,
             \/ root' = root
             \/ root.by = r /\ root'.by = r,
             run'[r].pc \in (Copying \ {"created"}) \cup {"unmark"}
      PROVE  Place(r)' /\ Pair'
  BY <1>0, <1>a, <1>3 DEF Place, Knows, Holds, Leaves, Pair, Calm
<1>4. run[r].pc \in (Copying \ {"created"}) \cup Frozen => Undone(run[r]) = "unmark"
  BY <1>0 DEF Place, Knows, Undone
<1>5. CASE Own(r)
  BY <1>0, <1>a, <1>5, OwnSays DEF Place, Knows, Holds, Leaves, Pair, Calm, Disk
<1>6. CASE copy_symlink_chain(r)
  <2>. DEFINE q == run[r]
  <2>1. q.pc = "chain" /\ Sane(q)  BY <1>0, <1>6, ChainSays DEF TypeOK, RunOK
  <2>2. IsLink(q.fs, q.chain.at) \/ IsFile(q.fs, q.chain.at)
          => Walk(q).pc \in (Copying \ {"created"}) \cup {"unmark"}
    BY <2>1, WalkPlace
  <2>3. Another(q) => NotCopied(q).pc = "chain"  BY <2>1, NotCopiedSane
  <2>4. run'[r].pc \in (Copying \ {"created"}) \cup {"unmark"}
    BY <1>0, <1>4, <1>6, <2>1, <2>2, <2>3, ChainSays
  <2>5. root' = root \/ (root.by = r /\ root'.by = r)
    BY <1>0, <1>6, ChainSays DEF Grows
  <2>6. UNCHANGED <<marker, blame>> /\ Stays(run[r], run'[r])  BY <1>0, <1>6, ChainSays
  <2>. QED  BY <1>3, <2>1, <2>4, <2>5, <2>6 DEF Stays
<1>7. CASE copy_directory(r)
  BY <1>0, <1>3, <1>4, <1>7, DirectorySays DEF Keeps, Grows
<1>8. CASE ensure_tree_symlinks(r)
  BY <1>0, <1>3, <1>4, <1>8, LinksSays DEF Stays, Disk
<1>9. CASE Dequeue(r)
  BY <1>0, <1>3, <1>4, <1>9, DequeueSays DEF Stays, Disk
<1>10. CASE Dependency(r)
  BY <1>0, <1>3, <1>4, <1>10, DependencySays DEF Stays, Disk
<1>11. CASE Tidy(r)
  BY <1>0, <1>3, <1>4, <1>11, TidySays DEF Keeps, Grows
<1>12. CASE freeze_tree(r)
  <2>1. CASE run'[r].pc = "digest"
    <3>1. /\ run[r].pc = "freeze" /\ Keeps(run[r], run'[r]) /\ UNCHANGED <<marker, blame>>
          /\ root.by = r /\ root'.by = r /\ root'.frozen
      BY <1>0, <1>4, <1>12, <2>1, FreezeSays DEF Mine
    <3>. QED  BY <1>0, <1>a, <2>1, <3>1 DEF Place, Knows, Holds, Leaves, Pair, Calm, Keeps
  <2>2. CASE run'[r].pc # "digest"
    BY <1>0, <1>3, <1>4, <1>12, <2>2, FreezeSays DEF Keeps
  <2>. QED  BY <2>1, <2>2
<1>13. CASE tree_digest(r)
  <2>1. /\ run[r].pc = "digest" /\ Stays(run[r], run'[r]) /\ UNCHANGED <<root, marker, blame>>
        /\ run'[r].pc = "unmark" \/ (run'[r].pc = "temp" /\ run'[r].recorded = root.tree)
    BY <1>0, <1>4, <1>13, DigestSays DEF Disk
  <2>. QED  BY <1>0, <2>1 DEF Place, Knows, Holds, Leaves, Pair, Calm, Stays
<1>14. CASE WriteTemp(r) \/ Link(r) \/ RemoveTemp(r)
  <2>. DEFINE q == run[r]
              s == run'[r]
  <2>1. /\ Keeps(q, s) /\ UNCHANGED <<root, blame>> /\ Undone(q) = "unmark"
        /\ q.pc \in {"temp", "link", "linked"}
        /\ \/ s.pc = Undone(q) /\ q.pc \in {"temp", "link"} /\ marker' = marker
           \/ s.pc = Undone(q) /\ q.pc = "linked" /\ marker' = NoMarker
           \/ q.pc = "temp" /\ s.pc = "link" /\ marker' = marker
           \/ /\ q.pc = "link" /\ s.pc = "linked" /\ marker = NoMarker
              /\ marker' = [by |-> r, fs |-> q.fs, digest |-> q.recorded]
           \/ q.pc = "linked" /\ s.pc = "written" /\ marker' = marker
    BY <1>0, <1>4, <1>14, ManifestSays
  <2>2. CASE marker' = marker
    BY <1>0, <2>1, <2>2 DEF Place, Knows, Holds, Leaves, Pair, Calm, Keeps
  <2>3. CASE q.pc = "linked" /\ marker' = NoMarker /\ s.pc = "unmark"
    BY <1>0, <2>1, <2>3 DEF Place, Knows, Holds, Leaves, Pair, Calm, Keeps
  <2>4. CASE q.pc = "link" /\ s.pc = "linked"
             /\ marker' = [by |-> r, fs |-> q.fs, digest |-> q.recorded]
    <3>1. marker'.by = r /\ marker'.digest = q.recorded  BY <2>4
    <3>. QED  BY <1>0, <2>1, <2>4, <3>1 DEF Place, Knows, Holds, Leaves, Pair, Calm, Keeps
  <2>. QED  BY <2>1, <2>2, <2>3, <2>4
<1>15. CASE Mark(r)
  BY <1>0, <1>15, MarkSays DEF Place, Knows, Holds, Leaves, Pair, Calm, Disk
<1>16. CASE Return(r)
  BY <1>0, <1>16, ReturnSays DEF Place, Knows, Holds, Leaves, Pair, Calm, Disk, Keeps
<1>17. CASE Unmark(r) \/ Thaw(r) \/ RemoveRoot(r)
  <2>. DEFINE q == run[r]
              s == run'[r]
  <2>0. Keeps(q, s) /\ blame \subseteq blame'  BY <1>0, <1>17, UndoSays
  <2>1. CASE /\ q.pc = "unmark" /\ root' = root /\ blame' = blame
             /\ marker' = IF q.marked THEN NoMarker ELSE marker
             /\ s.pc = IF root = NoRoot THEN "failed" ELSE "thaw"
    BY <1>0, <1>a, <2>0, <2>1 DEF Place, Knows, Holds, Leaves, Pair, Calm, Keeps
  <2>2. CASE /\ q.pc = "thaw" /\ s.pc = "remove" /\ Mine(r) /\ marker' = marker
             /\ root'.by = r /\ blame' = blame
    BY <1>0, <1>a, <2>0, <2>2 DEF Place, Knows, Holds, Leaves, Pair, Calm, Keeps, Mine
  <2>3. CASE /\ q.pc \in {"thaw", "remove"} /\ s.pc = "failed" /\ ~Mine(r)
             /\ UNCHANGED <<root, marker, blame>>
    BY <1>0, <2>0, <2>3 DEF Place, Knows, Holds, Leaves, Pair, Calm, Keeps, Mine
  <2>4. CASE /\ q.pc = "remove" /\ s.pc = "failed" /\ Mine(r) /\ marker' = marker
             /\ root' = NoRoot \/ (root' = root /\ "cleanup" \in blame')
    <3>1. Calm' => Calm  BY <2>0 DEF Calm
    <3>2. Calm => marker = NoMarker
      BY <1>0, <1>a, <2>4 DEF Place, Holds, Pair, Mine
    <3>3. Knows(r)'  BY <1>0, <2>0, <2>4 DEF Knows, Place, Keeps
    <3>4. Calm' => Holds(r)'  BY <1>0, <2>4, <3>1, <3>2 DEF Holds
    <3>5. blame' = {} => Leaves(r)'  BY <1>0, <2>4 DEF Leaves
    <3>6. Pair'
      BY <1>0, <2>0, <2>4, <3>1, <3>2 DEF Pair
    <3>. QED  BY <3>3, <3>4, <3>5, <3>6 DEF Place
  <2>. QED  BY <1>0, <1>17, <2>1, <2>2, <2>3, <2>4, UndoSays
<1>18. CASE Interrupt(r) \/ Kill(r)
  <2>. DEFINE q == run[r]
              s == run'[r]
  <2>0. Keeps(q, s) /\ UNCHANGED <<root, marker>> /\ blame \subseteq blame'
    BY <1>0, <1>18, StopSays
  <2>1. Calm' => Calm  BY <2>0 DEF Calm
  <2>2. Pair'  BY <1>0, <2>0, <2>1 DEF Pair
  <2>3. CASE s.pc = "killed" /\ q.pc \notin Over /\ (Mine(r) => "kill" \in blame')
    <3>1. Knows(r)'  BY <1>0, <2>0, <2>3 DEF Knows, Place, Keeps
    <3>2. Calm' => Holds(r)'  BY <1>0, <2>0, <2>1, <2>3 DEF Holds, Place
    <3>3. blame' = {} => Leaves(r)'  BY <2>0, <2>3 DEF Leaves, Mine
    <3>. QED  BY <2>2, <3>1, <3>2, <3>3 DEF Place
  <2>4. CASE s.pc = Undone(q) /\ q.pc \in Body /\ (Unaware(r) => "window" \in blame')
    <3>1. s.pc \in {"unmark", "failed"} /\ (q.pc \in {"mkdir", "created"} <=> s.pc = "failed")
      BY <1>0, <1>4, <2>4 DEF Undone, Body, Place, Knows
    <3>2. Knows(r)'  BY <1>0, <2>0, <2>4, <3>1 DEF Knows, Place, Keeps
    <3>3. Calm' => Calm /\ q.pc # "created" /\ (q.pc \in {"linked", "written"} => marker = NoMarker)
      BY <2>1, <2>4 DEF Calm, Unaware, At
    <3>4. Calm' => Holds(r)'
      BY <1>0, <2>0, <2>4, <3>1, <3>3 DEF Holds, Place, Knows, Body, Keeps
    <3>5. blame' = {} => Leaves(r)'
      <4>1. blame' = {} => blame = {} /\ Calm'  BY <2>0 DEF Calm
      <4>2. blame' = {} => (root.by = r => s.pc # "failed")
        BY <1>0, <3>1, <3>3, <4>1 DEF Place, Knows
      <4>. QED  BY <2>0, <3>1, <4>2 DEF Leaves
    <3>. QED  BY <2>2, <3>2, <3>4, <3>5 DEF Place
  <2>. QED  BY <1>0, <1>18, <2>3, <2>4, StopSays
<1>. QED
  BY <1>b, <1>1, <1>2, <1>5, <1>6, <1>7, <1>8, <1>9, <1>10, <1>11, <1>12, <1>13, <1>14, <1>15,
     <1>16, <1>17, <1>18 DEF Moves, Advance

LEMMA PlaceStep ==
  ASSUME PlaceInv, [Next]_vars
  PROVE  PlaceInv'
<1>1. TypeOK'  BY TypeStep DEF PlaceInv
<1>2. ASSUME NEW r \in Run, Moves(r) PROVE PlaceInv'
  BY <1>1, <1>2, OwnPlace, OthersStay DEF PlaceInv
<1>3. CASE Operate
  <2>1. /\ run' = run /\ "operator" \in blame' /\ root'.by \notin Run
    BY <1>3, OperateType, ProbeRootAssumption DEF PlaceInv
  <2>. QED  BY <1>1, <2>1 DEF PlaceInv, Place, Knows, Pair, Calm
<1>4. CASE UNCHANGED vars
  BY <1>1, <1>4 DEF vars, PlaceInv, Place, Knows, Holds, Leaves, Pair, Calm
<1>. QED  BY <1>2, <1>3, <1>4 DEF Next, Moves

LEMMA PlaceMeansMarker == PlaceInv => MarkerMeansWhole
<1>. SUFFICES ASSUME PlaceInv PROVE MarkerMeansWhole
  OBVIOUS
<1>1. /\ None \notin Run /\ NoRoot.by = None /\ NoMarker.by = None
      /\ root = NoRoot \/ root.by # None
      /\ marker = NoMarker \/ marker.by \in Run
  BY ProbeRootAssumption DEF NoRoot, NoMarker, PlaceInv, TypeOK, DiskOK
<1>2. Calm /\ marker # NoMarker => /\ root # NoRoot /\ root.by = marker.by
                                   /\ root.frozen /\ root.tree = marker.digest
  BY <1>1 DEF PlaceInv, Pair
<1>3. ASSUME blame = {}, \A r \in Run : ~Writing(r), root # NoRoot PROVE marker # NoMarker
  <2>1. root.by \in Run  BY <1>1, <1>3 DEF PlaceInv, Pair
  <2>2. PICK r \in Run : r = root.by  BY <2>1
  <2>3. Knows(r) /\ Leaves(r) /\ ~Writing(r)  BY <1>3, <2>2 DEF PlaceInv, Place
  <2>4. run[r].pc \in Pcs  BY DEF PlaceInv, TypeOK, RunOK, States
  <2>5. run[r].pc = "done"
    BY <2>2, <2>3, <2>4 DEF Knows, Leaves, Writing, Body, Before, Pcs, Over
  <2>. QED  BY <1>1, <2>2, <2>3, <2>5 DEF Leaves
<1>4. blame = {} => Calm  BY DEF Calm
<1>. QED  BY <1>2, <1>3, <1>4 DEF MarkerMeansWhole, Calm

(* While a manifest is there, the tree it was written for is there, frozen and    *)
(* unchanged, unless an operator acted or an exception fell into a window; and    *)
(* once no run writes, tree and manifest are both there or both gone.           *)
THEOREM MarkerHolds == Spec => []MarkerMeansWhole
<1>1. Init => PlaceInv  BY PlaceInit
<1>2. PlaceInv /\ [Next]_vars => PlaceInv'  BY PlaceStep
<1>3. PlaceInv => MarkerMeansWhole  BY PlaceMeansMarker
<1>. QED  BY <1>1, <1>2, <1>3, PTL DEF Spec

-----------------------------------------------------------------------------
(* ReportedWhole.  The strengthening follows the copy: what is in the tree by    *)
(* each step, what a chain under way will bring, and what the work list owes.    *)
InChain(q, goals) == q.pc = "chain" /\ q.chain.goal \in goals
Closing(q) == q.pc \in {"queue", "needs", "tidy", "freeze"} \/ InChain(q, {"interpreter", "library"})
Later(q) == q.pc = "links" \/ InChain(q, {"link"}) \/ Closing(q)
Found(fs, tree, name) == \E i \in 1 .. Len(Candidates[name]) : Resolves(fs, tree, Candidates[name][i])

PythonIn(q, tree) ==
  /\ InChain(q, {"python"}) => Leads(q.fs, tree, Python, q.chain.at)
  /\ q.pc = "stdlib" \/ Later(q) => Resolves(q.fs, tree, Python)
StdlibIn(q, tree) ==
  /\ Later(q) => {StdlibDir} \cup Images[q.fs].stdlib \subseteq tree
  /\ Closing(q) => \A p \in Images[q.fs].stdlib : IsLink(q.fs, p) => Unbroken(q.fs, tree, p)
(* An ELF file of the list: its program interpreter is there or on its way, and  *)
(* each library it names is there or still needed.                              *)
Settled(q, tree, p) ==
  /\ IsElf(q.fs, p) /\ Entry(q.fs, p).native
  /\ Entry(q.fs, p).interpreter # None =>
       \/ Resolves(q.fs, tree, Entry(q.fs, p).interpreter)
       \/ InChain(q, {"interpreter"}) /\ Leads(q.fs, tree, Entry(q.fs, p).interpreter, q.chain.at)
  /\ \A name \in Entry(q.fs, p).needed :
       name \in q.libraries \/ (q.pc \in {"needs", "chain"} /\ name \in q.need)
ElvesIn(q, tree) ==
  /\ \A p \in tree : IsElf(q.fs, p) => p \in q.queued
  /\ \A p \in q.processed : Settled(q, tree, p)
  /\ \A name \in q.libraries : Found(q.fs, tree, name)
  /\ InChain(q, {"library"}) =>
       Leads(q.fs, tree, Candidates[q.chain.name][q.chain.nth], q.chain.at)
  /\ q.pc \in {"tidy", "freeze"} => q.queued = q.processed
  /\ q.pc = "freeze" => Mountpoints \subseteq tree
Copied(q, tree) ==
  PythonIn(q, tree) /\ StdlibIn(q, tree) /\ (Closing(q) => ElvesIn(q, tree))

LEMMA FoundGrows ==
  ASSUME NEW fs, NEW tree, NEW more, tree \subseteq more, NEW name, Found(fs, tree, name)
  PROVE  Found(fs, more, name)
BY ResolvesGrows DEF Found

LEMMA WholeAtFreeze ==
  ASSUME NEW q, NEW tree, q.pc = "freeze", Copied(q, tree)
  PROVE  Whole(q.fs, tree)
<1>1. Closing(q) /\ Later(q) /\ ~InChain(q, {"interpreter"}) /\ q.pc \notin {"needs", "chain"}
  BY DEF Closing, Later, InChain
<1>2. ASSUME NEW p \in tree, IsElf(q.fs, p)
      PROVE  LET elf == Entry(q.fs, p)
             IN  /\ elf.native
                 /\ elf.interpreter # None => Resolves(q.fs, tree, elf.interpreter)
                 /\ \A name \in elf.needed : Found(q.fs, tree, name)
  <2>1. p \in q.processed  BY <1>1, <1>2 DEF Copied, ElvesIn
  <2>2. Settled(q, tree, p)  BY <1>1, <2>1 DEF Copied, ElvesIn
  <2>3. \A name \in q.libraries : Found(q.fs, tree, name)  BY <1>1 DEF Copied, ElvesIn
  <2>. QED  BY <1>1, <2>2, <2>3 DEF Settled
<1>3. /\ Resolves(q.fs, tree, Python)
      /\ {StdlibDir} \cup Images[q.fs].stdlib \cup Mountpoints \subseteq tree
      /\ \A p \in Images[q.fs].stdlib : IsLink(q.fs, p) => Unbroken(q.fs, tree, p)
  BY <1>1 DEF Copied, PythonIn, StdlibIn, ElvesIn
<1>. QED  BY <1>2, <1>3 DEF Whole, Found

(* The python and stdlib parts only ask of a later place what they ask already. *)
LEMMA PartsGrow ==
  ASSUME NEW q, NEW s, NEW tree, NEW more, tree \subseteq more, s.fs = q.fs,
         PythonIn(q, tree), StdlibIn(q, tree)
  PROVE  /\ q.pc = "stdlib" \/ Later(q) => Resolves(s.fs, more, Python)
         /\ Later(q) => {StdlibDir} \cup Images[s.fs].stdlib \subseteq more
         /\ Closing(q) => \A p \in Images[s.fs].stdlib : IsLink(s.fs, p) => Unbroken(s.fs, more, p)
<1>1. q.pc = "stdlib" \/ Later(q) => Resolves(s.fs, more, Python)
  BY ResolvesGrows DEF PythonIn
<1>2. Later(q) => {StdlibDir} \cup Images[s.fs].stdlib \subseteq more  BY DEF StdlibIn
<1>3. Closing(q) => \A p \in Images[s.fs].stdlib : IsLink(s.fs, p) => Unbroken(s.fs, more, p)
  BY UnbrokenGrows DEF StdlibIn
<1>. QED  BY <1>1, <1>2, <1>3

(* One round of a chain. *)
LEMMA WalkLinkSays ==
  ASSUME NEW q, Sane(q), q.pc = "chain", IsLink(q.fs, q.chain.at)
  PROVE  LET s == Walk(q)
         IN  /\ s.pc = "chain" /\ s.chain.goal = q.chain.goal /\ s.chain.name = q.chain.name
             /\ s.chain.nth = q.chain.nth /\ s.chain.at = Entry(q.fs, q.chain.at).to
             /\ s.fs = q.fs /\ s.queued = q.queued /\ s.processed = q.processed
             /\ s.need = q.need /\ s.libraries = q.libraries
<1>0. q \in States /\ q.chain \in Chains /\ ~IsFile(q.fs, q.chain.at)
  BY Entries DEF Sane, States, Chains
<1>. DEFINE c == [q.chain EXCEPT !.at = Entry(q.fs, q.chain.at).to,
                                 !.seen = q.chain.seen \cup {q.chain.at}]
<1>1. Walk(q) = [q EXCEPT !.chain.at = Entry(q.fs, q.chain.at).to,
                          !.chain.seen = q.chain.seen \cup {q.chain.at}]
  BY <1>0 DEF Walk
<1>2. @ = [q EXCEPT !.chain = c]  BY <1>0 DEF States, Chains
<1>3. /\ c.goal = q.chain.goal /\ c.name = q.chain.name /\ c.nth = q.chain.nth
      /\ c.at = Entry(q.fs, q.chain.at).to
  BY <1>0 DEF Chains
<1>. HIDE DEF c
<1>. QED  BY <1>0, <1>1, <1>2, <1>3 DEF States

LEMMA WalkFileSays ==
  ASSUME NEW q, Sane(q), q.pc = "chain", IsFile(q.fs, q.chain.at)
  PROVE  LET s == Walk(q)
             p == q.chain.at
         IN  /\ s.fs = q.fs /\ s.processed = q.processed /\ s.need = q.need
             /\ q.chain.goal \in Goals
             /\ q.chain.goal = "python" => s.pc \in {"stdlib", "unmark"}
             /\ q.chain.goal = "link" => s.pc = "links"
             /\ q.chain.goal = "interpreter" =>
                  s.pc = "needs" /\ s.queued = q.queued \cup {p} /\ s.libraries = q.libraries
             /\ q.chain.goal = "library" =>
                  /\ s.pc = "needs" /\ s.queued = q.queued \cup {p}
                  /\ s.libraries = q.libraries \cup {q.chain.name}
<1>. DEFINE p == q.chain.at
<1>0. q \in States /\ q.chain.goal \in Goals /\ ~IsLink(q.fs, p)
  BY Entries DEF Sane, States
<1>1. Walk(q) = [Arrived(p, q) EXCEPT !.chain = NoChain]  BY <1>0 DEF Walk
<1>2. LET a == Arrived(p, q)
      IN  /\ DOMAIN a = DOMAIN q
          /\ a.fs = q.fs /\ a.processed = q.processed /\ a.need = q.need
          /\ q.chain.goal = "python" => a.pc \in {"stdlib", "unmark"}
          /\ q.chain.goal = "link" => a.pc = "links"
          /\ q.chain.goal = "interpreter" =>
               a.pc = "needs" /\ a.queued = q.queued \cup {p} /\ a.libraries = q.libraries
          /\ q.chain.goal = "library" =>
               /\ a.pc = "needs" /\ a.queued = q.queued \cup {p}
               /\ a.libraries = q.libraries \cup {q.chain.name}
  <2>1. CASE q.chain.goal = "python"  BY <1>0, <2>1 DEF Arrived, States
  <2>2. CASE q.chain.goal = "link"  BY <1>0, <2>2 DEF Arrived, States
  <2>3. CASE q.chain.goal = "interpreter"  BY <1>0, <2>3 DEF Arrived, States
  <2>4. CASE q.chain.goal = "library"  BY <1>0, <2>4 DEF Arrived, States
  <2>. QED  BY <1>0, <2>1, <2>2, <2>3, <2>4 DEF Goals
<1>. DEFINE a == Arrived(p, q)
<1>. HIDE DEF a
<1>3. DOMAIN a = DOMAIN q => LET b == [a EXCEPT !.chain = NoChain]
      IN  /\ b.fs = a.fs /\ b.processed = a.processed /\ b.need = a.need /\ b.pc = a.pc
          /\ b.queued = a.queued /\ b.libraries = a.libraries
  BY <1>0 DEF States
<1>. QED  BY <1>0, <1>1, <1>2, <1>3 DEF a

(* What is settled stays so while the tree, the list and the libraries grow and  *)
(* the chain under way goes on or has arrived.                                  *)
LEMMA SettledGrows ==
  ASSUME NEW q, NEW s, NEW tree, NEW more, tree \subseteq more, NEW p, Settled(q, tree, p),
         s.fs = q.fs, q.libraries \subseteq s.libraries, s.need = q.need,
         q.pc \in {"needs", "chain"} => s.pc \in {"needs", "chain"} \/ q.need \subseteq s.libraries,
         InChain(q, {"interpreter"}) =>
           \A a : Leads(q.fs, tree, a, q.chain.at) =>
             \/ Resolves(q.fs, more, a)
             \/ InChain(s, {"interpreter"}) /\ Leads(q.fs, more, a, s.chain.at)
  PROVE  Settled(s, more, p)
<1>. DEFINE elf == Entry(q.fs, p)
<1>1. elf.interpreter # None =>
        \/ Resolves(q.fs, more, elf.interpreter)
        \/ InChain(s, {"interpreter"}) /\ Leads(q.fs, more, elf.interpreter, s.chain.at)
  BY ResolvesGrows DEF Settled
<1>2. \A name \in elf.needed :
        name \in s.libraries \/ (s.pc \in {"needs", "chain"} /\ name \in s.need)
  BY DEF Settled
<1>. QED  BY <1>1, <1>2 DEF Settled

LEMMA WalkLinkCopied ==
  ASSUME NEW q, Sane(q), q.pc = "chain", IsLink(q.fs, q.chain.at), NEW tree, Copied(q, tree)
  PROVE  Copied(Walk(q), tree \cup {q.chain.at})
<1>. DEFINE at == q.chain.at
            more == tree \cup {at}
            s == Walk(q)
<1>1. /\ s.pc = "chain" /\ s.chain.goal = q.chain.goal /\ s.chain.name = q.chain.name
      /\ s.chain.nth = q.chain.nth /\ s.chain.at = Entry(q.fs, at).to
      /\ s.fs = q.fs /\ s.queued = q.queued /\ s.processed = q.processed
      /\ s.need = q.need /\ s.libraries = q.libraries
  BY WalkLinkSays
<1>2. ~IsElf(q.fs, at)  BY Entries DEF Sane, States
<1>3. \A goals : InChain(s, goals) <=> InChain(q, goals)  BY <1>1 DEF InChain
<1>4. (Later(s) <=> Later(q)) /\ (Closing(s) <=> Closing(q)) /\ q.pc # "stdlib"
  BY <1>1, <1>3 DEF Later, Closing
<1>5. \A a : Leads(q.fs, tree, a, at) => Leads(q.fs, more, a, s.chain.at)
  BY <1>1, LeadsOn
<1>. HIDE DEF s
<1>6. PythonIn(s, more)
  <2>1. Later(q) => Resolves(s.fs, more, Python)  BY <1>1, PartsGrow DEF Copied
  <2>. QED  BY <1>1, <1>3, <1>4, <1>5, <2>1 DEF Copied, PythonIn
<1>7. StdlibIn(s, more)
  <2>1. /\ Later(q) => {StdlibDir} \cup Images[s.fs].stdlib \subseteq more
        /\ Closing(q) => \A p \in Images[s.fs].stdlib : IsLink(s.fs, p) => Unbroken(s.fs, more, p)
    BY <1>1, PartsGrow DEF Copied
  <2>. QED  BY <1>4, <2>1 DEF StdlibIn
<1>8. ASSUME Closing(q) PROVE ElvesIn(s, more)
  <2>0. ElvesIn(q, tree)  BY <1>8 DEF Copied
  <2>1. \A p \in more : IsElf(s.fs, p) => p \in s.queued  BY <1>1, <1>2, <2>0 DEF ElvesIn
  <2>2. ASSUME NEW p \in s.processed PROVE Settled(s, more, p)
    <3>1. Settled(q, tree, p)  BY <1>1, <2>0, <2>2 DEF ElvesIn
    <3>. QED  BY <1>1, <1>3, <1>5, <3>1, SettledGrows
  <2>3. \A name \in s.libraries : Found(s.fs, more, name)
    BY <1>1, <2>0, FoundGrows DEF ElvesIn
  <2>. QED  BY <1>1, <1>3, <1>5, <2>0, <2>1, <2>2, <2>3 DEF ElvesIn
<1>. QED  BY <1>4, <1>6, <1>7, <1>8 DEF Copied, s

LEMMA WalkFileCopied ==
  ASSUME NEW q, Sane(q), q.pc = "chain", IsFile(q.fs, q.chain.at), NEW tree, Copied(q, tree)
  PROVE  Copied(Walk(q), tree \cup {q.chain.at})
<1>. DEFINE at == q.chain.at
            more == tree \cup {at}
            s == Walk(q)
<1>1. /\ s.fs = q.fs /\ s.processed = q.processed /\ s.need = q.need
      /\ q.chain.goal \in Goals
      /\ q.chain.goal = "python" => s.pc \in {"stdlib", "unmark"}
      /\ q.chain.goal = "link" => s.pc = "links"
      /\ q.chain.goal = "interpreter" =>
           s.pc = "needs" /\ s.queued = q.queued \cup {at} /\ s.libraries = q.libraries
      /\ q.chain.goal = "library" =>
           /\ s.pc = "needs" /\ s.queued = q.queued \cup {at}
           /\ s.libraries = q.libraries \cup {q.chain.name}
  BY WalkFileSays
<1>2. \A a : Leads(q.fs, tree, a, at) => Resolves(q.fs, more, a)
  BY LeadsOn
<1>. HIDE DEF s
<1>3. /\ Later(q) => Resolves(s.fs, more, Python)
      /\ Later(q) => {StdlibDir} \cup Images[s.fs].stdlib \subseteq more
      /\ Closing(q) => \A p \in Images[s.fs].stdlib : IsLink(s.fs, p) => Unbroken(s.fs, more, p)
  BY <1>1, PartsGrow DEF Copied
<1>4. /\ Closing(s) => Closing(q)
      /\ Later(s) => Later(q)
      /\ s.pc = "stdlib" => InChain(q, {"python"})
      /\ s.pc # "chain" /\ s.pc \notin {"tidy", "freeze"}
      /\ Closing(s) => s.pc = "needs" /\ q.chain.goal \in {"interpreter", "library"}
  BY <1>1 DEF Closing, Later, InChain, Goals
<1>5. PythonIn(s, more)
  <2>1. InChain(q, {"python"}) => Resolves(s.fs, more, Python)
    BY <1>1, <1>2 DEF Copied, PythonIn
  <2>. QED  BY <1>3, <1>4, <2>1 DEF PythonIn, InChain
<1>6. StdlibIn(s, more)  BY <1>3, <1>4 DEF StdlibIn
<1>7. ASSUME Closing(s) PROVE ElvesIn(s, more)
  <2>0. ElvesIn(q, tree) /\ s.pc = "needs" /\ s.queued = q.queued \cup {at}
    BY <1>1, <1>4, <1>7 DEF Copied
  <2>1. \A p \in more : IsElf(s.fs, p) => p \in s.queued  BY <1>1, <2>0 DEF ElvesIn
  <2>2. ASSUME NEW p \in s.processed PROVE Settled(s, more, p)
    <3>1. Settled(q, tree, p)  BY <1>1, <2>0, <2>2 DEF ElvesIn
    <3>2. q.libraries \subseteq s.libraries  BY <1>1, <1>4, <1>7
    <3>. QED  BY <1>1, <1>2, <2>0, <3>1, <3>2, SettledGrows
  <2>3. \A name \in q.libraries : Found(s.fs, more, name)
    BY <1>1, <2>0, FoundGrows DEF ElvesIn
  <2>4. q.chain.goal = "library" => Found(s.fs, more, q.chain.name)
    <3>1. q.chain.goal = "library" =>
            /\ Leads(q.fs, tree, Candidates[q.chain.name][q.chain.nth], at)
            /\ q.chain.nth \in 1 .. Len(Candidates[q.chain.name])
      BY <2>0 DEF ElvesIn, InChain, Sane
    <3>. QED  BY <1>1, <1>2, <3>1 DEF Found
  <2>5. \A name \in s.libraries : Found(s.fs, more, name)
    BY <1>1, <1>4, <1>7, <2>3, <2>4
  <2>. QED  BY <1>4, <2>0, <2>1, <2>2, <2>5 DEF ElvesIn, InChain
<1>. QED  BY <1>5, <1>6, <1>7 DEF Copied, s

LEMMA NextCandidateCopied ==
  ASSUME NEW q, Sane(q), q.pc = "chain", Another(q), NEW tree, Copied(q, tree)
  PROVE  Copied(NotCopied(q), tree)
<1>. DEFINE s == NotCopied(q)
<1>1. /\ s.pc = "chain" /\ s.chain.goal = "library" /\ s.fs = q.fs
      /\ s.chain.at = Candidates[s.chain.name][s.chain.nth]
      /\ s.processed = q.processed /\ s.need = q.need
      /\ s.queued = q.queued /\ s.libraries = q.libraries
  BY NotCopiedSane
<1>. HIDE DEF s
<1>2. q.chain.goal = "library"  BY DEF Another
<1>3. Closing(q) /\ Later(q)  BY <1>2 DEF Closing, Later, InChain
<1>4. PythonIn(s, tree) /\ StdlibIn(s, tree)
  BY <1>1, <1>3 DEF Copied, PythonIn, StdlibIn, InChain
<1>5. ElvesIn(s, tree)
  <2>0. ElvesIn(q, tree)  BY <1>3 DEF Copied
  <2>1. ASSUME NEW p \in s.processed PROVE Settled(s, tree, p)
    <3>1. Settled(q, tree, p)  BY <1>1, <2>0, <2>1 DEF ElvesIn
    <3>. QED  BY <1>1, <1>2, <3>1 DEF Settled, InChain
  <2>2. Leads(s.fs, tree, Candidates[s.chain.name][s.chain.nth], s.chain.at)
    BY <1>1, LeadsStart
  <2>. QED  BY <1>1, <2>0, <2>1, <2>2 DEF ElvesIn
<1>. QED  BY <1>4, <1>5 DEF Copied, s

LEMMA IdleCopied ==
  ASSUME NEW q, NEW tree, q.pc \notin {"chain", "stdlib", "links", "queue", "needs", "tidy", "freeze"}
  PROVE  Copied(q, tree)
BY DEF Copied, PythonIn, StdlibIn, Closing, Later, InChain

(* The mount points are directories: what is added holds no ELF file. *)
LEMMA GrownElves ==
  ASSUME NEW q, NEW s, NEW tree, NEW more, tree \subseteq more, Keeps(q, s), ElvesIn(q, tree),
         q.pc = "tidy", s.pc = "freeze",
         \A p \in more \ tree : ~IsElf(q.fs, p), Mountpoints \subseteq more
  PROVE  ElvesIn(s, more)
<1>1. \A p \in more : IsElf(s.fs, p) => p \in s.queued  BY DEF ElvesIn, Keeps
<1>2. ASSUME NEW p \in s.processed PROVE Settled(s, more, p)
  <2>1. Settled(q, tree, p)  BY <1>2 DEF ElvesIn, Keeps
  <2>. QED  BY <2>1, SettledGrows DEF Keeps, InChain
<1>3. \A name \in s.libraries : Found(s.fs, more, name)
  BY FoundGrows DEF ElvesIn, Keeps
<1>. QED  BY <1>1, <1>2, <1>3 DEF ElvesIn, Keeps, InChain

CopyWell(r) == root.by = r => Copied(run[r], root.tree)
Reported(r) ==
  "underfoot" \notin blame =>
    /\ run[r].pc = "digest" => root.by = r /\ Whole(run[r].fs, root.tree)
    /\ run[r].pc \in {"temp", "link", "linked", "written", "return", "done", "check"}
         => Whole(run[r].fs, run[r].recorded)
ManifestWhole == "underfoot" \notin blame /\ marker # NoMarker => Whole(marker.fs, marker.digest)
CopyInv == TypeOK /\ ManifestWhole /\ \A r \in Run : CopyWell(r) /\ Reported(r)

LEMMA CopyInit == Init => CopyInv
<1>. SUFFICES ASSUME Init PROVE CopyInv
  OBVIOUS
<1>1. PICK start \in Starts : run = [r \in Run |-> Process(start[r])]  BY DEF Init
<1>2. \A r \in Run : run[r].pc = "main"  BY <1>1 DEF Process
<1>3. \A r \in Run : CopyWell(r)  BY <1>2, IdleCopied DEF CopyWell
<1>. QED  BY <1>2, <1>3, TypeInit DEF CopyInv, Reported, ManifestWhole, Init

LEMMA OthersCopy ==
  ASSUME CopyInv, NEW r \in Run, Moves(r), NEW g \in Run \ {r}
  PROVE  CopyWell(g)' /\ Reported(g)'
<1>0. None \notin Run  BY ProbeRootAssumption
<1>1. Only(r) /\ OwnOnly(r) /\ blame \subseteq blame'  BY StepType DEF CopyInv
<1>2. run'[g] = run[g] /\ CopyWell(g) /\ Reported(g)  BY <1>1 DEF Only, CopyInv
<1>3. (root.by = g \/ root'.by = g) => root' = root  BY <1>0, <1>1 DEF OwnOnly
<1>. QED  BY <1>1, <1>2, <1>3 DEF CopyWell, Reported

LEMMA OwnCopy ==
  ASSUME CopyInv, NEW r \in Run, Moves(r)
  PROVE  CopyWell(r)' /\ Reported(r)' /\ ManifestWhole'
<1>. DEFINE q == run[r]
            s == run'[r]
            Reporting == {"digest", "temp", "link", "linked", "written", "return", "done", "check"}
<1>0. TypeOK /\ ManifestWhole /\ CopyWell(r) /\ Reported(r) /\ q \in States /\ Sane(q)
  BY DEF CopyInv, TypeOK, RunOK
<1>a. blame \subseteq blame'  BY <1>0, StepType
<1>1. ASSUME s.pc \notin {"chain", "stdlib", "links", "queue", "needs", "tidy", "freeze"}
      PROVE  CopyWell(r)'
  BY <1>1, IdleCopied DEF CopyWell
(* A step of the copy reports nothing, and the manifest stays. *)
<1>2. ASSUME s.pc \notin Reporting, marker' \in {marker, NoMarker}
      PROVE  Reported(r)' /\ ManifestWhole'
  BY <1>0, <1>a, <1>2 DEF Reported, ManifestWhole
<1>3. Undone(q) \in {"unmark", "failed"}  BY DEF Undone
<1>4. CASE \/ Main(r) \/ Inventory(r) \/ LookDestination(r) \/ LookMarker(r)
           \/ ReadMarker(r) \/ CheckTree(r)
  <2>0. /\ Stays(q, s) /\ UNCHANGED <<Disk, blame>>
        /\ \/ s.pc \in {"inventory", "look", "lookMarker", "bind", "mkdir", "planned", "failed"}
           \/ /\ s.pc = "check" /\ q.pc = "bind"
              /\ marker # NoMarker /\ marker.fs = q.fs /\ s.recorded = marker.digest
           \/ s.pc = "done" /\ q.pc = "check" /\ s.recorded = q.recorded
    BY <1>0, <1>4, Reading
  <2>1. CopyWell(r)'  BY <1>1, <2>0
  <2>2. Reported(r)' /\ ManifestWhole'
    BY <1>0, <2>0 DEF Reported, ManifestWhole, Stays, Disk
  <2>. QED  BY <2>1, <2>2
<1>5. CASE MakeRoot(r)
  <2>1. s.pc \in {"created", "unmark", "failed"} /\ marker' = marker
    BY <1>0, <1>3, <1>5, MakeRootSays
  <2>. QED  BY <1>1, <1>2, <2>1
<1>6. CASE Own(r)
  <2>1. /\ s.pc = "chain" /\ s.fs = q.fs /\ s.chain.goal = "python" /\ s.chain.at = Python
        /\ UNCHANGED <<root, marker>>
    BY <1>0, <1>6, OwnSays DEF Disk
  <2>2. Leads(s.fs, root.tree, Python, s.chain.at)  BY <2>1, LeadsStart
  <2>3. Copied(s, root.tree)
    BY <2>1, <2>2 DEF Copied, PythonIn, StdlibIn, Closing, Later, InChain
  <2>. QED  BY <1>2, <2>1, <2>3 DEF CopyWell
<1>7. CASE copy_symlink_chain(r)
  <2>. DEFINE p == q.chain.at
  <2>1. /\ q.pc = "chain" /\ marker' = marker
        /\ \/ s.pc \in {Undone(q), "unmark"}
           \/ Grows(r, {p}) /\ s = Walk(q) /\ (IsLink(q.fs, p) \/ IsFile(q.fs, p))
           \/ root' = root /\ s = NotCopied(q) /\ Another(q)
    BY <1>0, <1>7, ChainSays
  <2>2. CASE s.pc \in {Undone(q), "unmark"}  BY <1>1, <1>2, <1>3, <2>1, <2>2
  <2>3. CASE Grows(r, {p}) /\ s = Walk(q) /\ (IsLink(q.fs, p) \/ IsFile(q.fs, p))
    <3>1. Copied(q, root.tree) /\ root'.tree = root.tree \cup {p}
      BY <1>0, <2>3 DEF CopyWell, Grows
    <3>2. Copied(s, root'.tree)  BY <1>0, <2>1, <2>3, <3>1, WalkLinkCopied, WalkFileCopied
    <3>3. s.pc \notin Reporting  BY <1>0, <2>1, <2>3, WalkPlace
    <3>. QED  BY <1>2, <2>1, <3>2, <3>3 DEF CopyWell
  <2>4. CASE root' = root /\ s = NotCopied(q) /\ Another(q)
    <3>1. s.pc = "chain"  BY <1>0, <2>1, <2>4, NotCopiedSane
    <3>2. root.by = r => Copied(s, root.tree)
      BY <1>0, <2>1, <2>4, NextCandidateCopied DEF CopyWell
    <3>. QED  BY <1>2, <2>1, <2>4, <3>1, <3>2 DEF CopyWell
  <2>. QED  BY <2>1, <2>2, <2>3, <2>4
<1>8. CASE copy_directory(r)
  <2>. DEFINE more == {StdlibDir} \cup Images[q.fs].stdlib
  <2>1. /\ Keeps(q, s) /\ q.pc = "stdlib" /\ marker' = marker
        /\ s.pc = Undone(q) \/ (Grows(r, more) /\ s.pc = "links")
    BY <1>0, <1>8, DirectorySays
  <2>2. CASE s.pc = Undone(q)  BY <1>1, <1>2, <1>3, <2>1, <2>2
  <2>3. CASE Grows(r, more) /\ s.pc = "links"
    <3>1. /\ PythonIn(q, root.tree) /\ StdlibIn(q, root.tree)
          /\ root'.tree = root.tree \cup more
      BY <1>0, <2>3 DEF CopyWell, Copied, Grows
    <3>2. Resolves(s.fs, root'.tree, Python)
      BY <2>1, <3>1, PartsGrow DEF Keeps
    <3>3. {StdlibDir} \cup Images[s.fs].stdlib \subseteq root'.tree
      BY <2>1, <3>1 DEF Keeps
    <3>4. Copied(s, root'.tree)
      BY <2>3, <3>2, <3>3 DEF Copied, PythonIn, StdlibIn, Closing, InChain
    <3>. QED  BY <1>2, <2>1, <2>3, <3>4 DEF CopyWell
  <2>. QED  BY <2>1, <2>2, <2>3
<1>9. CASE ensure_tree_symlinks(r)
  <2>1. /\ Stays(q, s) /\ q.pc = "links" /\ UNCHANGED <<root, marker>>
        /\ s.processed = q.processed /\ s.libraries = q.libraries
        /\ \/ s.pc = Undone(q)
           \/ s.pc = "chain" /\ s.chain.goal = "link" /\ Mine(r)
           \/ /\ s.pc = "queue" /\ Mine(r) /\ Missing(q.fs, root.tree) = {}
              /\ \A p \in root.tree : IsElf(q.fs, p) <=> p \in s.queued
    BY <1>0, <1>9, LinksSays DEF Disk
  <2>2. CASE s.pc = Undone(q)  BY <1>1, <1>2, <1>3, <2>1, <2>2
  <2>3. CASE s.pc = "chain" /\ s.chain.goal = "link" /\ Mine(r)
    <3>1. Copied(s, root.tree)
      BY <1>0, <2>1, <2>3
      DEF CopyWell, Copied, PythonIn, StdlibIn, Later, Closing, InChain, Stays, Mine
    <3>. QED  BY <1>2, <2>1, <2>3, <3>1 DEF CopyWell
  <2>4. CASE /\ s.pc = "queue" /\ Mine(r) /\ Missing(q.fs, root.tree) = {}
             /\ \A p \in root.tree : IsElf(q.fs, p) <=> p \in s.queued
    <3>1. s.processed = {} /\ s.libraries = {} /\ s.fs = q.fs
      BY <1>0, <2>1 DEF Sane, Early, EarlyPcs, Stays
    <3>2. Later(q) /\ PythonIn(q, root.tree) /\ StdlibIn(q, root.tree)
      BY <1>0, <2>1, <2>4 DEF CopyWell, Copied, Later, Mine
    <3>3. PythonIn(s, root.tree)  BY <2>4, <3>1, <3>2 DEF PythonIn, InChain
    <3>4. StdlibIn(s, root.tree)
      <4>1. {StdlibDir} \cup Images[s.fs].stdlib \subseteq root.tree
        BY <3>1, <3>2 DEF StdlibIn
      <4>2. \A p \in Images[s.fs].stdlib : IsLink(s.fs, p) => Unbroken(s.fs, root.tree, p)
        BY <2>4, <3>1, <4>1, NothingMissing
      <4>. QED  BY <4>1, <4>2 DEF StdlibIn
    <3>5. ElvesIn(s, root.tree)  BY <2>4, <3>1 DEF ElvesIn, InChain
    <3>. QED  BY <1>2, <2>1, <2>4, <3>3, <3>4, <3>5 DEF CopyWell, Copied
  <2>. QED  BY <2>1, <2>2, <2>3, <2>4
<1>10. CASE Dequeue(r)
  <2>1. /\ Stays(q, s) /\ q.pc = "queue" /\ UNCHANGED <<root, marker>>
        /\ \/ s.pc = Undone(q)
           \/ Keeps(q, s) /\ s.pc = "tidy" /\ q.queued = q.processed
           \/ \E p \in q.queued :
                /\ IsElf(q.fs, p) /\ Entry(q.fs, p).native
                /\ s.processed = q.processed \cup {p} /\ s.need = Entry(q.fs, p).needed
                /\ s.queued = q.queued /\ s.libraries = q.libraries
                /\ \/ s.pc = "needs" /\ Entry(q.fs, p).interpreter = None
                   \/ /\ s.pc = "chain" /\ s.chain.goal = "interpreter"
                      /\ s.chain.at = Entry(q.fs, p).interpreter
    BY <1>0, <1>10, DequeueSays DEF Disk
  <2>2. Closing(q) /\ Later(q) /\ ~InChain(q, {"interpreter"}) /\ s.fs = q.fs
    BY <2>1 DEF Closing, Later, InChain, Stays
  <2>3. ASSUME root.by = r, Closing(s)
        PROVE  /\ ElvesIn(q, root.tree)
               /\ InChain(s, {"python"}) \/ (PythonIn(s, root.tree) /\ StdlibIn(s, root.tree))
    BY <1>0, <2>2, <2>3 DEF CopyWell, Copied, PythonIn, StdlibIn
  <2>4. CASE s.pc = Undone(q)  BY <1>1, <1>2, <1>3, <2>1, <2>4
  <2>5. CASE Keeps(q, s) /\ s.pc = "tidy" /\ q.queued = q.processed
    <3>1. ASSUME root.by = r PROVE Copied(s, root.tree)
      <4>1. Closing(s) /\ ~InChain(s, {"python"})  BY <2>5 DEF Closing, InChain
      <4>2. ElvesIn(s, root.tree)
        BY <2>1, <2>2, <2>3, <2>5, <3>1, <4>1 DEF ElvesIn, Settled, Keeps, InChain
      <4>. QED  BY <2>3, <3>1, <4>1, <4>2 DEF Copied
    <3>. QED  BY <1>2, <2>1, <2>5, <3>1 DEF CopyWell
  <2>6. ASSUME NEW p \in q.queued,
               IsElf(q.fs, p), Entry(q.fs, p).native,
               s.processed = q.processed \cup {p}, s.need = Entry(q.fs, p).needed,
               s.queued = q.queued, s.libraries = q.libraries,
               \/ s.pc = "needs" /\ Entry(q.fs, p).interpreter = None
               \/ /\ s.pc = "chain" /\ s.chain.goal = "interpreter"
                  /\ s.chain.at = Entry(q.fs, p).interpreter
        PROVE  CopyWell(r)' /\ Reported(r)' /\ ManifestWhole'
    <3>1. ASSUME root.by = r PROVE Copied(s, root.tree)
      <4>1. Closing(s) /\ ~InChain(s, {"python"}) /\ ~InChain(s, {"library"})
        BY <2>6 DEF Closing, InChain
      <4>2. ElvesIn(q, root.tree)  BY <2>3, <3>1, <4>1
      <4>3. \A f \in q.processed : Settled(s, root.tree, f)
        BY <2>1, <2>2, <2>6, <4>2 DEF ElvesIn, Settled
      <4>4. Settled(s, root.tree, p)
        <5>1. s.pc = "chain" => Leads(q.fs, root.tree, Entry(q.fs, p).interpreter, s.chain.at)
          BY <2>6, LeadsStart
        <5>. QED  BY <2>2, <2>6, <5>1 DEF Settled, InChain
      <4>5. ElvesIn(s, root.tree)
        BY <2>2, <2>6, <4>1, <4>2, <4>3, <4>4 DEF ElvesIn
      <4>. QED  BY <2>3, <3>1, <4>1, <4>5 DEF Copied
    <3>. QED  BY <1>2, <2>1, <2>6, <3>1 DEF CopyWell
  <2>. QED  BY <2>1, <2>4, <2>5, <2>6
<1>11. CASE Dependency(r)
  <2>1. /\ Stays(q, s) /\ q.pc = "needs" /\ UNCHANGED <<root, marker>>
        /\ s.processed = q.processed /\ s.libraries = q.libraries
        /\ s.queued = q.queued /\ s.need = q.need
        /\ \/ s.pc = "queue" /\ q.need \subseteq q.libraries
           \/ /\ s.pc = "chain" /\ s.chain.goal = "library"
              /\ s.chain.at = Candidates[s.chain.name][s.chain.nth]
    BY <1>0, <1>11, DependencySays DEF Disk
  <2>2. /\ Closing(q) /\ Later(q) /\ ~InChain(q, {"interpreter"}) /\ s.fs = q.fs
        /\ Closing(s) /\ ~InChain(s, {"python"})
    BY <2>1 DEF Closing, Later, InChain, Stays
  <2>3. ASSUME root.by = r PROVE Copied(s, root.tree)
    <3>1. ElvesIn(q, root.tree) /\ PythonIn(s, root.tree) /\ StdlibIn(s, root.tree)
      BY <1>0, <2>2, <2>3 DEF CopyWell, Copied, PythonIn, StdlibIn
    <3>2. \A p \in q.processed : Settled(s, root.tree, p)
      BY <2>1, <2>2, <3>1 DEF ElvesIn, Settled
    <3>3. InChain(s, {"library"}) =>
            Leads(s.fs, root.tree, Candidates[s.chain.name][s.chain.nth], s.chain.at)
      BY <2>1, LeadsStart DEF InChain
    <3>4. ElvesIn(s, root.tree)  BY <2>1, <2>2, <3>1, <3>2, <3>3 DEF ElvesIn
    <3>. QED  BY <3>1, <3>4 DEF Copied
  <2>. QED  BY <1>2, <2>1, <2>3 DEF CopyWell
<1>12. CASE Tidy(r)
  <2>1. /\ Keeps(q, s) /\ q.pc = "tidy" /\ marker' = marker
        /\ s.pc = Undone(q) \/ (Grows(r, Mountpoints) /\ s.pc = "freeze")
    BY <1>0, <1>12, TidySays
  <2>2. CASE s.pc = Undone(q)  BY <1>1, <1>2, <1>3, <2>1, <2>2
  <2>3. CASE Grows(r, Mountpoints) /\ s.pc = "freeze"
    <3>1. /\ Copied(q, root.tree) /\ root'.tree = root.tree \cup Mountpoints
          /\ s.fs = q.fs /\ q.fs \in DOMAIN Images
      BY <1>0, <2>1, <2>3 DEF CopyWell, Grows, Keeps, States
    <3>2. Closing(q) /\ Later(q)  BY <2>1 DEF Closing, Later
    <3>3. ElvesIn(s, root'.tree)
      BY <2>1, <2>3, <3>1, <3>2, Entries, GrownElves DEF Copied
    <3>4. PythonIn(s, root'.tree) /\ StdlibIn(s, root'.tree)
      <4>1. /\ Resolves(s.fs, root'.tree, Python)
            /\ {StdlibDir} \cup Images[s.fs].stdlib \subseteq root'.tree
            /\ \A p \in Images[s.fs].stdlib : IsLink(s.fs, p) => Unbroken(s.fs, root'.tree, p)
        BY <3>1, <3>2, PartsGrow DEF Copied
      <4>. QED  BY <2>3, <4>1 DEF PythonIn, StdlibIn, InChain
    <3>. QED  BY <1>2, <2>1, <2>3, <3>3, <3>4 DEF CopyWell, Copied
  <2>. QED  BY <2>1, <2>2, <2>3
<1>13. CASE freeze_tree(r)
  <2>1. /\ Keeps(q, s) /\ q.pc = "freeze" /\ UNCHANGED <<marker, blame>>
        /\ \/ s.pc = Undone(q)
           \/ s.pc = "digest" /\ Mine(r) /\ root'.by = r /\ root'.tree = root.tree
    BY <1>0, <1>13, FreezeSays
  <2>2. CASE s.pc = Undone(q)  BY <1>1, <1>2, <1>3, <2>1, <2>2
  <2>3. CASE s.pc = "digest" /\ Mine(r) /\ root'.by = r /\ root'.tree = root.tree
    <3>1. Whole(s.fs, root'.tree)
      BY <1>0, <2>1, <2>3, WholeAtFreeze DEF CopyWell, Mine, Keeps
    <3>. QED  BY <1>0, <1>1, <2>1, <2>3, <3>1 DEF Reported, ManifestWhole
  <2>. QED  BY <2>1, <2>2, <2>3
<1>14. CASE tree_digest(r)
  <2>1. /\ Stays(q, s) /\ q.pc = "digest" /\ UNCHANGED <<root, marker, blame>>
        /\ s.pc = Undone(q) \/ (s.pc = "temp" /\ s.recorded = root.tree)
    BY <1>0, <1>14, DigestSays DEF Disk
  <2>2. CASE s.pc = Undone(q)  BY <1>1, <1>2, <1>3, <2>1, <2>2
  <2>3. CASE s.pc = "temp" /\ s.recorded = root.tree
    BY <1>0, <1>1, <2>1, <2>3 DEF Reported, ManifestWhole, Stays
  <2>. QED  BY <2>1, <2>2, <2>3
<1>15. CASE WriteTemp(r) \/ Link(r) \/ RemoveTemp(r)
  <2>1. /\ Keeps(q, s) /\ UNCHANGED <<root, blame>>
        /\ \/ s.pc = Undone(q) /\ marker' \in {marker, NoMarker}
           \/ q.pc = "temp" /\ s.pc = "link" /\ marker' = marker
           \/ /\ q.pc = "link" /\ s.pc = "linked"
              /\ marker' = [by |-> r, fs |-> q.fs, digest |-> q.recorded]
           \/ q.pc = "linked" /\ s.pc = "written" /\ marker' = marker
    BY <1>0, <1>15, ManifestSays
  <2>2. CASE s.pc = Undone(q) /\ marker' \in {marker, NoMarker}
    BY <1>1, <1>2, <1>3, <2>2
  <2>3. CASE q.pc \in {"temp", "linked"} /\ s.pc \in {"link", "written"} /\ marker' = marker
    BY <1>0, <1>1, <2>1, <2>3 DEF Reported, ManifestWhole, Keeps
  <2>4. CASE /\ q.pc = "link" /\ s.pc = "linked"
             /\ marker' = [by |-> r, fs |-> q.fs, digest |-> q.recorded]
    <3>1. marker'.fs = q.fs /\ marker'.digest = q.recorded  BY <2>4
    <3>. QED  BY <1>0, <1>1, <2>1, <2>4, <3>1 DEF Reported, ManifestWhole, Keeps
  <2>. QED  BY <2>1, <2>2, <2>3, <2>4
<1>16. CASE Mark(r)
  <2>1. /\ q.pc = "written" /\ s.pc = "return" /\ s.fs = q.fs /\ s.recorded = q.recorded
        /\ UNCHANGED <<root, marker, blame>>
    BY <1>0, <1>16, MarkSays DEF Disk
  <2>. QED  BY <1>0, <1>1, <2>1 DEF Reported, ManifestWhole
<1>17. CASE Return(r)
  <2>1. /\ q.pc = "return" /\ s.pc = "done" /\ s.fs = q.fs /\ s.recorded = q.recorded
        /\ UNCHANGED <<root, marker, blame>>
    BY <1>0, <1>17, ReturnSays DEF Disk, Keeps
  <2>. QED  BY <1>0, <1>1, <2>1 DEF Reported, ManifestWhole
<1>18. CASE Unmark(r) \/ Thaw(r) \/ RemoveRoot(r)
  <2>1. s.pc \in {"thaw", "remove", "failed"} /\ marker' \in {marker, NoMarker}
    BY <1>0, <1>18, UndoSays
  <2>. QED  BY <1>1, <1>2, <2>1
<1>19. CASE Interrupt(r) \/ Kill(r)
  <2>1. s.pc \in {"unmark", "failed", "killed"} /\ marker' = marker
    BY <1>0, <1>3, <1>19, StopSays
  <2>. QED  BY <1>1, <1>2, <2>1
<1>. QED
  BY <1>4, <1>5, <1>6, <1>7, <1>8, <1>9, <1>10, <1>11, <1>12, <1>13, <1>14, <1>15, <1>16,
     <1>17, <1>18, <1>19 DEF Moves, Advance

LEMMA CopyStep ==
  ASSUME CopyInv, [Next]_vars
  PROVE  CopyInv'
<1>1. TypeOK'  BY TypeStep DEF CopyInv
<1>2. ASSUME NEW r \in Run, Moves(r) PROVE CopyInv'
  BY <1>1, <1>2, OwnCopy, OthersCopy DEF CopyInv
<1>3. CASE Operate
  <2>1. /\ run' = run /\ blame \subseteq blame' /\ root'.by \notin Run
        /\ marker' \in {NoMarker, marker}
    BY <1>3, OperateType, ProbeRootAssumption DEF CopyInv
  <2>2. \A r \in Run : run[r].pc = "digest" => "underfoot" \in blame'
    BY <1>3 DEF Operate, Publishing
  <2>. QED  BY <1>1, <2>1, <2>2 DEF CopyInv, CopyWell, Reported, ManifestWhole
<1>4. CASE UNCHANGED vars
  BY <1>1, <1>4 DEF vars, CopyInv, CopyWell, Reported, ManifestWhole
<1>. QED  BY <1>2, <1>3, <1>4 DEF Next, Moves

(* The digest a run prints is that of a tree Python runs in, whoever copied it:   *)
(* unless an operator acted while a run published.                              *)
THEOREM ReportsHold == Spec => []ReportedWhole
<1>1. Init => CopyInv  BY CopyInit
<1>2. CopyInv /\ [Next]_vars => CopyInv'  BY CopyStep
<1>3. CopyInv => ReportedWhole  BY DEF CopyInv, Reported, ReportedWhole, At
<1>. QED  BY <1>1, <1>2, <1>3, PTL DEF Spec
=============================================================================
