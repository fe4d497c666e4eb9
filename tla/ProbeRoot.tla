------------------------------ MODULE ProbeRoot ------------------------------
(* infra/remote-execution/scripts/prepare_worker_probe_root.py: a run copies    *)
(* Python's runtime closure out of an imported SDME rootfs into a fresh          *)
(* directory, freezes it, and publishes its digest in a manifest beside it.     *)
(* Several runs may be given one destination; a run may be interrupted (an       *)
(* exception, its rollback runs) or killed (nothing more runs), a command may    *)
(* fail, and an operator may remove or replace what is at the destination.      *)
(*                                                                              *)
(* A path of the rootfs and of the copy is one name; the digest of a tree is    *)
(* the tree.  The directories above the destination stay what they are.         *)
EXTENDS Naturals, Sequences, FiniteSets

CONSTANTS Run,           \* processes of the script
          Starts,        \* what the runs may be started with
          Path,          \* paths of a rootfs
          Library,       \* DT_NEEDED names
          Images,        \* Images[fs]: what the SDME rootfs fs holds
          Imported,      \* the rootfs names SDME lists
          Python,        \* /usr/bin/python3
          PythonBinary,  \* the paths whose name is pythonX.Y
          StdlibDir,     \* /usr/lib/pythonX.Y
          Mountpoints,   \* /proc, /dev, /tmp
          Candidates,    \* Candidates[name]: _library_candidates, in order
          MaxFaults,     \* bound: commands that fail, kills, interrupts
          MaxOperator    \* bound: acts of the operator

None == "none"
Operator == "operator"
NoRoot == [by |-> None, fs |-> None, tree |-> {}, frozen |-> FALSE]
NoMarker == [by |-> None, fs |-> None, digest |-> {}]
(* What can be wrong with an invocation or its host before anything is read. *)
Flaws == {"destination", "machine", "tar", "uid", "ancestors", "sdme"}
PlanFlaws == {"destination", "machine", "tar"}

ASSUME ProbeRootAssumption ==
  /\ Starts \subseteq [Run -> [op : {"plan", "apply"}, fs : DOMAIN Images, flaws : SUBSET Flaws]]
  /\ None \notin Run /\ Operator \notin Run
  /\ Python \in Path /\ StdlibDir \in Path /\ Mountpoints \subseteq Path
  /\ \A name \in Library : Candidates[name] \in Seq(Path) \ {<<>>}
  /\ \A fs \in DOMAIN Images :
       /\ Images[fs].stdlib \subseteq Path
       /\ \A p \in DOMAIN Images[fs].at :
            LET entry == Images[fs].at[p]
            IN  /\ entry.kind = "link" => entry.to \in Path
                /\ entry.kind = "elf" => /\ entry.needed \subseteq Library
                                        /\ entry.interpreter \in Path \cup {None}
                                        /\ entry.native \in BOOLEAN
       /\ \A p \in Mountpoints \cap DOMAIN Images[fs].at : Images[fs].at[p].kind = "directory"
  /\ {MaxFaults, MaxOperator} \subseteq Nat

VARIABLES root,      \* what is at the destination
          marker,    \* the manifest beside it
          temps,     \* runs whose temporary manifest is on disk
          run,       \* run[r]: one process
          faults, operations,
          blame      \* history: what happened that no rollback can mend

vars == <<root, marker, temps, run, faults, operations, blame>>

-----------------------------------------------------------------------------
(* The rootfs.  Images[fs].at[p] is the entry at p; Images[fs].stdlib is what    *)
(* lies under StdlibDir.  parse_elf reads an "elf" entry and refuses all others. *)
Entry(fs, p) == IF p \in DOMAIN Images[fs].at THEN Images[fs].at[p] ELSE [kind |-> None]
IsLink(fs, p) == Entry(fs, p).kind = "link"
IsElf(fs, p) == Entry(fs, p).kind = "elf"
IsFile(fs, p) == Entry(fs, p).kind \in {"elf", "data"}

NoChain == [goal |-> None, at |-> Python, seen |-> {}, name |-> None, nth |-> 0]
Chain(goal, p) == [NoChain EXCEPT !.goal = goal, !.at = p]

Process(start) ==
  [op |-> start.op, fs |-> start.fs, flaws |-> start.flaws, pc |-> "main",
   saw       |-> FALSE,     \* destination_exists
   recorded  |-> {},        \* the digest of the manifest, then of the tree
   created   |-> FALSE,
   marked    |-> FALSE,     \* marker_created
   chain     |-> NoChain,   \* the copy_symlink_chain under way
   queued    |-> {}, processed |-> {},
   need      |-> {},        \* dependencies of the file being processed
   libraries |-> {}]

Init ==
  /\ root = NoRoot
  /\ marker = NoMarker
  /\ temps = {}
  /\ \E start \in Starts : run = [r \in Run |-> Process(start[r])]
  /\ faults = 0
  /\ operations = 0
  /\ blame = {}

At(r, pc) == run[r].pc = pc
Over == {"done", "planned", "failed", "killed"}
Goto(r, pc) == run' = [run EXCEPT ![r].pc = pc]
(* An exception: what the run created is rolled back, if it knows it did. *)
Fail(r) == run' = [run EXCEPT ![r].pc = IF run[r].created THEN "unmark" ELSE "failed"]
(* Every operation under the destination verifies the directory's identity. *)
Mine(r) == root.by = r
Disk == <<root, marker, temps>>
World == <<faults, operations, blame>>
Faulty == faults < MaxFaults /\ faults' = faults + 1 /\ UNCHANGED <<operations, blame>>

(* The code takes its work in sorted order or first in, first out: some order.  *)
First(S) == CHOOSE x \in S : TRUE

-----------------------------------------------------------------------------
(* main, the inventory, and _read_existing: two looks, then the two files. *)
Main(r) ==
  /\ At(r, "main")
  /\ \/ /\ run[r].flaws \cap (IF run[r].op = "plan" THEN PlanFlaws ELSE Flaws) # {}
        /\ Goto(r, "failed")
     \/ /\ run[r].flaws \cap (IF run[r].op = "plan" THEN PlanFlaws ELSE Flaws) = {}
        /\ Goto(r, IF run[r].op = "plan" THEN "look" ELSE "inventory")
  /\ UNCHANGED <<Disk, World>>

Inventory(r) ==
  /\ At(r, "inventory")
  /\ Goto(r, IF run[r].fs \in Imported THEN "look" ELSE "failed")
  /\ UNCHANGED <<Disk, World>>

LookDestination(r) ==
  /\ At(r, "look")
  /\ run' = [run EXCEPT ![r].saw = root # NoRoot, ![r].pc = "lookMarker"]
  /\ UNCHANGED <<Disk, World>>

LookMarker(r) ==
  /\ At(r, "lookMarker")
  /\ Goto(r, CASE run[r].saw /\ marker # NoMarker   -> "bind"
               [] ~run[r].saw /\ marker = NoMarker  -> IF run[r].op = "plan" THEN "planned" ELSE "mkdir"
               [] OTHER                         -> "failed")
  /\ UNCHANGED <<Disk, World>>

ReadMarker(r) ==
  /\ At(r, "bind")
  /\ \/ /\ root # NoRoot /\ marker # NoMarker /\ marker.fs = run[r].fs
        /\ run' = [run EXCEPT ![r].recorded = marker.digest, ![r].pc = "check"]
     \/ /\ root = NoRoot \/ marker = NoMarker \/ (marker # NoMarker /\ marker.fs # run[r].fs)
        /\ Goto(r, "failed")
  /\ UNCHANGED <<Disk, World>>

CheckTree(r) ==
  /\ At(r, "check")
  /\ Goto(r, IF root # NoRoot /\ root.frozen /\ root.tree = run[r].recorded
             THEN "done" ELSE "failed")
  /\ UNCHANGED <<Disk, World>>

-----------------------------------------------------------------------------
(* create_root, then `created = True` and the fetch directory. *)
MakeRoot(r) ==
  /\ At(r, "mkdir")
  /\ \/ /\ root = NoRoot
        /\ root' = [by |-> r, fs |-> run[r].fs, tree |-> {}, frozen |-> FALSE]
        /\ Goto(r, "created")
     \/ root # NoRoot /\ Fail(r) /\ UNCHANGED root
  /\ UNCHANGED <<marker, temps, World>>

Own(r) ==
  /\ At(r, "created")
  /\ run' = [run EXCEPT ![r].created = TRUE, ![r].pc = "chain",
                        ![r].chain = Chain("python", Python)]
  /\ UNCHANGED <<Disk, World>>

(* A library is known by its name, and its own dependencies are followed. *)
Arrived_shallow(p, q) ==
  CASE q.chain.goal = "python"      -> [q EXCEPT !.pc = "stdlib"]
    [] q.chain.goal = "link"        -> [q EXCEPT !.pc = "links"]
    [] q.chain.goal = "interpreter" -> [q EXCEPT !.pc = "needs", !.queued = q.queued \cup {p}]
    [] q.chain.goal = "library"     -> [q EXCEPT !.pc = "needs",
                                                 !.libraries = q.libraries \cup {q.chain.name}]

(* The end of copy_symlink_chain: its caller takes the file it arrived at. *)
Arrived(p, q) ==
  CASE q.chain.goal = "python" ->
         [q EXCEPT !.pc = IF /\ IsElf(q.fs, p) /\ Entry(q.fs, p).native
                             /\ p \in PythonBinary
                          THEN "stdlib" ELSE "unmark"]
    [] q.chain.goal = "link"   -> [q EXCEPT !.pc = "links"]
    [] q.chain.goal = "interpreter" ->
         [q EXCEPT !.pc = "needs", !.queued = q.queued \cup {p}]
    [] q.chain.goal = "library" ->
         [q EXCEPT !.pc = "needs", !.queued = q.queued \cup {p},
                   !.libraries = q.libraries \cup {q.chain.name}]

(* copy_symlink_chain without its `seen`. *)
Walk_unseen(q) ==
  LET p == q.chain.at
  IN  CASE IsLink(q.fs, p) -> [q EXCEPT !.chain.at = Entry(q.fs, p).to]
        [] IsFile(q.fs, p) -> [Arrived(p, q) EXCEPT !.chain = NoChain]
        [] OTHER           -> [q EXCEPT !.pc = "unmark", !.chain = NoChain]

Walk(q) ==
  LET p == q.chain.at
  IN  CASE IsLink(q.fs, p) -> [q EXCEPT !.chain.at = Entry(q.fs, p).to,
                                        !.chain.seen = q.chain.seen \cup {p}]
        [] IsFile(q.fs, p) -> [Arrived(p, q) EXCEPT !.chain = NoChain]
        [] OTHER           -> [q EXCEPT !.pc = "unmark", !.chain = NoChain]

(* SDME cannot copy the path: the next candidate of a library, or the end.  The  *)
(* links already copied for this candidate stay.                                *)
NotCopied(q) ==
  IF q.chain.goal = "library" /\ q.chain.nth < Len(Candidates[q.chain.name])
  THEN [q EXCEPT !.chain.nth = q.chain.nth + 1, !.chain.seen = {},
                 !.chain.at = Candidates[q.chain.name][q.chain.nth + 1]]
  ELSE [q EXCEPT !.pc = "unmark", !.chain = NoChain]

(* One round of copy_symlink_chain, _fetch included. *)
copy_symlink_chain(r) ==
  /\ At(r, "chain")
  /\ LET q == run[r]
         p == q.chain.at
     IN  \/ /\ ~Mine(r) \/ p \in q.chain.seen
            /\ Fail(r) /\ UNCHANGED <<root, World>>
         \/ /\ Mine(r) /\ p \notin q.chain.seen /\ p \in root.tree
            /\ run' = [run EXCEPT ![r] = Walk(q)]
            /\ UNCHANGED <<root, World>>
         \/ /\ Mine(r) /\ p \notin q.chain.seen \cup root.tree
            /\ Entry(q.fs, p).kind # None
            /\ root' = [root EXCEPT !.tree = root.tree \cup {p}]
            /\ run' = [run EXCEPT ![r] = Walk(q)]
            /\ UNCHANGED World
         \/ /\ Mine(r) /\ p \notin q.chain.seen \cup root.tree
            /\ \/ Entry(q.fs, p).kind = None /\ UNCHANGED World
               \/ Faulty
            /\ run' = [run EXCEPT ![r] = NotCopied(q)]
            /\ UNCHANGED root
  /\ UNCHANGED <<marker, temps>>

copy_directory(r) ==
  /\ At(r, "stdlib")
  /\ \/ /\ Mine(r) /\ Entry(run[r].fs, StdlibDir).kind = "directory"
        /\ root' = [root EXCEPT !.tree = root.tree \cup {StdlibDir} \cup Images[run[r].fs].stdlib]
        /\ Goto(r, "links")
     \/ /\ ~Mine(r) \/ Entry(run[r].fs, StdlibDir).kind # "directory"
        /\ Fail(r) /\ UNCHANGED root
  /\ UNCHANGED <<marker, temps, World>>

(* The targets of the links in the tree that are not in it, until there is none. *)
Missing(fs, tree) == {Entry(fs, p).to : p \in {q \in tree : IsLink(fs, q)}} \ tree

ensure_tree_symlinks(r) ==
  /\ At(r, "links")
  /\ \/ ~Mine(r) /\ Fail(r)
     \/ /\ Mine(r) /\ Missing(run[r].fs, root.tree) # {}
        /\ run' = [run EXCEPT ![r].pc = "chain",
                     ![r].chain = Chain("link", First(Missing(run[r].fs, root.tree)))]
     \/ /\ Mine(r) /\ Missing(run[r].fs, root.tree) = {}
        /\ run' = [run EXCEPT ![r].pc = "queue",
                              ![r].queued = {p \in root.tree : IsElf(run[r].fs, p)}]
  /\ UNCHANGED <<Disk, World>>

(* The work list of copy_runtime_closure: a file's interpreter first, then each *)
(* library not copied yet.                                                      *)
Dequeue(r) ==
  /\ At(r, "queue")
  /\ LET q == run[r]
         p == First(q.queued \ q.processed)
         elf == Entry(q.fs, p)
     IN  \/ q.queued = q.processed /\ Goto(r, "tidy")
         \/ /\ q.queued # q.processed
            /\ elf.kind # "elf" \/ ~elf.native
            /\ Fail(r)
         \/ /\ q.queued # q.processed
            /\ elf.kind = "elf" /\ elf.native
            /\ run' = [run EXCEPT ![r].processed = q.processed \cup {p}, ![r].need = elf.needed,
                         ![r].pc = IF elf.interpreter = None THEN "needs" ELSE "chain",
                         ![r].chain = IF elf.interpreter = None THEN NoChain
                                      ELSE Chain("interpreter", elf.interpreter)]
  /\ UNCHANGED <<Disk, World>>

Dependency(r) ==
  /\ At(r, "needs")
  /\ LET left == run[r].need \ run[r].libraries
         name == First(left)
     IN  \/ left = {} /\ Goto(r, "queue")
         \/ /\ left # {}
            /\ run' = [run EXCEPT ![r].pc = "chain",
                         ![r].chain = [Chain("library", Candidates[name][1])
                                         EXCEPT !.name = name, !.nth = 1]]
  /\ UNCHANGED <<Disk, World>>

-----------------------------------------------------------------------------
(* The fetch directory is removed, the mount points made, the tree frozen and   *)
(* its digest taken.                                                            *)
Tidy(r) ==
  /\ At(r, "tidy")
  /\ \/ /\ Mine(r)
        /\ root' = [root EXCEPT !.tree = root.tree \cup Mountpoints]
        /\ Goto(r, "freeze")
     \/ ~Mine(r) /\ Fail(r) /\ UNCHANGED root
  /\ UNCHANGED <<marker, temps, World>>

freeze_tree(r) ==
  /\ At(r, "freeze")
  /\ LET special == Mine(r) /\ \E p \in root.tree : Entry(run[r].fs, p).kind = "special"
     IN  \/ /\ Mine(r) /\ ~special
            /\ root' = [root EXCEPT !.frozen = TRUE]
            /\ Goto(r, "digest")
         \/ /\ ~Mine(r) \/ special
            /\ Fail(r) /\ UNCHANGED root
  /\ UNCHANGED <<marker, temps, World>>

tree_digest(r) ==
  /\ At(r, "digest")
  /\ \/ /\ root # NoRoot
        /\ run' = [run EXCEPT ![r].recorded = root.tree, ![r].pc = "temp"]
        /\ UNCHANGED World
     \/ /\ root = NoRoot \/ faults < MaxFaults
        /\ Fail(r)
        /\ IF root = NoRoot THEN UNCHANGED World ELSE Faulty
  /\ UNCHANGED Disk

(* _write_manifest: the temporary file, its second name, its removal.  A failed *)
(* removal takes the manifest back; the temporary file goes on every way out.   *)
WriteTemp(r) ==
  /\ At(r, "temp")
  /\ \/ temps' = temps \cup {r} /\ Goto(r, "link") /\ UNCHANGED World
     \/ Faulty /\ Fail(r) /\ UNCHANGED temps
  /\ UNCHANGED <<root, marker>>

Link(r) ==
  /\ At(r, "link")
  /\ \/ /\ marker = NoMarker
        /\ marker' = [by |-> r, fs |-> run[r].fs, digest |-> run[r].recorded]
        /\ Goto(r, "linked")
        /\ UNCHANGED temps
     \/ /\ marker # NoMarker
        /\ temps' = temps \ {r}
        /\ Fail(r)
        /\ UNCHANGED marker
  /\ UNCHANGED <<root, World>>

RemoveTemp_keeps(r) ==           \* a failed removal leaves the manifest
  /\ At(r, "linked")
  /\ \/ temps' = temps \ {r} /\ Goto(r, "written") /\ UNCHANGED World
     \/ Faulty /\ Fail(r) /\ UNCHANGED temps
  /\ UNCHANGED <<root, marker>>

RemoveTemp(r) ==
  /\ At(r, "linked")
  /\ \/ temps' = temps \ {r} /\ Goto(r, "written") /\ UNCHANGED <<marker, World>>
     \/ /\ Faulty /\ marker' = NoMarker /\ Fail(r)
        /\ temps' \in {temps, temps \ {r}}
  /\ UNCHANGED root

(* `marker_created = True`, then the return. *)
Mark(r) ==
  /\ At(r, "written")
  /\ run' = [run EXCEPT ![r].marked = TRUE, ![r].pc = "return"]
  /\ UNCHANGED <<Disk, World>>

Return(r) == At(r, "return") /\ Goto(r, "done") /\ UNCHANGED <<Disk, World>>

-----------------------------------------------------------------------------
(* _remove_created_output: the manifest, then the tree made writable, then the  *)
(* tree.  An error in one does not stop the other.                              *)
Unmark(r) ==
  /\ At(r, "unmark")
  /\ marker' = IF run[r].marked THEN NoMarker ELSE marker
  /\ Goto(r, IF root = NoRoot THEN "failed" ELSE "thaw")
  /\ UNCHANGED <<root, temps, World>>

Thaw(r) ==
  /\ At(r, "thaw")
  /\ \/ /\ Mine(r)
        /\ root' = [root EXCEPT !.frozen = FALSE]
        /\ Goto(r, "remove")
     \/ ~Mine(r) /\ Goto(r, "failed") /\ UNCHANGED root
  /\ UNCHANGED <<marker, temps, World>>

RemoveRoot(r) ==
  /\ At(r, "remove")
  /\ \/ Mine(r) /\ root' = NoRoot /\ UNCHANGED World
     \/ ~Mine(r) /\ UNCHANGED <<root, World>>
     \/ /\ Mine(r) /\ faults < MaxFaults            \* the removal itself fails
        /\ faults' = faults + 1 /\ blame' = blame \cup {"cleanup"}
        /\ UNCHANGED <<root, operations>>
  /\ Goto(r, "failed")
  /\ UNCHANGED <<marker, temps>>

-----------------------------------------------------------------------------
(* The two windows of apply's except clause: the directory exists and `created`  *)
(* is not set, the manifest exists and `marker_created` is not.                 *)
Unaware(r) == At(r, "created") \/ (run[r].pc \in {"linked", "written"} /\ marker # NoMarker)

(* An exception from outside (KeyboardInterrupt) at any step of the body. *)
Body == {"mkdir", "created", "chain", "stdlib", "links", "queue", "needs", "tidy",
         "freeze", "digest", "temp", "link", "linked", "written", "return"}
Interrupt(r) ==
  /\ run[r].pc \in Body /\ faults < MaxFaults
  /\ faults' = faults + 1
  /\ temps' = temps \ {r}
  /\ Fail(r)
  /\ blame' = IF Unaware(r) THEN blame \cup {"window"} ELSE blame
  /\ UNCHANGED <<root, marker, operations>>

Kill(r) ==
  /\ run[r].pc \notin Over /\ faults < MaxFaults
  /\ faults' = faults + 1
  /\ Goto(r, "killed")
  /\ blame' = IF Mine(r) THEN blame \cup {"kill"} ELSE blame
  /\ UNCHANGED <<Disk, operations>>

(* The operator removes what is there, or puts a directory of his own there;    *)
(* doing so while a run publishes is noted apart.                               *)
Publishing == {"digest", "temp", "link", "linked", "written", "return", "unmark"}
Operate ==
  /\ operations < MaxOperator
  /\ operations' = operations + 1
  /\ root' \in {NoRoot, [by |-> Operator, fs |-> None, tree |-> {}, frozen |-> FALSE]}
  /\ marker' \in {NoMarker, marker}
  /\ blame' = blame \cup {"operator"}
                \cup {b \in {"underfoot"} : \E r \in Run : run[r].pc \in Publishing}
  /\ UNCHANGED <<temps, run, faults>>

Advance(r) ==
  \/ Main(r) \/ Inventory(r) \/ LookDestination(r) \/ LookMarker(r)
  \/ ReadMarker(r) \/ CheckTree(r)
  \/ MakeRoot(r) \/ Own(r) \/ copy_symlink_chain(r) \/ copy_directory(r)
  \/ ensure_tree_symlinks(r) \/ Dequeue(r) \/ Dependency(r)
  \/ Tidy(r) \/ freeze_tree(r) \/ tree_digest(r)
  \/ WriteTemp(r) \/ Link(r) \/ RemoveTemp(r) \/ Mark(r) \/ Return(r)
  \/ Unmark(r) \/ Thaw(r) \/ RemoveRoot(r)

Next == \/ \E r \in Run : Advance(r) \/ Interrupt(r) \/ Kill(r)
        \/ Operate

(* The script runs on by itself. *)
Spec == Init /\ [][Next]_vars /\ \A r \in Run : WF_vars(Advance(r))

-----------------------------------------------------------------------------
(* Link by link inside the tree, a path leads to a file: it is in every set that *)
(* has the links whose target it has, or is a file.  And none it leads to dangles. *)
Links(fs, tree) == {p \in tree : IsLink(fs, p)}
Files(fs, tree) == {p \in tree : IsFile(fs, p)}
Resolves(fs, tree, p) ==
  \A S \in SUBSET Links(fs, tree) :
     (\A q \in Links(fs, tree) : Entry(fs, q).to \in Files(fs, tree) \cup S => q \in S)
       => p \in Files(fs, tree) \cup S
Unbroken(fs, tree, p) ==
  \E S \in SUBSET Links(fs, tree) :
     p \in S /\ \A q \in S : Entry(fs, q).to \in S \cup (tree \ Links(fs, tree))

(* A tree Python starts in: the interpreter, its library with no link that       *)
(* dangles, and for every ELF file the program interpreter and one candidate of  *)
(* each library it names.                                                       *)
Whole(fs, tree) ==
  /\ Resolves(fs, tree, Python)
  /\ {StdlibDir} \cup Images[fs].stdlib \cup Mountpoints \subseteq tree
  /\ \A p \in Images[fs].stdlib : IsLink(fs, p) => Unbroken(fs, tree, p)
  /\ \A p \in {q \in tree : IsElf(fs, q)} :
       LET elf == Entry(fs, p)
       IN  /\ elf.native
           /\ elf.interpreter # None => Resolves(fs, tree, elf.interpreter)
           /\ \A name \in elf.needed : \E i \in 1 .. Len(Candidates[name]) :
                Resolves(fs, tree, Candidates[name][i])

(* The digest a run prints, whether it copied the tree or found it there, is    *)
(* that of a tree Python runs in: every link copied, every library and program  *)
(* interpreter of every ELF file, however far from Python, and no file SDME     *)
(* could not give.  Only a directory put there between the freeze and the       *)
(* manifest is digested unseen.                                                 *)
ReportedWhole ==
  \A r \in Run : At(r, "done") /\ "underfoot" \notin blame
                 => Whole(run[r].fs, run[r].recorded)

(* While a manifest is there, the tree it was written for is there, frozen and  *)
(* unchanged: a rollback takes the manifest back before it touches the tree.    *)
(* Not so after an operator's act, nor when an exception fell into one of the   *)
(* two windows in which apply does not know what it created.  And once no run   *)
(* is between its first write and its end, the next apply is not refused for    *)
(* half a result: tree and manifest are both there or both gone, after every    *)
(* failed command and every exception, except where a run that held the tree    *)
(* was killed, was interrupted in a window, could not remove it, or an operator *)
(* acted.                                                                       *)
Writing(r) == run[r].pc \in (Body \ {"mkdir"}) \cup {"unmark", "thaw", "remove"}
MarkerMeansWhole ==
  /\ marker # NoMarker /\ blame \cap {"operator", "window"} = {}
       => /\ root # NoRoot /\ root.by = marker.by
          /\ root.frozen /\ root.tree = marker.digest
  /\ blame = {} /\ (\A r \in Run : ~Writing(r)) => (root = NoRoot) = (marker = NoMarker)

(* Every run ends: a loop of links, a library no candidate gives and files that *)
(* need each other end the copy too.                                            *)
Ends == \A r \in Run : <>(run[r].pc \in Over)
=============================================================================
