----------------------------- MODULE LockStore ------------------------------
(***************************************************************************)
(* One release's lockfile on disk: two possible encodings, the Starlark    *)
(* generated from it, and the commands that read and write them one after  *)
(* another: `lockfiles edit|replace|convert|generate|check` (lockfile.py,  *)
(* _lockfile.py) and a refresh by relock.py.  A command can be killed      *)
(* between any two file operations.  Only the lockfile commands write      *)
(* through a temporary file; a refresh and the generator write in place.   *)
(***************************************************************************)
EXTENDS Integers

CONSTANTS Values,       \* what a lockfile can say
          Absent,       \* no file
          Torn,         \* a file cut short by a command that was killed
          MaxCommands   \* bound: commands in a behaviour

ASSUME ValuesAssumption == Absent \notin Values /\ Torn \notin Values /\ Absent # Torn
ASSUME BoundAssumption  == MaxCommands \in Nat

Encodings == {"plain", "gzip"}
Tools == {"edit", "replace", "convert", "generate", "check", "relock"}

VARIABLES file,      \* the lockfile in each encoding
          temp,      \* a temporary file lies in the lock directory
          gen,       \* what the generated Starlark was generated from
          cmd,       \* the command in progress
          outcome,   \* how the last command ended
          commands
storeVars == <<file, temp, gen, cmd, outcome, commands>>

Found == {e \in Encodings : file[e] # Absent}

\* A command works on the file it found (from), writes the value new to the
\* encoding to, and regenerates unless told otherwise.
Command == [step : {"idle", "edit", "write", "rename", "unlink", "dump",
                    "dumped", "generate", "generating", "compare"},
            tool : Tools, from : Encodings, to : Encodings, regen : BOOLEAN,
            old : Values \cup {Absent, Torn}, new : Values \cup {Absent, Torn}]

At(step) == cmd.step = step
GoTo(step) == cmd' = [cmd EXCEPT !.step = step] /\ UNCHANGED outcome
End(how) == cmd' = [cmd EXCEPT !.step = "idle"] /\ outcome' = how
\* A command that has written the lock regenerates, or is done.
Written == IF cmd.regen THEN GoTo("generate") ELSE End("ok")

StoreInit ==
  /\ \E e \in Encodings, v \in Values :
       /\ file = [x \in Encodings |-> IF x = e THEN v ELSE Absent]
       /\ gen = v
  /\ temp = FALSE
  /\ \E v \in Values :
       cmd = [step |-> "idle", tool |-> "check", from |-> "plain",
              to |-> "plain", regen |-> FALSE, old |-> v, new |-> v]
  /\ outcome = "none"
  /\ commands = 0

\* Mutation: one of two encodings is chosen by preference.
discover_any(tool) ==
  IF tool # "relock" /\ temp THEN "stray"
  ELSE IF Found = {} THEN "absent"
  ELSE "found"

\* discover reads every name in the directory, the temporary ones included;
\* find_lockfile asks for two names.  Both refuse a lock in two encodings.
discover(tool) ==
  IF tool # "relock" /\ temp THEN "stray"
  ELSE IF Found = Encodings THEN "duplicate"
  ELSE IF Found = {} THEN "absent"
  ELSE "found"

\* What a command does first: the ones that need the value load it, and an
\* edit that changes nothing is over.
first_step(tool) ==
  CASE tool \in {"replace", "convert"} -> "write"
    [] tool = "edit" -> "edit" [] tool = "generate" -> "generate"
    [] tool = "check" -> "compare" [] tool = "relock" -> "dump"

Begin(tool, to, regen) ==
  /\ At("idle") /\ commands < MaxCommands
  /\ commands' = commands + 1
  /\ IF discover(tool) # "found"
     THEN End(discover(tool))
     ELSE \E from \in Found, new \in Values :
       LET old == file[from]
           loads == tool \in {"edit", "convert", "check", "relock"}
       IN IF loads /\ old = Torn THEN End("unreadable")
          ELSE /\ cmd' = [step |-> first_step(tool), tool |-> tool, from |-> from,
                          to |-> IF tool = "convert" THEN to ELSE from,
                          regen |-> regen \/ tool = "generate", old |-> old,
                          new |-> IF tool \in {"convert", "check", "generate"}
                                  THEN old ELSE new]
               /\ outcome' = "none"
  /\ UNCHANGED <<file, temp, gen>>

Edit ==
  /\ At("edit")
  /\ IF cmd.new = cmd.old THEN End("unchanged") ELSE GoTo("write")
  /\ UNCHANGED <<file, temp, gen, commands>>

\* Mutation: the old encoding is removed before the new one is in place.
WriteTemp_unlink ==
  /\ At("write")
  /\ temp' = TRUE
  /\ file' = IF cmd.from # cmd.to THEN [file EXCEPT ![cmd.from] = Absent] ELSE file
  /\ GoTo("rename")
  /\ UNCHANGED <<gen, commands>>

\* atomic_dump_lockfile, up to os.replace.  (convert_lockfile refuses a
\* destination that exists; discover has just refused it.)
WriteTemp ==
  /\ At("write")
  /\ temp' = TRUE
  /\ GoTo("rename")
  /\ UNCHANGED <<file, gen, commands>>

Rename ==
  /\ At("rename")
  /\ file' = [file EXCEPT ![cmd.to] = cmd.new]
  /\ temp' = FALSE
  /\ IF cmd.from # cmd.to THEN GoTo("unlink") ELSE Written
  /\ UNCHANGED <<gen, commands>>

Unlink ==
  /\ At("unlink")
  /\ file' = [file EXCEPT ![cmd.from] = Absent]
  /\ Written
  /\ UNCHANGED <<temp, gen, commands>>

\* solve.main: dump_lockfile truncates the lock it refreshes.
Truncate ==
  /\ At("dump")
  /\ file' = [file EXCEPT ![cmd.to] = Torn]
  /\ GoTo("dumped")
  /\ UNCHANGED <<temp, gen, commands>>

Dumped ==
  /\ At("dumped")
  /\ file' = [file EXCEPT ![cmd.to] = cmd.new]
  /\ Written
  /\ UNCHANGED <<temp, gen, commands>>

\* The generator reads the lock back and writes in place.
Generate ==
  /\ At("generate")
  /\ IF file[cmd.to] = Torn
     THEN End("unreadable") /\ UNCHANGED gen
     ELSE gen' = Torn /\ GoTo("generating")
  /\ UNCHANGED <<file, temp, commands>>

\* Mutation: generates from the lock the command started with.
Generated_old ==
  /\ At("generating")
  /\ gen' = cmd.old
  /\ End("ok")
  /\ UNCHANGED <<file, temp, commands>>

Generated ==
  /\ At("generating")
  /\ gen' = file[cmd.to]
  /\ End("ok")
  /\ UNCHANGED <<file, temp, commands>>

\* lockfile.validate: regenerates aside and compares.
Compare ==
  /\ At("compare")
  /\ End(IF gen = file[cmd.from] THEN "ok" ELSE "stale")
  /\ UNCHANGED <<file, temp, gen, commands>>

\* Interrupted, the temporary file is removed on the way out; killed, not.
Stop(cleanly) ==
  /\ ~At("idle")
  /\ temp' = (temp /\ ~(cleanly /\ At("rename")))
  /\ End("stopped")
  /\ UNCHANGED <<file, gen, commands>>

Step == Edit \/ WriteTemp \/ Rename \/ Unlink \/ Truncate \/ Dumped
        \/ Generate \/ Generated \/ Compare
StoreNext == \/ \E tool \in Tools, to \in Encodings, regen \in BOOLEAN : Begin(tool, to, regen)
        \/ Step
        \/ \E cleanly \in BOOLEAN : Stop(cleanly)

StoreSpec == StoreInit /\ [][StoreNext]_storeVars

-----------------------------------------------------------------------------
Contents == Values \cup {Absent, Torn}

\* Only a conversion between encodings has a file to remove, and it removes
\* it when the other holds the same; only a refresh tears a lock.
TypeOK ==
  /\ file \in [Encodings -> Contents]
  /\ gen \in Values \cup {Torn}
  /\ temp \in BOOLEAN
  /\ cmd \in Command
  /\ cmd.step = "unlink" => cmd.from # cmd.to /\ file[cmd.to] = file[cmd.from]
  /\ cmd.step = "dumped" <=> cmd.step # "idle" /\ file[cmd.to] = Torn
                              /\ cmd.tool = "relock"
  /\ commands \in 0..MaxCommands

\* A lock that a kill left in both encodings says the same in both, however
\* many commands are tried on it.  (_lockfile.find_lockfile, lockfile.discover:
\* "Keeping both encodings for one identity would let two callers refresh
\* different files.")
EncodingsAgree == Found = Encodings => file["plain"] = file["gzip"]

\* Whenever a lockfile command runs and wherever it is killed, a lock that
\* could be read before can be read after.  (atomic_dump_lockfile,
\* convert_lockfile: write, reload, then unlink.)
Readable == \E e \in Encodings : file[e] \in Values
KeepsALock == [][cmd'.tool # "relock" /\ Readable => Readable']_storeVars

\* A command that reports success, regenerating or checking, leaves one
\* encoding and Starlark generated from it, whatever happened before.
SuccessIsConsistent ==
  outcome = "ok" /\ (cmd.regen \/ cmd.tool = "check") =>
     \E e \in Encodings : Found = {e} /\ file[e] \in Values /\ gen = file[e]

\* What the three rest on: where a command is says what it found and has
\* done to it, and only a stopped command leaves anything else behind.
Only(e) == \A x \in Encodings : file[x] # Absent <=> x = e

LockInv ==
  /\ At("idle") => EncodingsAgree
  /\ ~At("idle") => outcome # "ok" /\ (cmd.from # cmd.to => cmd.tool = "convert")
  /\ cmd.step \in {"edit", "write", "rename", "dump", "compare"} =>
       Only(cmd.from) /\ file[cmd.from] = cmd.old
  /\ cmd.step \in {"edit", "write", "rename", "dump", "dumped"} =>
       cmd.new \in Values /\ (cmd.tool = "convert" => cmd.new = cmd.old)
  /\ cmd.step \in {"edit", "write", "rename", "unlink"} =>
       cmd.tool \in {"edit", "replace", "convert"}
  /\ cmd.step = "compare" => cmd.tool = "check" /\ cmd.old \in Values
  /\ cmd.step = "dump" => cmd.tool = "relock" /\ cmd.old \in Values
  /\ cmd.step = "unlink" => \A x \in Encodings : file[x] = file[cmd.to] /\ file[x] \in Values
  /\ cmd.step = "dumped" => Only(cmd.to) /\ cmd.tool = "relock"
  /\ cmd.step \in {"generate", "generating"} =>
       /\ Only(cmd.to) /\ cmd.tool # "check"
       /\ cmd.tool # "generate" => file[cmd.to] \in Values
  /\ cmd.step = "generating" => file[cmd.to] \in Values
=============================================================================
