-------------------------- MODULE SmokeTestProofs ---------------------------
(* Theorems about SmokeTest, for any number of harnesses, checkouts,       *)
(* signals and operator's files, and any plan.                             *)
EXTENDS SmokeTest, WellFoundedInduction, TLAPS

Inv == TypeOK /\ OwnInv

(***************************************************************************)
(* The file that is created next is a free inode.                          *)
(***************************************************************************)
LEMMA LeastFree == ASSUME Free # {} PROVE Least(Free) \in Free
<1>1. Free \subseteq Nat  BY SmokeAssumption DEF Free
<1>2. PICK m \in Free : \A k \in Free : <<k, m>> \notin OpToRel(<, Nat)
  BY <1>1, WFMin, NatLessThanWellFounded, Zenon
<1>3. \A k \in Free : ~(k < m)
  BY <1>1, <1>2, Zenon DEF OpToRel
<1>4. \A k \in Free : m <= k
  BY <1>1, <1>3
<1>. QED  BY <1>4, Zenon DEF Least

\* A free inode has no name and is nobody's temporary file.
LEMMA FreeFacts ==
  ASSUME NEW i \in Free
  PROVE  /\ i \in Inodes /\ i # NoFile
         /\ \A c \in Clients : config[c] # i
         /\ \A h \in Harnesses, s \in Sides : run[h].temp[s] # i
<1>. QED  BY SmokeAssumption DEF Free, InUse

\* A file with a name, published or temporary, is in use.
LEMMA InUseFacts ==
  /\ \A c \in Clients : config[c] # NoFile => config[c] \in InUse
  /\ \A h \in Harnesses, s \in Sides : run[h].temp[s] # NoFile => run[h].temp[s] \in InUse
<1>. QED  BY DEF InUse

\* The two sides of a run are different checkouts.
LEMMA SideFacts == ASSUME NEW h \in Harnesses, TypeOK
  PROVE  /\ run[h] \in Run /\ run[h].side \in Sides
         /\ client(h) = Plan[h][run[h].side] /\ client(h) \in Clients
         /\ \A s \in Sides : Plan[h][s] \in Clients
         /\ Plan[h]["a"] # Plan[h]["b"]
         /\ "a" \in Sides /\ "b" \in Sides
<1>. QED  BY SmokeAssumption DEF TypeOK, Run, client, Sides

\* A stage is a finite list of commands, each on a side or on none.
LEMMA CommandCount == \A stage \in StageNames : Len(Commands(stage)) \in Nat
<1>. SUFFICES ASSUME NEW stage \in StageNames PROVE Len(Commands(stage)) \in Nat
  OBVIOUS
<1>1. CASE stage = "readiness"  BY <1>1 DEF Commands
<1>2. CASE stage = "cache"  BY <1>2 DEF Commands
<1>3. CASE stage = "execution"  BY <1>3 DEF Commands
<1>4. CASE stage = "host-provenance"  BY <1>4 DEF Commands
<1>. QED  BY <1>1, <1>2, <1>3, <1>4 DEF StageNames

\* Every command of a stage runs in a checkout of the run, or in none.
LEMMA CommandSides ==
  ASSUME NEW stage \in StageNames, NEW n \in 1..Len(Commands(stage))
  PROVE  Commands(stage)[n] \in Sides \cup {None}
<1>1. CASE stage = "readiness"  BY <1>1 DEF Commands, Sides
<1>2. CASE stage = "cache"  BY <1>2 DEF Commands, Sides
<1>3. CASE stage = "execution"  BY <1>3 DEF Commands, Sides
<1>4. CASE stage = "host-provenance"  BY <1>4 DEF Commands, Sides
<1>. QED  BY <1>1, <1>2, <1>3, <1>4 DEF StageNames

(***************************************************************************)
(* A process that is over owns nothing and has forgotten what it knew.     *)
(***************************************************************************)
LEMMA OverOwns ==
  ASSUME NEW r \in Run, Marks(r)
  PROVE  /\ Over(r) \in Run /\ Over(r).pc = "ended" /\ Marks(Over(r))
         /\ Over(r).temp = r.temp /\ Over(r).published = {}
         /\ \A s \in Sides : Over(r).identity[s] = NoFile
<1>1. Nowhere \in [Sides -> Inodes \cup {NoFile}] /\ \A s \in Sides : Nowhere[s] = NoFile
  BY DEF Nowhere
<1>2. /\ Over(r).pc = "ended" /\ Over(r).temp = r.temp
      /\ Over(r).published = {} /\ Over(r).identity = Nowhere
      /\ Over(r).stage = r.stage /\ Over(r).child = r.child
  BY DEF Over, Run
<1>3. Over(r).at = (IF r.child = "none" THEN 1 ELSE r.at)
  BY DEF Over, Run
<1>4. (IF r.child = "none" THEN 1 ELSE r.at) \in Nat \ {0}
  BY DEF Run
<1>5. Over(r) \in Run
  BY <1>1, <1>4 DEF Over, Run, Sides
<1>. QED  BY <1>1, <1>2, <1>3, <1>5 DEF Marks

(***************************************************************************)
(* A change of the disk that keeps every inode in use with its writer, and *)
(* every published file that h did not write, disturbs no other harness.   *)
(***************************************************************************)
LEMMA OthersOwn ==
  ASSUME Inv, NEW h, NEW g \in Harnesses, g # h, run'[g] = run[g],
         \A i \in InUse : by[i] # h => by'[i] = by[i],
         \A c \in Clients : config[c] # NoFile /\ by[config[c]] # h =>
                            config'[c] = config[c]
  PROVE  Owns(g, run'[g], config', by') /\ Marks(run'[g])
<1>. DEFINE r == run[g]
<1>1. Owns(g, r, config, by) /\ Marks(r)  BY DEF Inv, OwnInv
<1>2. r.side \in Sides /\ \A s \in Sides : Plan[g][s] \in Clients
  BY SideFacts DEF Inv
<1>3. ASSUME NEW s \in Sides, r.temp[s] # NoFile PROVE by'[r.temp[s]] = g
  <2>1. r.temp[s] \in InUse  BY <1>3 DEF InUse
  <2>. QED  BY <1>1, <1>3, <2>1 DEF Owns
<1>4. ASSUME NEW s \in Sides, r.identity[s] # NoFile, ~Cleaned(r, s)
      PROVE  by'[r.identity[s]] = g /\ r.identity[s] \in {r.temp[s], config'[Plan[g][s]]}
  <2>1. by[r.identity[s]] = g
    BY <1>1, <1>4 DEF Owns
  <2>2. CASE r.identity[s] = r.temp[s]
    <3>1. r.identity[s] \in InUse  BY <1>4, <2>2, InUseFacts
    <3>. QED  BY <2>1, <2>2, <3>1
  <2>3. CASE r.identity[s] = config[Plan[g][s]]
    <3>1. r.identity[s] \in InUse  BY <1>2, <1>4, <2>3, InUseFacts
    <3>2. config'[Plan[g][s]] = config[Plan[g][s]]  BY <1>2, <1>4, <2>1, <2>3
    <3>. QED  BY <2>1, <2>3, <3>1, <3>2
  <2>4. r.identity[s] \in {r.temp[s], config[Plan[g][s]]}
    BY <1>1, <1>4 DEF Owns
  <2>. QED  BY <2>2, <2>3, <2>4
<1>5. ASSUME r.pc \in {"flag", "rm"} PROVE config'[Plan[g][r.side]] = config[Plan[g][r.side]]
  <2>1. r.identity[r.side] # NoFile /\ config[Plan[g][r.side]] = r.identity[r.side]
    BY <1>1, <1>5 DEF Owns
  <2>2. ~Cleaned(r, r.side)  BY <1>5 DEF Cleaned
  <2>3. by[r.identity[r.side]] = g
    BY <1>1, <1>2, <2>1, <2>2 DEF Owns
  <2>. QED  BY <1>2, <2>1, <2>3
<1>. QED  BY <1>1, <1>3, <1>4, <1>5 DEF Owns

(***************************************************************************)
(* What remains to be shown for a step of harness h.                       *)
(***************************************************************************)
LEMMA HarnessStep ==
  ASSUME Inv, NEW h \in Harnesses,
         run' \in [Harnesses -> Run],
         \A g \in Harnesses : g # h => run'[g] = run[g],
         Owns(h, run'[h], config', by'), Marks(run'[h]),
         \A i \in InUse : by[i] # h => by'[i] = by[i],
         \A c \in Clients : config[c] # NoFile /\ by[config[c]] # h =>
                            config'[c] = config[c],
         config' \in [Clients -> Inodes \cup {NoFile}],
         by' \in [Inodes -> Harnesses \cup {User, None}],
         daemons' \subseteq Harnesses \X Sides,
         \A s \in Sides : <<h, s>> \in daemons' /\ run'[h].pc # "ended" =>
                          s \in run'[h].touched,
         \A g \in Harnesses, s \in Sides : g # h /\ <<g, s>> \in daemons' =>
                                           <<g, s>> \in daemons,
         buckout' \subseteq Clients,
         signals' \in 0..MaxSignals, userFiles' = userFiles
  PROVE  Inv'
<1>1. \A g \in Harnesses : Owns(g, run'[g], config', by') /\ Marks(run'[g])
  BY OthersOwn
<1>2. OwnInv'  BY <1>1 DEF OwnInv
<1>3. ASSUME NEW g \in Harnesses, NEW s \in Sides
      PROVE  /\ run'[g].temp[s] # NoFile => by'[run'[g].temp[s]] = g
             /\ s \in run'[g].published => run'[g].identity[s] # NoFile
  BY <1>1 DEF Owns
<1>4. ASSUME NEW g \in Harnesses, NEW s \in Sides, <<g, s>> \in daemons', ~Ended(g)'
      PROVE  s \in run'[g].touched
  BY <1>4 DEF Inv, TypeOK, Ended
<1>. QED  BY <1>2, <1>3, <1>4 DEF Inv, TypeOK

\* The case of a step that leaves the disk alone.
LEMMA RunStep ==
  ASSUME Inv, NEW h \in Harnesses, NEW r \in Run, run' = [run EXCEPT ![h] = r],
         Owns(h, r, config, by), Marks(r),
         r.pc = "ended" \/ (~Ended(h) /\ run[h].touched \subseteq r.touched),
         UNCHANGED Disk, signals' \in 0..MaxSignals, userFiles' = userFiles
  PROVE  Inv'
<1>1. /\ run' \in [Harnesses -> Run] /\ run'[h] = r
      /\ \A g \in Harnesses : g # h => run'[g] = run[g]
  BY DEF Inv, TypeOK
<1>2. config' = config /\ by' = by /\ daemons' = daemons /\ buckout' = buckout
  BY DEF Disk
<1>3. \A s \in Sides : <<h, s>> \in daemons /\ r.pc # "ended" => s \in r.touched
  BY DEF Inv, TypeOK
<1>4. /\ config \in [Clients -> Inodes \cup {NoFile}]
      /\ by \in [Inodes -> Harnesses \cup {User, None}]
      /\ daemons \subseteq Harnesses \X Sides /\ buckout \subseteq Clients
  BY DEF Inv, TypeOK
<1>. QED  BY <1>1, <1>2, <1>3, <1>4, HarnessStep

(* Once the installation is over, nothing is assumed of where the run is.  *)
LEMMA Installed ==
  ASSUME NEW h, NEW r \in Run, NEW q \in Run, NEW cfg, NEW b, Owns(h, r, cfg, b),
         q.temp = r.temp, q.identity = r.identity, q.published = r.published,
         r.pc # "unconfigure",
         \/ q.pc \in {"prepare", "launch", "forked", "wait", "exit", "kill"}
         \/ q.pc = "unconfigure" /\ q.side = "a"
  PROVE  Owns(h, q, cfg, b)
<1>. QED  BY DEF Owns, Cleaned

\* Nor does anything that is not about files matter to what a run owns.
LEMMA SamePlace ==
  ASSUME NEW h, NEW r \in Run, NEW q \in Run, NEW cfg, NEW b, Owns(h, r, cfg, b),
         q.temp = r.temp, q.known = r.known, q.identity = r.identity,
         q.published = r.published, q.pc = r.pc, q.side = r.side
  PROVE  Owns(h, q, cfg, b)
<1>. QED  BY DEF Owns, Cleaned

\* The parts of the invariant one harness needs.
LEMMA HarnessFacts == ASSUME Inv, NEW h \in Harnesses
  PROVE  /\ run[h] \in Run /\ Owns(h, run[h], config, by) /\ Marks(run[h])
         /\ signals \in 0..MaxSignals /\ MaxSignals \in Nat
         /\ config \in [Clients -> Inodes \cup {NoFile}]
         /\ by \in [Inodes -> Harnesses \cup {User, None}]
<1>. QED  BY SmokeAssumption DEF Inv, TypeOK, OwnInv

(***************************************************************************)
(* The steps of the stage, which touch no file.                            *)
(***************************************************************************)
LEMMA FailStep ==
  ASSUME Inv, NEW h \in Harnesses, Fail(h) \/ Exit(h),
         run[h].pc \notin {"kill", "unconfigure", "ended"}, UNCHANGED <<Disk, Outside>>
  PROVE  Inv'
<1>1. PICK r \in {[run[h] EXCEPT !.pc = "exit"], [run[h] EXCEPT !.pc = "exit", !.passing = FALSE]} :
        run' = [run EXCEPT ![h] = r]
  BY HarnessFacts DEF Fail, Exit, Inv, TypeOK
<1>2. /\ r \in Run /\ r.pc = "exit" /\ r.temp = run[h].temp
      /\ r.identity = run[h].identity /\ r.published = run[h].published
      /\ r.touched = run[h].touched /\ r.child = run[h].child /\ r.at = run[h].at
      /\ r.stage = run[h].stage
  BY HarnessFacts DEF Run
<1>3. Owns(h, r, config, by)  BY <1>2, HarnessFacts, Installed
<1>4. Marks(r)  BY <1>2, HarnessFacts DEF Marks
<1>. QED  BY <1>1, <1>2, <1>3, <1>4, HarnessFacts, RunStep DEF Outside, Ended

\* run_buck_capture marks the daemon's side before it starts the command.
LEMMA LaunchStep ==
  ASSUME Inv, NEW h \in Harnesses, Launch(h) \/ OutputExists(h) PROVE Inv'
<1>. DEFINE stage == run[h].stage
            s == Commands(stage)[run[h].at]
<1>0. run[h] \in Run  BY HarnessFacts
<1>1. /\ run[h].pc = "launch" /\ stage \in StageNames /\ run[h].at \in Nat \ {0}
      /\ run[h].touched \subseteq Sides
  BY HarnessFacts DEF Launch, OutputExists, At, Run
<1>2. CASE run[h].at > Len(Commands(stage))
  <2>1. Exit(h) /\ UNCHANGED <<Disk, Outside>>
    BY <1>1, <1>2 DEF Launch, OutputExists
  <2>. QED  BY <1>1, <2>1, FailStep
<1>3. CASE run[h].at <= Len(Commands(stage))
  <2>. DEFINE more == run[h].touched \cup ({s} \ {None})
  <2>1. run[h].at \in 1..Len(Commands(stage))
    BY <1>1, <1>3, CommandCount
  <2>2. s \in Sides \cup {None}  BY <1>1, <2>1, CommandSides
  <2>3. more \subseteq Sides /\ run[h].touched \subseteq more /\ s \in more \cup {None}
    BY <1>1, <2>2
  <2>. DEFINE started == [run[h] EXCEPT !.pc = "forked", !.child = "starting", !.touched = more]
              refused == [run[h] EXCEPT !.pc = "exit", !.passing = FALSE, !.touched = more]
  <2>4. PICK r \in {started, refused} : run' = [run EXCEPT ![h] = r]
    <3>1. CASE Launch(h)
      <4>1. ~(run[h].at > Len(Commands(stage)))  BY <1>3, <1>1, CommandCount
      <4>2. run' = [run EXCEPT ![h] = started]
        BY <3>1, <4>1, HarnessFacts DEF Launch, Inv, TypeOK, Run
      <4>. QED  BY <4>2
    <3>2. CASE OutputExists(h)
      <4>1. run' = [run EXCEPT ![h] = refused]
        BY <3>2, HarnessFacts DEF OutputExists, CommandSide, Inv, TypeOK, Run
      <4>. QED  BY <4>1
    <3>. QED  BY <3>1, <3>2
  <2>5. /\ r \in Run /\ r.pc \in {"forked", "exit"} /\ r.temp = run[h].temp
        /\ r.identity = run[h].identity /\ r.published = run[h].published
        /\ r.touched = more /\ r.at = run[h].at /\ r.stage = stage
    <3>1. CASE r = started  BY <2>3, <3>1, <1>0 DEF Run
    <3>2. CASE r = refused  BY <2>3, <3>2, <1>0 DEF Run
    <3>. QED  BY <2>4, <3>1, <3>2
  <2>6. Owns(h, r, config, by)  BY <1>1, <2>5, HarnessFacts, Installed
  <2>7. Marks(r)  BY <2>1, <2>3, <2>5 DEF Marks
  <2>8. UNCHANGED <<Disk, Outside>>  BY DEF Launch, OutputExists
  <2>. QED  BY <1>1, <2>3, <2>4, <2>5, <2>6, <2>7, <2>8, HarnessFacts, RunStep
            DEF Outside, Ended
<1>. QED  BY <1>1, <1>2, <1>3, CommandCount

\* The checks, the stored process id, the result and the start of on_exit.
LEMMA WaitingStep ==
  ASSUME Inv, NEW h \in Harnesses,
         Prepare(h) \/ RecordPid(h) \/ Wait(h) \/ CommandFails(h) \/ EvidenceRejected(h)
         \/ OnExit(h)
  PROVE  Inv'
<1>0. run[h] \in Run  BY HarnessFacts
<1>1. /\ run[h].pc \in {"prepare", "forked", "wait", "exit"} /\ UNCHANGED <<Disk, Outside>>
      /\ run[h].at \in Nat \ {0}
  BY HarnessFacts
     DEF Prepare, RecordPid, Wait, CommandFails, EvidenceRejected, OnExit, At, Run
<1>2. CASE Fail(h)  BY <1>1, <1>2, FailStep
<1>3. CASE ~Fail(h)
  <2>. DEFINE next(r) == run' = [run EXCEPT ![h] = r]
              ready    == [run[h] EXCEPT !.pc = "launch"]
              recorded == [run[h] EXCEPT !.pc = "wait", !.pid = TRUE]
              passed   == [run[h] EXCEPT !.pc = "launch", !.at = run[h].at + 1,
                                         !.child = "none", !.pid = FALSE]
              stopped  == [run[h] EXCEPT !.pc = "exit", !.passing = FALSE,
                                         !.child = "none", !.pid = FALSE]
              ending   == [run[h] EXCEPT !.pc = "kill", !.side = "a"]
  <2>1. PICK r \in {ready, recorded, passed, stopped, ending} : next(r)
    <3>1. run \in [Harnesses -> Run]  BY DEF Inv, TypeOK
    <3>2. CASE Prepare(h)
      <4>1. next(ready)  BY <1>3, <3>1, <3>2 DEF Prepare, Goto, Run
      <4>. QED  BY <4>1
    <3>3. CASE RecordPid(h)
      <4>1. next(recorded)  BY <3>1, <3>3 DEF RecordPid, Run
      <4>. QED  BY <4>1
    <3>4. CASE Wait(h)
      <4>1. next(passed)  BY <3>1, <3>4 DEF Wait, Run
      <4>. QED  BY <4>1
    <3>5. CASE CommandFails(h) \/ EvidenceRejected(h)
      <4>1. next(stopped)  BY <3>1, <3>5 DEF CommandFails, EvidenceRejected, Stopped, Run
      <4>. QED  BY <4>1
    <3>6. CASE OnExit(h)
      <4>1. next(ending)  BY <3>1, <3>6 DEF OnExit, Run
      <4>. QED  BY <4>1
    <3>. HIDE DEF next, ready, recorded, passed, stopped, ending
    <3>. QED  BY <3>2, <3>3, <3>4, <3>5, <3>6
  <2>2. /\ r \in Run /\ r.pc \in {"launch", "wait", "exit", "kill"} /\ r.temp = run[h].temp
        /\ r.identity = run[h].identity /\ r.published = run[h].published
        /\ r.touched = run[h].touched /\ r.stage = run[h].stage
        /\ r.child # "none" => r.child = run[h].child /\ r.at = run[h].at
    <3>1. CASE r = ready  BY <3>1, <1>0 DEF Run
    <3>2. CASE r = recorded  BY <3>2, <1>0 DEF Run
    <3>3. CASE r = passed
      <4>1. run[h].at + 1 \in Nat \ {0}  BY <1>1
      <4>. QED  BY <3>3, <4>1, <1>0 DEF Run
    <3>4. CASE r = stopped  BY <3>4, <1>0 DEF Run
    <3>5. CASE r = ending  BY <3>5, <1>0 DEF Run, Sides
    <3>. HIDE DEF ready, recorded, passed, stopped, ending
    <3>. QED  BY <2>1, <3>1, <3>2, <3>3, <3>4, <3>5
  <2>3. Owns(h, r, config, by)  BY <1>1, <2>2, HarnessFacts, Installed
  <2>4. Marks(r)  BY <1>1, <2>2, HarnessFacts DEF Marks
  <2>. QED  BY <1>1, <2>1, <2>2, <2>3, <2>4, HarnessFacts, RunStep DEF Outside, Ended
<1>. QED  BY <1>2, <1>3

(***************************************************************************)
(* The background command, which may outlive the script that started it.   *)
(***************************************************************************)
LEMMA CommandStep == ASSUME Inv, NEW h \in Harnesses, Command(h) PROVE Inv'
<1>1. PICK c \in {"running", "passed", "failed"} :
        run' = [run EXCEPT ![h] = [run[h] EXCEPT !.child = c]]
  BY HarnessFacts DEF Command, Connect, Finish, Inv, TypeOK
<1>. DEFINE r == [run[h] EXCEPT !.child = c]
<1>2. /\ r \in Run /\ r.temp = run[h].temp /\ r.known = run[h].known
      /\ r.identity = run[h].identity /\ r.published = run[h].published
      /\ r.touched = run[h].touched /\ r.at = run[h].at /\ r.side = run[h].side
      /\ r.stage = run[h].stage /\ r.pc = run[h].pc
  BY HarnessFacts DEF Run
<1>3. Owns(h, r, config, by)  BY <1>2, HarnessFacts, SamePlace
<1>4. run[h].child # "none"  BY DEF Command, Connect, Finish
<1>5. Marks(r)  BY <1>2, <1>4, HarnessFacts DEF Marks
<1>6. /\ config' = config /\ by' = by /\ signals' = signals /\ userFiles' = userFiles
  BY DEF Command, Connect, Finish, Outside, Disk
<1>7. /\ CommandSide(h) \in Sides \cup {None}
      /\ run[h].pc # "ended" => CommandSide(h) \in run[h].touched \cup {None}
  BY <1>4, CommandSides, HarnessFacts DEF Marks, CommandSide, Run
<1>8. /\ daemons' \subseteq Harnesses \X Sides /\ buckout' \subseteq Clients
      /\ \A g \in Harnesses, s \in Sides : <<g, s>> \in daemons' =>
           <<g, s>> \in daemons \/ (g = h /\ s = CommandSide(h) /\ s # None)
  <2>1. Plan[h] \in [Sides -> Clients]  BY SmokeAssumption
  <2>2. daemons \subseteq Harnesses \X Sides /\ buckout \subseteq Clients
    BY DEF Inv, TypeOK
  <2>3. CASE Connect(h) /\ CommandSide(h) # None
    BY <1>7, <2>1, <2>2, <2>3 DEF Connect
  <2>4. CASE daemons' = daemons /\ buckout' = buckout
    BY <2>2, <2>4
  <2>. QED  BY <2>3, <2>4 DEF Command, Connect, Finish, Disk
<1>9. /\ run' \in [Harnesses -> Run] /\ run'[h] = r
      /\ \A g \in Harnesses : g # h => run'[g] = run[g]
  BY <1>1, <1>2 DEF Inv, TypeOK
<1>10. \A s \in Sides : <<h, s>> \in daemons' /\ r.pc # "ended" => s \in r.touched
  BY <1>2, <1>7, <1>8 DEF Inv, TypeOK, Ended
<1>. QED  BY <1>3, <1>5, <1>6, <1>8, <1>9, <1>10, HarnessFacts, HarnessStep

(***************************************************************************)
(* A process that ends, whether refused, signalled or killed.              *)
(***************************************************************************)
LEMMA OverStep ==
  ASSUME Inv, NEW h \in Harnesses, NEW r \in Run, Marks(r), r.temp = run[h].temp,
         run' = [run EXCEPT ![h] = Over(r)],
         UNCHANGED Disk, signals' \in 0..MaxSignals, userFiles' = userFiles
  PROVE  Inv'
<1>. DEFINE q == Over(r)
<1>1. /\ q \in Run /\ q.pc = "ended" /\ Marks(q) /\ q.temp = run[h].temp
      /\ q.published = {} /\ \A s \in Sides : q.identity[s] = NoFile
  BY OverOwns
<1>2. \A s \in Sides : run[h].temp[s] # NoFile => by[run[h].temp[s]] = h
  BY HarnessFacts DEF Owns
<1>3. run' = [run EXCEPT ![h] = q]  OBVIOUS
<1>. HIDE DEF q
<1>4. Owns(h, q, config, by)  BY <1>1, <1>2 DEF Owns
<1>. QED  BY <1>1, <1>3, <1>4, RunStep

\* A signal ends the script through on_exit, or at once; a kill always at once.
LEMMA SignalStep ==
  ASSUME Inv, NEW h \in Harnesses, on_signal(h) \/ Killed(h) PROVE Inv'
<1>. DEFINE r == run[h]
            marked  == r.unlucky \/ r.pc \in {"name", "forked", "exit"}
            child   == IF r.pid THEN "none" ELSE r.child
            stopped == [r EXCEPT !.passing = FALSE, !.pc = "exit", !.unlucky = marked,
                                 !.child = child, !.pid = FALSE]
            killed  == [r EXCEPT !.passing = FALSE, !.unlucky = TRUE]
<1>0. r \in Run /\ Marks(r) /\ Owns(h, r, config, by) /\ run \in [Harnesses -> Run]
  BY HarnessFacts DEF Inv, TypeOK
<1>1. signals' \in 0..MaxSignals /\ userFiles' = userFiles /\ UNCHANGED Disk
  BY HarnessFacts DEF on_signal, Killed
<1>2. /\ stopped \in Run /\ stopped.temp = r.temp /\ stopped.pc = "exit"
      /\ stopped.identity = r.identity /\ stopped.published = r.published
      /\ stopped.touched = r.touched /\ stopped.at = r.at /\ stopped.stage = r.stage
      /\ stopped.child # "none" => stopped.child = r.child
  <2>1. marked \in BOOLEAN /\ child \in {"none", "starting", "running", "passed", "failed"}
    BY <1>0 DEF Run
  <2>. HIDE DEF marked
  <2>. QED  BY <1>0, <2>1 DEF Run
<1>3. CASE Killed(h)
  <2>1. run' = [run EXCEPT ![h] = Over(killed)]  BY <1>0, <1>3 DEF Killed
  <2>2. killed \in Run /\ killed.temp = r.temp /\ killed.pc = r.pc /\ killed.child = r.child
        /\ killed.at = r.at /\ killed.stage = r.stage /\ killed.touched = r.touched
    BY <1>0 DEF Run
  <2>3. Marks(killed)  BY <1>0, <2>2 DEF Marks
  <2>. QED  BY <1>1, <2>1, <2>2, <2>3, OverStep
<1>4. CASE on_signal(h)
  <2>1. r.pc \notin {"kill", "unconfigure", "ended"}  BY <1>4 DEF on_signal
  <2>2. Marks(stopped)  BY <1>0, <1>2, <2>1 DEF Marks
  <2>3. CASE r.pc \in {"absent", "exit"}
    <3>1. run' = [run EXCEPT ![h] = Over(stopped)]  BY <1>0, <1>4, <2>3 DEF on_signal
    <3>. QED  BY <1>1, <1>2, <2>2, <3>1, OverStep
  <2>4. CASE r.pc \notin {"absent", "exit"}
    <3>1. run' = [run EXCEPT ![h] = stopped]  BY <1>0, <1>4, <2>4 DEF on_signal
    <3>2. Owns(h, stopped, config, by)  BY <1>0, <1>2, <2>1, Installed
    <3>. QED  BY <1>1, <1>2, <2>1, <2>2, <3>1, <3>2, RunStep DEF Ended
  <2>. QED  BY <2>3, <2>4
<1>. QED  BY <1>3, <1>4

(***************************************************************************)
(* The installation of a file, step by step.                               *)
(***************************************************************************)
LEMMA AbsentStep ==
  ASSUME Inv, NEW h \in Harnesses, require_config_absent(h) PROVE Inv'
<1>. DEFINE r == run[h]
            refused == [r EXCEPT !.passing = FALSE]
            second  == [r EXCEPT !.side = "b"]
            ready   == [r EXCEPT !.side = "a", !.pc = "mktemp"]
<1>0. r \in Run /\ Marks(r) /\ Owns(h, r, config, by) /\ run \in [Harnesses -> Run]
  BY HarnessFacts DEF Inv, TypeOK
<1>1. signals' \in 0..MaxSignals /\ userFiles' = userFiles /\ UNCHANGED Disk /\ r.pc = "absent"
  BY HarnessFacts DEF require_config_absent, At, Outside
<1>2. CASE config[client(h)] # NoFile
  <2>1. run' = [run EXCEPT ![h] = Over(refused)]
    BY <1>2 DEF require_config_absent
  <2>2. refused \in Run /\ refused.temp = r.temp /\ refused.pc = r.pc /\ refused.child = r.child
        /\ refused.at = r.at /\ refused.stage = r.stage /\ refused.touched = r.touched
    BY <1>0 DEF Run
  <2>3. Marks(refused)  BY <1>0, <2>2 DEF Marks
  <2>. QED  BY <1>1, <2>1, <2>2, <2>3, OverStep
<1>3. CASE config[client(h)] = NoFile
  <2>1. PICK q \in {second, ready} : run' = [run EXCEPT ![h] = q] /\ (r.side = "a" <=> q = second)
    <3>1. second # ready  BY <1>0, <1>1 DEF Run
    <3>2. CASE r.side = "a"
      <4>1. run' = [run EXCEPT ![h] = second]  BY <1>3, <3>2 DEF require_config_absent
      <4>. QED  BY <3>2, <4>1
    <3>3. CASE r.side # "a"
      <4>1. run' = [run EXCEPT ![h] = ready]  BY <1>3, <3>3 DEF require_config_absent
      <4>. HIDE DEF ready, second
      <4>. QED  BY <3>1, <3>3, <4>1
    <3>. QED  BY <3>2, <3>3
  <2>2. /\ q \in Run /\ q.temp = r.temp /\ q.identity = r.identity
        /\ q.published = r.published /\ q.touched = r.touched /\ q.child = r.child
        /\ q.at = r.at /\ q.stage = r.stage
        /\ \/ r.side = "a" /\ q.side = "b" /\ q.pc = "absent"
           \/ r.side # "a" /\ q.side = "a" /\ q.pc = "mktemp"
    <3>1. CASE q = second  BY <1>0, <1>1, <2>1, <3>1 DEF Run, Sides
    <3>2. CASE q = ready /\ r.side # "a"  BY <1>0, <1>1, <3>2 DEF Run, Sides
    <3>. HIDE DEF second, ready
    <3>. QED  BY <2>1, <3>1, <3>2
  <2>3. Marks(q)  BY <1>0, <1>1, <2>2 DEF Marks
  <2>4. r.side \in {"a", "b"}  BY <1>0 DEF Run, Sides
  <2>5. r.identity["a"] = NoFile /\ r.identity[r.side] = NoFile
        /\ (r.side = "a" => r.identity["b"] = NoFile)
    BY <1>0, <1>1 DEF Owns
  <2>6. \A s \in Sides : r.identity[s] # NoFile => s # r.side /\ s # "a"
    BY <2>5
  <2>7. Owns(h, q, config, by)
    BY <1>0, <1>1, <2>2, <2>4, <2>5, <2>6 DEF Owns, Cleaned, Sides
  <2>. QED  BY <1>1, <2>1, <2>2, <2>3, <2>7, RunStep DEF Ended
<1>. QED  BY <1>2, <1>3

\* The temporary file's name is stored.
LEMMA NameStep ==
  ASSUME Inv, NEW h \in Harnesses, NameTemp(h) PROVE Inv'
<1>. DEFINE r == run[h]
            q == [r EXCEPT !.pc = "stat", !.known[r.side] = r.temp[r.side]]
<1>0. r \in Run /\ Marks(r) /\ Owns(h, r, config, by) /\ run \in [Harnesses -> Run]
  BY HarnessFacts DEF Inv, TypeOK
<1>1. signals' \in 0..MaxSignals /\ userFiles' = userFiles /\ UNCHANGED Disk /\ r.pc = "name"
  BY HarnessFacts DEF NameTemp, At, Outside
<1>2. run' = [run EXCEPT ![h] = q]  BY <1>0 DEF NameTemp
<1>3. /\ q \in Run /\ q.temp = r.temp /\ q.identity = r.identity /\ q.side = r.side
      /\ q.published = r.published /\ q.touched = r.touched /\ q.child = r.child
      /\ q.at = r.at /\ q.stage = r.stage /\ q.pc = "stat"
      /\ q.known[r.side] = r.temp[r.side]
  BY <1>0 DEF Run
<1>. HIDE DEF q
<1>4. Marks(q)  BY <1>0, <1>1, <1>3 DEF Marks
<1>5. Owns(h, q, config, by)  BY <1>0, <1>1, <1>3 DEF Owns, Cleaned
<1>. QED  BY <1>1, <1>2, <1>3, <1>4, <1>5, RunStep DEF Ended

\* The identity is stored while the temporary name still holds the inode.
LEMMA IdentifyStep ==
  ASSUME Inv, NEW h \in Harnesses, Identify(h) PROVE Inv'
<1>. DEFINE r == run[h]
            q == [r EXCEPT !.pc = "ln", !.identity[r.side] = r.known[r.side]]
<1>0. r \in Run /\ Marks(r) /\ Owns(h, r, config, by) /\ run \in [Harnesses -> Run]
  BY HarnessFacts DEF Inv, TypeOK
<1>1. signals' \in 0..MaxSignals /\ userFiles' = userFiles /\ UNCHANGED Disk /\ r.pc = "stat"
  BY HarnessFacts DEF Identify, At, Outside
<1>2. run' = [run EXCEPT ![h] = q]  BY <1>0 DEF Identify
<1>3. /\ q \in Run /\ q.temp = r.temp /\ q.known = r.known /\ q.side = r.side
      /\ q.published = r.published /\ q.touched = r.touched /\ q.child = r.child
      /\ q.at = r.at /\ q.stage = r.stage /\ q.pc = "ln"
      /\ q.identity[r.side] = r.known[r.side]
      /\ \A s \in Sides : s # r.side => q.identity[s] = r.identity[s]
  BY <1>0 DEF Run
<1>. HIDE DEF q
<1>4. Marks(q)  BY <1>0, <1>1, <1>3 DEF Marks
<1>5. r.side \in Sides /\ r.temp[r.side] # NoFile /\ r.known[r.side] = r.temp[r.side]
      /\ by[r.temp[r.side]] = h
  BY <1>0, <1>1 DEF Owns, Run
<1>6. \A s \in Sides : q.identity[s] # NoFile =>
        /\ by[q.identity[s]] = h /\ q.identity[s] \in {q.temp[s], config[Plan[h][s]]}
  BY <1>0, <1>1, <1>3, <1>5 DEF Owns, Cleaned
<1>7. q.side = "a" => q.identity["b"] = NoFile
  BY <1>0, <1>1, <1>3 DEF Owns, Sides
<1>8. \A s \in q.published : q.identity[s] # NoFile
  BY <1>0, <1>1, <1>3, <1>5 DEF Owns, Run
<1>9. Owns(h, q, config, by)  BY <1>0, <1>1, <1>3, <1>5, <1>6, <1>7, <1>8 DEF Owns
<1>. QED  BY <1>1, <1>2, <1>3, <1>4, <1>9, RunStep DEF Ended

\* The flag is set when the published file is the one that was identified.
LEMMA FlagStep ==
  ASSUME Inv, NEW h \in Harnesses, Flag(h) PROVE Inv'
<1>. DEFINE r == run[h]
            q == [r EXCEPT !.pc = "rm", !.published = r.published \cup {r.side}]
<1>0. r \in Run /\ Marks(r) /\ Owns(h, r, config, by) /\ run \in [Harnesses -> Run]
  BY HarnessFacts DEF Inv, TypeOK
<1>1. signals' \in 0..MaxSignals /\ userFiles' = userFiles /\ UNCHANGED Disk /\ r.pc = "flag"
  BY HarnessFacts DEF Flag, At, Outside
<1>2. run' = [run EXCEPT ![h] = q]  BY <1>0 DEF Flag
<1>3. /\ q \in Run /\ q.temp = r.temp /\ q.identity = r.identity /\ q.side = r.side
      /\ q.published = r.published \cup {r.side} /\ q.touched = r.touched
      /\ q.child = r.child /\ q.at = r.at /\ q.stage = r.stage /\ q.pc = "rm"
  BY <1>0 DEF Run
<1>. HIDE DEF q
<1>4. Marks(q)  BY <1>0, <1>1, <1>3 DEF Marks
<1>5. Owns(h, q, config, by)  BY <1>0, <1>1, <1>3 DEF Owns, Cleaned
<1>. QED  BY <1>1, <1>2, <1>3, <1>4, <1>5, RunStep DEF Ended

\* The temporary name goes once the published one holds the inode.
LEMMA RemoveTempStep ==
  ASSUME Inv, NEW h \in Harnesses, RemoveTemp(h) PROVE Inv'
<1>. DEFINE r == run[h]
            next == IF r.side = "a" THEN "mktemp" ELSE "prepare"
            q == [r EXCEPT !.temp[r.side] = NoFile, !.known[r.side] = NoFile,
                           !.side = "b", !.pc = next]
<1>0. r \in Run /\ Marks(r) /\ Owns(h, r, config, by) /\ run \in [Harnesses -> Run]
  BY HarnessFacts DEF Inv, TypeOK
<1>1. signals' \in 0..MaxSignals /\ userFiles' = userFiles /\ UNCHANGED Disk /\ r.pc = "rm"
  BY HarnessFacts DEF RemoveTemp, At, Outside
<1>2. run' = [run EXCEPT ![h] = q]  BY <1>0 DEF RemoveTemp
<1>3. /\ q \in Run /\ q.identity = r.identity /\ q.side = "b"
      /\ q.published = r.published /\ q.touched = r.touched
      /\ q.child = r.child /\ q.at = r.at /\ q.stage = r.stage
      /\ q.pc = next /\ q.temp[r.side] = NoFile
      /\ \A s \in Sides : s # r.side => q.temp[s] = r.temp[s]
  BY <1>0 DEF Run, Sides
<1>4. q.pc \in {"mktemp", "prepare"} /\ (q.pc = "mktemp" => r.side = "a")
  BY <1>3
<1>. HIDE DEF q, next
<1>5. Marks(q)  BY <1>0, <1>1, <1>3, <1>4 DEF Marks
<1>6. \A s \in Sides : q.identity[s] # NoFile =>
        /\ by[q.identity[s]] = h /\ q.identity[s] \in {q.temp[s], config[Plan[h][s]]}
  BY <1>0, <1>1, <1>3 DEF Owns, Cleaned
<1>7. q.pc = "mktemp" => q.identity["b"] = NoFile
  BY <1>0, <1>1, <1>3, <1>4 DEF Owns
<1>8. Owns(h, q, config, by)
  BY <1>0, <1>3, <1>4, <1>6, <1>7 DEF Owns
<1>. QED  BY <1>1, <1>2, <1>3, <1>4, <1>5, <1>8, RunStep DEF Ended

\* mktemp takes an inode nobody uses.
LEMMA MakeTempStep ==
  ASSUME Inv, NEW h \in Harnesses, MakeTemp(h) PROVE Inv'
<1>. DEFINE r == run[h]
            i == Least(Free)
            q == [r EXCEPT !.pc = "name", !.temp[r.side] = i]
<1>0. r \in Run /\ Marks(r) /\ Owns(h, r, config, by) /\ run \in [Harnesses -> Run]
  BY HarnessFacts DEF Inv, TypeOK
<1>1. r.pc = "mktemp" /\ i \in Free
  BY LeastFree DEF MakeTemp, At
<1>2. /\ i \in Inodes /\ i # NoFile /\ i \notin InUse
      /\ \A c \in Clients : config[c] # i
      /\ \A g \in Harnesses, s \in Sides : run[g].temp[s] # i
  BY <1>1, FreeFacts DEF Free
<1>3. /\ run' = [run EXCEPT ![h] = q] /\ by' = [by EXCEPT ![i] = h]
      /\ config' = config /\ daemons' = daemons /\ buckout' = buckout
      /\ signals' = signals /\ userFiles' = userFiles
  BY <1>0 DEF MakeTemp, Outside
<1>. HIDE DEF i
<1>4. /\ q \in Run /\ q.identity = r.identity /\ q.side = r.side
      /\ q.published = r.published /\ q.touched = r.touched
      /\ q.child = r.child /\ q.at = r.at /\ q.stage = r.stage
      /\ q.pc = "name" /\ q.temp[r.side] = i
      /\ \A s \in Sides : s # r.side => q.temp[s] = r.temp[s]
  BY <1>0, <1>2 DEF Run
<1>. HIDE DEF q
<1>5. /\ by' \in [Inodes -> Harnesses \cup {User, None}] /\ by'[i] = h
      /\ \A j \in Inodes : j # i => by'[j] = by[j]
  BY <1>2, <1>3, HarnessFacts
<1>6. \A j \in InUse : by'[j] = by[j]
  <2>1. InUse \subseteq Inodes
    BY DEF InUse, Inv, TypeOK, Run
  <2>. QED  BY <1>2, <1>5, <2>1
<1>7. ASSUME NEW s \in Sides, q.temp[s] # NoFile PROVE by'[q.temp[s]] = h
  <2>1. CASE s = r.side  BY <1>4, <1>5, <2>1
  <2>2. CASE s # r.side
    <3>1. r.temp[s] = q.temp[s] /\ r.temp[s] \in InUse /\ by[r.temp[s]] = h
      BY <1>0, <1>4, <1>7, <2>2, InUseFacts DEF Owns
    <3>. QED  BY <1>6, <3>1
  <2>. QED  BY <2>1, <2>2
<1>8. ASSUME NEW s \in Sides, r.identity[s] # NoFile
      PROVE  by'[r.identity[s]] = h /\ r.identity[s] \in {q.temp[s], config[Plan[h][s]]}
  <2>1. s # r.side /\ ~Cleaned(r, s)  BY <1>0, <1>1, <1>8 DEF Owns, Cleaned
  <2>2. by[r.identity[s]] = h /\ r.identity[s] \in {r.temp[s], config[Plan[h][s]]}
    BY <1>0, <1>8, <2>1 DEF Owns
  <2>3. Plan[h][s] \in Clients  BY SideFacts DEF Inv
  <2>4. r.identity[s] \in InUse
    BY <1>8, <2>2, <2>3, InUseFacts
  <2>. QED  BY <1>4, <1>6, <2>1, <2>2, <2>4
<1>9. Owns(h, q, config, by')
  BY <1>0, <1>1, <1>2, <1>4, <1>7, <1>8 DEF Owns
<1>10. Marks(q)  BY <1>0, <1>1, <1>4 DEF Marks
<1>11. /\ run' \in [Harnesses -> Run] /\ run'[h] = q
       /\ \A g \in Harnesses : g # h => run'[g] = run[g]
  BY <1>0, <1>3, <1>4
<1>12. /\ \A s \in Sides : <<h, s>> \in daemons => s \in q.touched
       /\ daemons \subseteq Harnesses \X Sides /\ buckout \subseteq Clients
  BY <1>1, <1>4 DEF Inv, TypeOK, Ended
<1>. QED  BY <1>3, <1>5, <1>6, <1>9, <1>10, <1>11, <1>12, HarnessFacts, HarnessStep

\* ln publishes under a name that did not exist, or fails.
LEMMA LinkStep ==
  ASSUME Inv, NEW h \in Harnesses, Link(h) PROVE Inv'
<1>. DEFINE r == run[h]
            q == [r EXCEPT !.pc = "flag"]
<1>0. r \in Run /\ Marks(r) /\ Owns(h, r, config, by) /\ run \in [Harnesses -> Run]
  BY HarnessFacts DEF Inv, TypeOK
<1>1. r.pc = "ln" /\ r.side \in Sides /\ client(h) = Plan[h][r.side] /\ client(h) \in Clients
  BY SideFacts DEF Link, At, Inv
<1>2. /\ by' = by /\ daemons' = daemons /\ buckout' = buckout
      /\ signals' = signals /\ userFiles' = userFiles
  BY DEF Link, Outside
<1>3. CASE config[client(h)] # NoFile
  <2>1. Fail(h) /\ config' = config  BY <1>3 DEF Link
  <2>. QED  BY <1>1, <1>2, <2>1, FailStep DEF Disk, Outside
<1>4. CASE config[client(h)] = NoFile
  <2>1. run' = [run EXCEPT ![h] = q]
        /\ config' = [config EXCEPT ![client(h)] = r.known[r.side]]
    BY <1>0, <1>4 DEF Link, Goto
  <2>2. /\ q \in Run /\ q.temp = r.temp /\ q.identity = r.identity /\ q.side = r.side
        /\ q.published = r.published /\ q.touched = r.touched /\ q.child = r.child
        /\ q.at = r.at /\ q.stage = r.stage /\ q.pc = "flag"
    BY <1>0 DEF Run
  <2>. HIDE DEF q
  <2>3. /\ r.temp[r.side] # NoFile /\ r.known[r.side] = r.temp[r.side]
        /\ r.identity[r.side] = r.temp[r.side] /\ r.temp[r.side] \in Inodes \cup {NoFile}
    BY <1>0, <1>1 DEF Owns, Run
  <2>4. /\ config' \in [Clients -> Inodes \cup {NoFile}]
        /\ config'[client(h)] = r.identity[r.side]
        /\ \A c \in Clients : c # client(h) => config'[c] = config[c]
    BY <1>1, <2>1, <2>3, HarnessFacts
  <2>5. ASSUME NEW s \in Sides, r.identity[s] # NoFile
        PROVE  by[r.identity[s]] = h /\ r.identity[s] \in {r.temp[s], config'[Plan[h][s]]}
    <3>1. ~Cleaned(r, s)  BY <1>1 DEF Cleaned
    <3>2. by[r.identity[s]] = h /\ r.identity[s] \in {r.temp[s], config[Plan[h][s]]}
      BY <1>0, <2>5, <3>1 DEF Owns
    <3>3. CASE s = r.side  BY <2>3, <3>2, <3>3
    <3>4. CASE s # r.side
      <4>1. Plan[h][s] \in Clients /\ Plan[h][s] # client(h)
        BY <1>1, <3>4, SideFacts DEF Inv, Sides
      <4>. QED  BY <2>4, <3>2, <4>1
    <3>. QED  BY <3>3, <3>4
  <2>6. q.side = "a" => q.identity["b"] = NoFile
    BY <1>0, <1>1, <2>2 DEF Owns
  <2>7. Owns(h, q, config', by)
    BY <1>0, <1>1, <2>2, <2>3, <2>4, <2>5, <2>6 DEF Owns
  <2>8. Marks(q)  BY <1>0, <1>1, <2>2 DEF Marks
  <2>9. /\ run' \in [Harnesses -> Run] /\ run'[h] = q
        /\ \A g \in Harnesses : g # h => run'[g] = run[g]
    BY <1>0, <2>1, <2>2
  <2>10. /\ \A s \in Sides : <<h, s>> \in daemons => s \in q.touched
         /\ daemons \subseteq Harnesses \X Sides /\ buckout \subseteq Clients
    BY <1>1, <2>2 DEF Inv, TypeOK, Ended
  <2>11. \A c \in Clients : config[c] # NoFile => config'[c] = config[c]
    BY <1>4, <2>4
  <2>. QED  BY <1>2, <2>4, <2>7, <2>8, <2>9, <2>10, <2>11, HarnessFacts, HarnessStep
<1>. QED  BY <1>3, <1>4

\* A command of the installation that fails leaves what was there.
LEMMA InstallFailsStep ==
  ASSUME Inv, NEW h \in Harnesses, InstallFails(h) PROVE Inv'
<1>1. Fail(h) /\ run[h].pc \in {"mktemp", "stat", "rm"} /\ UNCHANGED <<Disk, Outside>>
  BY DEF InstallFails
<1>. QED  BY <1>1, FailStep

(***************************************************************************)
(* The cleanup, first of the daemons, then of the files.                   *)
(***************************************************************************)
LEMMA AfterKillFacts ==
  ASSUME NEW r \in Run, r.pc = "kill"
  PROVE  LET q == AfterKill(r) IN
         /\ q \in Run /\ q.temp = r.temp /\ q.identity = r.identity
         /\ q.published = r.published /\ q.touched = r.touched /\ q.child = r.child
         /\ q.at = r.at /\ q.stage = r.stage
         /\ q.pc = "kill" \/ (q.pc = "unconfigure" /\ q.side = "a")
<1>1. CASE r.side = "a"  BY <1>1 DEF AfterKill, Run, Sides
<1>2. CASE r.side # "a"  BY <1>2 DEF AfterKill, Run, Sides
<1>. QED  BY <1>1, <1>2

\* cleanup_client touches no file and only its own daemons.
LEMMA KillStep ==
  ASSUME Inv, NEW h \in Harnesses, cleanup_client(h) PROVE Inv'
<1>. DEFINE r == run[h]
            child  == IF r.child = "running" /\ CommandSide(h) = r.side THEN "none" ELSE r.child
            killed == [r EXCEPT !.child = child]
<1>0. r \in Run /\ Marks(r) /\ Owns(h, r, config, by) /\ run \in [Harnesses -> Run]
  BY HarnessFacts DEF Inv, TypeOK
<1>1. /\ r.pc = "kill" /\ config' = config /\ by' = by /\ buckout' = buckout
      /\ signals' = signals /\ userFiles' = userFiles
  BY DEF cleanup_client, At, Outside
<1>2. PICK k \in {killed, Failing(r), r} :
        /\ run' = [run EXCEPT ![h] = AfterKill(k)]
        /\ daemons' \in {daemons, daemons \ {<<h, r.side>>}}
  <2>. HIDE DEF child
  <2>. QED  BY Zenon DEF cleanup_client, child
<1>3. /\ k \in Run /\ k.pc = "kill" /\ k.temp = r.temp /\ k.identity = r.identity
      /\ k.published = r.published /\ k.touched = r.touched /\ k.at = r.at
      /\ k.stage = r.stage /\ k.child \in {"none", r.child}
  <2>1. child \in {"none", "starting", "running", "passed", "failed"} /\ child \in {"none", r.child}
    BY <1>0 DEF Run
  <2>. HIDE DEF child
  <2>2. CASE k = killed  BY <1>0, <1>1, <2>1, <2>2 DEF Run
  <2>3. CASE k = Failing(r)  BY <1>0, <1>1, <2>3 DEF Failing, Run
  <2>4. CASE k = r  BY <1>0, <1>1, <2>4
  <2>. HIDE DEF killed
  <2>. QED  BY <1>2, <2>2, <2>3, <2>4
<1>. DEFINE q == AfterKill(k)
<1>4. /\ q \in Run /\ q.temp = r.temp /\ q.identity = r.identity
      /\ q.published = r.published /\ q.touched = r.touched /\ q.child \in {"none", r.child}
      /\ q.at = r.at /\ q.stage = r.stage
      /\ q.pc = "kill" \/ (q.pc = "unconfigure" /\ q.side = "a")
  BY <1>3, AfterKillFacts
<1>. HIDE DEF q
<1>5. Owns(h, q, config, by)  BY <1>0, <1>1, <1>4, Installed
<1>6. Marks(q)  BY <1>0, <1>1, <1>4 DEF Marks
<1>7. /\ run' \in [Harnesses -> Run] /\ run'[h] = q
      /\ \A g \in Harnesses : g # h => run'[g] = run[g]
  BY <1>0, <1>2, <1>4 DEF q
<1>8. /\ \A s \in Sides : <<h, s>> \in daemons' => s \in q.touched
      /\ daemons' \subseteq daemons
      /\ daemons \subseteq Harnesses \X Sides /\ buckout \subseteq Clients
  BY <1>1, <1>2, <1>4 DEF Inv, TypeOK, Ended
<1>. QED  BY <1>1, <1>4, <1>5, <1>6, <1>7, <1>8, HarnessFacts, HarnessStep

\* The first removal moves on to the second side, the second one is the end.
LEMMA AfterRemovalFacts ==
  ASSUME NEW r \in Run, r.pc = "unconfigure", Marks(r)
  PROVE  LET q == AfterRemoval(r) IN
         /\ q \in Run /\ q.temp = r.temp /\ Marks(q)
         /\ \/ /\ q.pc = "ended" /\ q.published = {}
               /\ \A s \in Sides : q.identity[s] = NoFile
            \/ /\ q.pc = "unconfigure" /\ r.side = "a" /\ q.side = "b"
               /\ q.identity = r.identity /\ q.published = r.published
               /\ q.touched = r.touched
<1>1. CASE r.side = "a"
  <2>. DEFINE q == [r EXCEPT !.side = "b"]
  <2>1. /\ q \in Run /\ q.temp = r.temp /\ q.pc = r.pc /\ q.side = "b"
        /\ q.identity = r.identity /\ q.published = r.published /\ q.touched = r.touched
        /\ q.child = r.child /\ q.at = r.at /\ q.stage = r.stage
    BY DEF Run, Sides
  <2>2. AfterRemoval(r) = q  BY <1>1 DEF AfterRemoval
  <2>. HIDE DEF q
  <2>3. Marks(q)  BY <2>1 DEF Marks
  <2>. QED  BY <1>1, <2>1, <2>2, <2>3
<1>2. CASE r.side # "a"
  <2>1. AfterRemoval(r) = Over(r)  BY <1>2 DEF AfterRemoval
  <2>. QED  BY <2>1, OverOwns
<1>. QED  BY <1>1, <1>2

\* cleanup_client_config removes the run's own inode or nothing, and what it
\* frees is the only inode that loses its writer.
LEMMA UnconfigureStep ==
  ASSUME Inv, NEW h \in Harnesses, cleanup_client_config(h) PROVE Inv'
<1>. DEFINE r == run[h]
            left == [r EXCEPT !.temp[r.side] = IF r.known[r.side] # NoFile THEN NoFile
                                               ELSE r.temp[r.side]]
<1>0. r \in Run /\ Marks(r) /\ Owns(h, r, config, by) /\ run \in [Harnesses -> Run]
  BY HarnessFacts DEF Inv, TypeOK
<1>1. /\ r.pc = "unconfigure" /\ daemons' = daemons /\ buckout' = buckout
      /\ signals' = signals /\ userFiles' = userFiles
      /\ by' = [i \in Inodes |-> IF i \in InUse' THEN by[i] ELSE None]
      /\ r.side \in Sides /\ client(h) = Plan[h][r.side] /\ client(h) \in Clients
  BY SideFacts DEF cleanup_client_config, At, Outside, Inv
<1>2. PICK k \in {left, Failing(left), Failing(r)} :
        /\ run' = [run EXCEPT ![h] = AfterRemoval(k)]
        /\ config' \in {config, [config EXCEPT ![client(h)] = IF Mine(h) THEN NoFile ELSE @]}
  <2>. DEFINE present == config[client(h)] # NoFile
              refused == (present /\ ~Mine(h)) \/ (~present /\ r.side \in r.published)
  <2>1. PICK k \in {left, r} :
          \/ /\ config' = config
             /\ run' = [run EXCEPT ![h] = AfterRemoval(Failing(k))]
          \/ /\ config' = [config EXCEPT ![client(h)] = IF Mine(h) THEN NoFile ELSE @]
             /\ run' = [run EXCEPT ![h] =
                          AfterRemoval(IF refused \/ k # left THEN Failing(k) ELSE k)]
    BY DEF cleanup_client_config
  <2>. HIDE DEF left, refused, r
  <2>2. CASE refused \/ k # left
    BY <2>1, <2>2
  <2>3. CASE ~refused /\ k = left
    BY <2>1, <2>3
  <2>. QED  BY <2>2, <2>3
<1>3. /\ k \in Run /\ k.pc = "unconfigure" /\ k.side = r.side /\ k.identity = r.identity
      /\ k.published = r.published /\ k.touched = r.touched /\ k.at = r.at
      /\ k.stage = r.stage /\ k.child = r.child
      /\ k.temp[r.side] \in {NoFile, r.temp[r.side]}
      /\ \A s \in Sides : s # r.side => k.temp[s] = r.temp[s]
  <2>1. CASE k = left  BY <1>0, <1>1, <2>1 DEF Run
  <2>2. CASE k = Failing(left)  BY <1>0, <1>1, <2>2 DEF Failing, Run
  <2>3. CASE k = Failing(r)  BY <1>0, <1>1, <2>3 DEF Failing, Run
  <2>. HIDE DEF left, r
  <2>. QED  BY <1>2, <2>1, <2>2, <2>3
<1>4. Marks(k)  BY <1>0, <1>1, <1>3 DEF Marks
<1>. DEFINE q == AfterRemoval(k)
<1>5. /\ q \in Run /\ q.temp = k.temp /\ Marks(q)
      /\ \/ /\ q.pc = "ended" /\ q.published = {}
            /\ \A s \in Sides : q.identity[s] = NoFile
         \/ /\ q.pc = "unconfigure" /\ r.side = "a" /\ q.side = "b"
            /\ q.identity = r.identity /\ q.published = r.published
            /\ q.touched = r.touched
  BY <1>3, <1>4, AfterRemovalFacts
<1>6. /\ run' \in [Harnesses -> Run] /\ run'[h] = q
      /\ \A g \in Harnesses : g # h => run'[g] = run[g]
  BY <1>0, <1>2, <1>5
<1>. HIDE DEF q
<1>7. ~Cleaned(r, r.side)  BY DEF Cleaned
<1>8. /\ config' \in [Clients -> Inodes \cup {NoFile}]
      /\ \A c \in Clients : config'[c] # config[c] =>
           c = client(h) /\ config[c] = r.identity[r.side] /\ config[c] # NoFile
  BY <1>1, <1>2, HarnessFacts DEF Mine
<1>9. \A c \in Clients : config'[c] # config[c] => by[config[c]] = h
  BY <1>0, <1>1, <1>7, <1>8 DEF Owns
<1>10. /\ \A c \in Clients : config'[c] # NoFile => config'[c] \in InUse'
       /\ \A g \in Harnesses, s \in Sides : run'[g].temp[s] # NoFile => run'[g].temp[s] \in InUse'
  BY DEF InUse
<1>11. \A i \in Inodes : i \in InUse' => by'[i] = by[i]
  BY <1>1
<1>12. \A i \in InUse : by[i] # h => by'[i] = by[i]
  <2>. SUFFICES ASSUME NEW i \in InUse, by[i] # h PROVE i \in InUse' /\ i \in Inodes
    BY <1>11
  <2>1. i \in Inodes  BY DEF InUse, Inv, TypeOK, Run
  <2>2. i # NoFile  BY DEF InUse
  <2>3. ASSUME NEW c \in Clients, config[c] = i PROVE i \in InUse'
    BY <2>2, <2>3, <1>9, <1>10
  <2>4. ASSUME NEW g \in Harnesses, NEW s \in Sides, run[g].temp[s] = i PROVE i \in InUse'
    <3>1. g # h  BY <1>0, <2>2, <2>4 DEF Owns
    <3>. QED  BY <1>6, <1>10, <2>2, <2>4, <3>1
  <2>. QED  BY <2>1, <2>3, <2>4 DEF InUse
<1>13. ASSUME NEW s \in Sides, q.temp[s] # NoFile PROVE by'[q.temp[s]] = h
  <2>1. q.temp[s] = r.temp[s]  BY <1>3, <1>5, <1>13
  <2>2. by[q.temp[s]] = h  BY <1>0, <1>13, <2>1 DEF Owns
  <2>3. q.temp[s] \in InUse' /\ q.temp[s] \in Inodes
    BY <1>5, <1>6, <1>10, <1>13 DEF Run
  <2>. QED  BY <1>11, <2>2, <2>3
<1>14. ASSUME q.pc = "unconfigure", q.identity["b"] # NoFile
       PROVE  /\ by'[q.identity["b"]] = h
              /\ q.identity["b"] \in {q.temp["b"], config'[Plan[h]["b"]]}
  <2>1. /\ r.side = "a" /\ q.identity["b"] = r.identity["b"] /\ ~Cleaned(r, "b")
        /\ "b" \in Sides /\ Plan[h]["b"] \in Clients /\ Plan[h]["b"] # client(h)
    BY <1>1, <1>5, <1>14, SideFacts DEF Cleaned, Inv
  <2>2. by[r.identity["b"]] = h /\ r.identity["b"] \in {r.temp["b"], config[Plan[h]["b"]]}
    BY <1>0, <1>14, <2>1 DEF Owns
  <2>3. q.temp["b"] = r.temp["b"] /\ config'[Plan[h]["b"]] = config[Plan[h]["b"]]
    BY <1>3, <1>5, <1>8, <2>1
  <2>4. r.identity["b"] \in InUse' /\ r.identity["b"] \in Inodes
    BY <1>0, <1>6, <1>10, <1>14, <2>1, <2>2, <2>3 DEF Run
  <2>. QED  BY <1>11, <2>1, <2>2, <2>3, <2>4
<1>15. Owns(h, q, config', by')
  <2>1. CASE q.pc = "ended"  BY <1>5, <1>13, <2>1 DEF Owns
  <2>2. CASE q.pc = "unconfigure"
    BY <1>0, <1>5, <1>13, <1>14, <2>2 DEF Owns, Cleaned, Sides
  <2>. QED  BY <1>5, <2>1, <2>2
<1>16. by' \in [Inodes -> Harnesses \cup {User, None}]
  BY <1>1, HarnessFacts
<1>17. /\ \A s \in Sides : <<h, s>> \in daemons /\ q.pc # "ended" => s \in q.touched
       /\ daemons \subseteq Harnesses \X Sides /\ buckout \subseteq Clients
  BY <1>1, <1>5 DEF Inv, TypeOK, Ended
<1>18. \A c \in Clients : config[c] # NoFile /\ by[config[c]] # h => config'[c] = config[c]
  BY <1>9
<1>. QED  BY <1>1, <1>5, <1>6, <1>8, <1>12, <1>15, <1>16, <1>17, <1>18, HarnessFacts, HarnessStep

(***************************************************************************)
(* An operator's file takes a free inode and a free name.                  *)
(***************************************************************************)
LEMMA UserStep ==
  ASSUME Inv, NEW c \in Clients, UserCreates(c) PROVE Inv'
<1>. DEFINE i == Least(Free)
<1>1. /\ i \in Free /\ config[c] = NoFile /\ userFiles < MaxUserFiles
      /\ config' = [config EXCEPT ![c] = i] /\ by' = [by EXCEPT ![i] = User]
      /\ userFiles' = userFiles + 1 /\ run' = run /\ daemons' = daemons
      /\ buckout' = buckout /\ signals' = signals
  BY LeastFree DEF UserCreates
<1>2. i \in Inodes /\ i \notin InUse  BY <1>1 DEF Free
<1>. HIDE DEF i
<1>3. /\ config' \in [Clients -> Inodes \cup {NoFile}]
      /\ by' \in [Inodes -> Harnesses \cup {User, None}]
      /\ \A j \in InUse : by'[j] = by[j]
      /\ \A d \in Clients : config[d] # NoFile => config'[d] = config[d]
  <2>1. InUse \subseteq Inodes  BY DEF InUse, Inv, TypeOK, Run
  <2>. QED  BY <1>1, <1>2, <2>1 DEF Inv, TypeOK
<1>4. \A g \in Harnesses : Owns(g, run'[g], config', by') /\ Marks(run'[g])
  <2>. TAKE g \in Harnesses
  <2>1. g # User /\ run'[g] = run[g]  BY <1>1, SmokeAssumption
  <2>. QED  BY <1>3, <2>1, OthersOwn
<1>5. OwnInv'  BY <1>4 DEF OwnInv
<1>6. ASSUME NEW g \in Harnesses, NEW s \in Sides
      PROVE  /\ run'[g].temp[s] # NoFile => by'[run'[g].temp[s]] = g
             /\ s \in run'[g].published => run'[g].identity[s] # NoFile
  BY <1>4 DEF Owns
<1>7. userFiles' \in 0..MaxUserFiles
  BY <1>1, SmokeAssumption DEF Inv, TypeOK
<1>. QED  BY <1>1, <1>3, <1>5, <1>6, <1>7 DEF Inv, TypeOK, Ended

(***************************************************************************)
(* The invariant, from the first state on.                                 *)
(***************************************************************************)
LEMMA InitInv == ASSUME Init PROVE Inv
<1>1. PICK stage \in [Harnesses -> UNION {Stages[h] : h \in Harnesses}] :
        /\ \A h \in Harnesses : stage[h] \in Stages[h]
        /\ run = [h \in Harnesses |-> Invocation(stage[h], IF h \in Reused THEN {"a"} ELSE {})]
  BY DEF Init
<1>2. ASSUME NEW h \in Harnesses
      PROVE  /\ run[h] \in Run /\ Marks(run[h]) /\ Owns(h, run[h], config, by)
             /\ \A s \in Sides : run[h].temp[s] = NoFile /\ run[h].identity[s] = NoFile
             /\ run[h].published = {}
  <2>. DEFINE r == Invocation(stage[h], IF h \in Reused THEN {"a"} ELSE {})
  <2>1. run[h] = r /\ stage[h] \in StageNames
    BY <1>1, <1>2, SmokeAssumption
  <2>2. Nowhere \in [Sides -> Inodes \cup {NoFile}] /\ \A s \in Sides : Nowhere[s] = NoFile
    BY DEF Nowhere
  <2>3. /\ r.pc = "absent" /\ r.side = "a" /\ r.temp = Nowhere /\ r.identity = Nowhere
        /\ r.published = {} /\ r.child = "none"
    BY DEF Invocation
  <2>4. (IF h \in Reused THEN {"a"} ELSE {}) \in SUBSET Sides /\ "a" \in Sides
    BY DEF Sides
  <2>5. r \in Run
    BY <2>1, <2>2, <2>4 DEF Invocation, Run
  <2>6. Marks(r)  BY <2>3 DEF Marks
  <2>7. "a" \in Sides /\ "b" \in Sides  BY DEF Sides
  <2>. HIDE DEF r
  <2>8. Owns(h, r, config, by)
    BY <2>2, <2>3, <2>7 DEF Owns
  <2>. QED  BY <2>1, <2>2, <2>3, <2>5, <2>6, <2>8
<1>3. OwnInv  BY <1>2 DEF OwnInv
<1>4. run \in [Harnesses -> Run]  BY <1>1, <1>2
<1>5. /\ config \in [Clients -> Inodes \cup {NoFile}]
      /\ by \in [Inodes -> Harnesses \cup {User, None}]
      /\ daemons = {} /\ buckout = {}
      /\ signals \in 0..MaxSignals /\ userFiles \in 0..MaxUserFiles
  BY SmokeAssumption DEF Init
<1>. QED  BY <1>2, <1>3, <1>4, <1>5 DEF Inv, TypeOK

\* Every step of a harness, of its command, of a signal or of the operator.
LEMMA NextInv == ASSUME Inv, [Next]_vars PROVE Inv'
<1>1. ASSUME NEW h \in Harnesses, Step(h) PROVE Inv'
  BY <1>1, AbsentStep, MakeTempStep, NameStep, IdentifyStep, LinkStep, FlagStep,
     RemoveTempStep, InstallFailsStep, LaunchStep, WaitingStep, KillStep, UnconfigureStep
     DEF Step
<1>2. ASSUME UNCHANGED vars PROVE Inv'
  BY <1>2 DEF vars, Inv, TypeOK, OwnInv, Owns, Marks, Cleaned, Ended
<1>. QED  BY <1>1, <1>2, CommandStep, SignalStep, UserStep DEF Next, AllEnded

(***************************************************************************)
(* Every state a set of harnesses can reach satisfies the invariant: until *)
(* its cleanup is done, a run's file keeps its inode in use, under the     *)
(* temporary name or the published one, whatever the other harnesses, the  *)
(* operator and the signals do.                                            *)
(***************************************************************************)
THEOREM FilesAreOwned == Spec => []Inv
<1>1. Init => Inv  BY InitInv
<1>2. Inv /\ [Next]_vars => Inv'  BY NextInv
<1>. QED  BY <1>1, <1>2, PTL DEF Spec

(***************************************************************************)
(* A harness knows only files and sides it made, has recorded the identity *)
(* of every file it published, and has marked every daemon that runs.      *)
(***************************************************************************)
THEOREM TypeCorrect == Spec => []TypeOK
<1>1. Inv => TypeOK  BY DEF Inv
<1>. QED  BY <1>1, FilesAreOwned, PTL

(***************************************************************************)
(* No step of the script, of a command or of a signal takes away or        *)
(* replaces a .buckconfig.local: only cleanup_client_config removes one,   *)
(* and only the file its own run wrote.                                    *)
(***************************************************************************)
THEOREM OnlyOwnFilesRemoved == Spec => RemovesOnlyItsOwn
<1>. DEFINE removal(c) ==
       config[c] # NoFile /\ config'[c] # config[c] =>
         /\ config'[c] = NoFile
         /\ \E h \in Harnesses : run'[h] # run[h] /\ by[config[c]] = h
<1>1. ASSUME Inv, Next, NEW c \in Clients PROVE removal(c)
  <2>. SUFFICES ASSUME config[c] # NoFile, config'[c] # config[c] PROVE removal(c)
    OBVIOUS
  <2>1. \E h \in Harnesses : cleanup_client_config(h)
    <3>1. ASSUME NEW h \in Harnesses, Link(h) PROVE FALSE
      <4>1. config \in [Clients -> Inodes \cup {NoFile}]  BY <1>1 DEF Inv, TypeOK
      <4>. QED  BY <3>1, <4>1 DEF Link
    <3>2. ASSUME NEW d \in Clients, UserCreates(d) PROVE FALSE
      BY <1>1, <3>2 DEF UserCreates, Inv, TypeOK
    <3>3. config' # config  OBVIOUS
    <3>. QED
      BY <1>1, <3>1, <3>2, <3>3
         DEF Next, Step, Command, AllEnded, vars, Disk, require_config_absent, MakeTemp,
             NameTemp, Identify, Flag, RemoveTemp, InstallFails, Prepare, Launch,
             OutputExists, RecordPid, Wait, CommandFails, EvidenceRejected, OnExit,
             cleanup_client, Connect, Finish, on_signal, Killed
  <2>2. PICK h \in Harnesses : cleanup_client_config(h)  BY <2>1
  <2>. DEFINE r == run[h]
  <2>3. r \in Run /\ Owns(h, r, config, by) /\ r.pc = "unconfigure" /\ r.side \in Sides
        /\ client(h) = Plan[h][r.side]
    BY <1>1, <2>2, HarnessFacts, SideFacts DEF cleanup_client_config, At, Inv
  <2>4. c = client(h) /\ Mine(h) /\ config'[c] = NoFile
    BY <1>1, <2>2 DEF cleanup_client_config, Inv, TypeOK
  <2>5. by[config[c]] = h
    <3>1. ~Cleaned(r, r.side)  BY DEF Cleaned
    <3>. QED  BY <2>3, <2>4, <3>1 DEF Owns, Mine
  <2>6. run'[h] # run[h]
    <3>. DEFINE left == [r EXCEPT !.temp[r.side] = IF r.known[r.side] # NoFile THEN NoFile
                                                   ELSE r.temp[r.side]]
    <3>1. PICK k \in {left, Failing(left), Failing(r)} : run' = [run EXCEPT ![h] = AfterRemoval(k)]
      <4>. DEFINE refused == \/ config[client(h)] # NoFile /\ ~Mine(h)
                             \/ ~(config[client(h)] # NoFile) /\ r.side \in r.published
      <4>1. PICK k \in {left, r} :
              \/ run' = [run EXCEPT ![h] = AfterRemoval(Failing(k))]
              \/ run' = [run EXCEPT ![h] =
                           AfterRemoval(IF refused \/ k # left THEN Failing(k) ELSE k)]
        BY <2>2 DEF cleanup_client_config
      <4>. HIDE DEF left, refused, r
      <4>2. CASE refused \/ k # left
        BY <4>1, <4>2
      <4>3. CASE ~refused /\ k = left
        BY <4>1, <4>3
      <4>. QED  BY <4>2, <4>3
    <3>2. k \in Run /\ k.pc = "unconfigure" /\ k.side = r.side /\ k.at = r.at
          /\ k.stage = r.stage /\ k.child = r.child /\ k.touched = r.touched
      <4>1. CASE k = left  BY <2>3, <4>1 DEF Run
      <4>2. CASE k = Failing(left)  BY <2>3, <4>2 DEF Failing, Run
      <4>3. CASE k = Failing(r)  BY <2>3, <4>3 DEF Failing, Run
      <4>. HIDE DEF left, r
      <4>. QED  BY <3>1, <4>1, <4>2, <4>3
    <3>3. Marks(k)  BY <1>1, <2>3, <3>2, HarnessFacts DEF Marks
    <3>4. run'[h] = AfterRemoval(k)  BY <1>1, <3>1 DEF Inv, TypeOK
    <3>5. AfterRemoval(k).pc # "unconfigure" \/ AfterRemoval(k).side # r.side
      BY <3>2, <3>3, AfterRemovalFacts
    <3>. QED  BY <2>3, <3>4, <3>5
  <2>. QED  BY <2>4, <2>5, <2>6
<1>2. ASSUME UNCHANGED vars, NEW c \in Clients PROVE removal(c)
  BY <1>2 DEF vars
<1>3. Inv /\ [Next]_vars => [\A c \in Clients : removal(c)]_vars
  BY <1>1, <1>2
<1>. QED  BY <1>3, FilesAreOwned, PTL DEF Spec, RemovesOnlyItsOwn

-----------------------------------------------------------------------------
(***************************************************************************)
(* What a run of smoke-test.sh leaves behind, and under whose settings buck*)
(* runs.                                                                   *)
(***************************************************************************)
(***************************************************************************)
(* A run of which no cleanup step failed and no signal came where the      *)
(* handlers do not look.  A run that passes is one (on_exit, on_signal).   *)
(***************************************************************************)
Lucky(r) == ~r.failed /\ ~r.unlucky

\* The file of side s is published and its temporary name is gone, so that
\* OwnInv puts the run's own inode under the published one.
Published(r, s) == r.identity[s] # NoFile /\ r.temp[s] = NoFile

\* Where the command and the daemons of a run can be, and that its files are
\* in place by then.
Serving(h, r, d) ==
  /\ r.passing => Lucky(r)
  /\ Lucky(r) =>
       /\ r.child # "none" => r.pc \in {"forked", "wait"}
       /\ r.pc = "wait" => r.pid
       /\ r.pc \in {"mktemp", "name", "stat", "ln", "flag", "rm"} /\ r.side = "b" =>
            Published(r, "a")
       /\ r.pc \in {"prepare", "launch", "forked", "wait"} =>
            Published(r, "a") /\ Published(r, "b")
       /\ \A s \in Sides : <<h, s>> \in d =>
            /\ r.pc \in {"launch", "forked", "wait", "exit", "kill"}
            /\ Published(r, "a") /\ Published(r, "b")
            /\ r.pc = "kill" /\ r.side = "b" => s = "b"

\* What the run wrote is known to its cleanup until that has gone over it.
Done(r, s) == r.pc = "ended" \/ Cleaned(r, s)
Accounted(h, r, cfg, b) ==
  Lucky(r) => \A s \in Sides :
    /\ r.temp[s] # NoFile =>
         /\ r.pc # "absent" /\ ~Done(r, s)
         /\ r.known[s] # NoFile \/ (r.pc = "name" /\ r.side = s)
    /\ cfg[Plan[h][s]] # NoFile /\ b[cfg[Plan[h][s]]] = h =>
         r.identity[s] = cfg[Plan[h][s]] /\ ~Done(r, s)

Tidy(h) == Serving(h, run[h], daemons) /\ Accounted(h, run[h], config, by)
TidyInv == \A h \in Harnesses : Tidy(h)

(***************************************************************************)
(* What remains to be shown for a step of h: that the files of the others  *)
(* stay, and that no file of theirs appears.                               *)
(***************************************************************************)
LEMMA TidyStep ==
  ASSUME TidyInv, NEW h,
         \A g \in Harnesses : g # h => run'[g] = run[g],
         \A g \in Harnesses, s \in Sides : g # h /\ <<g, s>> \in daemons' => <<g, s>> \in daemons,
         \A c \in Clients : config'[c] # NoFile /\ by'[config'[c]] # h =>
                            config'[c] = config[c] /\ by'[config'[c]] = by[config'[c]],
         h \in Harnesses => Serving(h, run'[h], daemons') /\ Accounted(h, run'[h], config', by')
  PROVE  TidyInv'
<1>1. ASSUME NEW g \in Harnesses, g # h PROVE Tidy(g)'
  <2>1. Serving(g, run[g], daemons) /\ Accounted(g, run[g], config, by) /\ run'[g] = run[g]
    BY <1>1 DEF TidyInv, Tidy
  <2>2. Serving(g, run'[g], daemons')
    BY <1>1, <2>1 DEF Serving
  <2>3. \A s \in Sides : Plan[g][s] \in Clients
    BY SmokeAssumption
  <2>4. Accounted(g, run'[g], config', by')
    BY <1>1, <2>1, <2>3 DEF Accounted
  <2>. QED  BY <2>2, <2>4 DEF Tidy
<1>2. ASSUME NEW g \in Harnesses, g = h PROVE Tidy(g)'
  BY <1>2 DEF Tidy
<1>. QED  BY <1>1, <1>2 DEF TidyInv

\* The case of a step that leaves the disk alone.
LEMMA TidyRunStep ==
  ASSUME Inv, TidyInv, NEW h \in Harnesses, NEW r \in Run, run' = [run EXCEPT ![h] = r],
         UNCHANGED Disk, Serving(h, r, daemons), Accounted(h, r, config, by)
  PROVE  TidyInv'
<1>1. run'[h] = r /\ \A g \in Harnesses : g # h => run'[g] = run[g]
  BY DEF Inv, TypeOK
<1>2. config' = config /\ by' = by /\ daemons' = daemons
  BY DEF Disk
<1>. QED  BY <1>1, <1>2, TidyStep

\* The parts of the invariants one harness needs.
LEMMA TidyFacts == ASSUME Inv, TidyInv, NEW h \in Harnesses
  PROVE  /\ run \in [Harnesses -> Run] /\ run[h] \in Run
         /\ Owns(h, run[h], config, by) /\ Marks(run[h])
         /\ Serving(h, run[h], daemons) /\ Accounted(h, run[h], config, by)
         /\ run[h].side \in {"a", "b"}
<1>. QED  BY HarnessFacts DEF TidyInv, Tidy, Inv, TypeOK, Run, Sides

\* The files of a run stay accounted for while its script goes on.
LEMMA StillAccounted ==
  ASSUME NEW h, NEW r \in Run, NEW q \in Run, NEW cfg, NEW b, Accounted(h, r, cfg, b),
         q.temp = r.temp, q.identity = r.identity, q.known = r.known,
         Lucky(q) => Lucky(r) /\ r.pc # "name", r.pc \notin {"absent", "unconfigure", "ended"},
         \/ q.pc \notin {"absent", "unconfigure", "ended"}
         \/ q.pc = "unconfigure" /\ q.side = "a"
  PROVE  Accounted(h, q, cfg, b)
<1>. QED  BY DEF Accounted, Done, Cleaned

(***************************************************************************)
(* The steps of the stage.                                                 *)
(***************************************************************************)
LEMMA TidyFail ==
  ASSUME Inv, TidyInv, NEW h \in Harnesses, Fail(h) \/ Exit(h),
         run[h].pc \in {"mktemp", "stat", "ln", "rm", "prepare", "launch"}, UNCHANGED Disk
  PROVE  TidyInv'
<1>. DEFINE exiting == [run[h] EXCEPT !.pc = "exit"]
            failing == [run[h] EXCEPT !.pc = "exit", !.passing = FALSE]
<1>1. PICK r \in {exiting, failing} : run' = [run EXCEPT ![h] = r]
  BY TidyFacts DEF Fail, Exit
<1>2. /\ r \in Run /\ r.pc = "exit" /\ r.temp = run[h].temp /\ r.known = run[h].known
      /\ r.identity = run[h].identity /\ r.child = run[h].child
      /\ r.failed = run[h].failed /\ r.unlucky = run[h].unlucky
      /\ r.passing => run[h].passing
  <2>1. run[h] \in Run  BY TidyFacts
  <2>2. CASE r = exiting  BY <2>1, <2>2 DEF Run
  <2>3. CASE r = failing  BY <2>1, <2>3 DEF Run
  <2>. QED  BY <2>2, <2>3
<1>. HIDE DEF exiting, failing
<1>3. Accounted(h, r, config, by)
  BY <1>2, TidyFacts, StillAccounted DEF Lucky
<1>4. Serving(h, r, daemons)
  BY <1>2, TidyFacts DEF Serving, Published, Lucky
<1>. QED  BY <1>1, <1>2, <1>3, <1>4, TidyRunStep

LEMMA TidyLaunch ==
  ASSUME Inv, TidyInv, NEW h \in Harnesses, Launch(h) \/ OutputExists(h) PROVE TidyInv'
<1>. DEFINE s == Commands(run[h].stage)[run[h].at]
            more == run[h].touched \cup ({s} \ {None})
            started == [run[h] EXCEPT !.pc = "forked", !.child = "starting", !.touched = more]
            refused == [run[h] EXCEPT !.pc = "exit", !.passing = FALSE, !.touched = more]
<1>1. run[h].pc = "launch" /\ UNCHANGED Disk
  BY DEF Launch, OutputExists, At
<1>2. CASE Exit(h)  BY <1>1, <1>2, TidyFail
<1>3. CASE ~Exit(h)
  <2>1. run[h].at \in 1..Len(Commands(run[h].stage))
    <3>1. run[h].at \in Nat \ {0} /\ run[h].stage \in StageNames  BY TidyFacts DEF Run
    <3>2. ~(run[h].at > Len(Commands(run[h].stage)))
      BY <1>3, <3>1, CommandCount DEF Launch, OutputExists
    <3>. QED  BY <3>1, <3>2, CommandCount
  <2>2. more \subseteq Sides
    <3>1. s \in Sides \cup {None}  BY <2>1, CommandSides, TidyFacts DEF Run
    <3>. QED  BY <3>1, TidyFacts DEF Run
  <2>3. PICK r \in {started, refused} : run' = [run EXCEPT ![h] = r]
    <3>1. CASE Launch(h)
      <4>1. run' = [run EXCEPT ![h] = started]
        BY <1>3, <3>1, TidyFacts DEF Launch, Run
      <4>. QED  BY <4>1
    <3>2. CASE OutputExists(h)
      <4>1. run' = [run EXCEPT ![h] = refused]
        BY <3>2, TidyFacts DEF OutputExists, CommandSide, Run
      <4>. QED  BY <4>1
    <3>. QED  BY <3>1, <3>2
  <2>4. /\ r \in Run /\ r.temp = run[h].temp /\ r.known = run[h].known
        /\ r.identity = run[h].identity
        /\ r.failed = run[h].failed /\ r.unlucky = run[h].unlucky
        /\ r.passing => run[h].passing
        /\ r.pc = "forked" \/ (r.pc = "exit" /\ r.child = run[h].child)
    <3>. HIDE DEF more
    <3>1. run[h] \in Run  BY TidyFacts
    <3>2. CASE r = started  BY <2>2, <3>1, <3>2 DEF Run
    <3>3. CASE r = refused  BY <2>2, <3>1, <3>3 DEF Run
    <3>. QED  BY <2>3, <3>2, <3>3
  <2>. HIDE DEF started, refused, more
  <2>5. Accounted(h, r, config, by)
    BY <1>1, <2>4, TidyFacts, StillAccounted DEF Lucky
  <2>6. Serving(h, r, daemons)
    BY <1>1, <2>4, TidyFacts DEF Serving, Published, Lucky
  <2>. QED  BY <1>1, <2>3, <2>4, <2>5, <2>6, TidyRunStep
<1>. QED  BY <1>2, <1>3

\* The checks, the stored process id, the result and the start of on_exit.
LEMMA TidyWaiting ==
  ASSUME Inv, TidyInv, NEW h \in Harnesses,
         Prepare(h) \/ RecordPid(h) \/ Wait(h) \/ CommandFails(h) \/ EvidenceRejected(h)
         \/ OnExit(h)
  PROVE  TidyInv'
<1>0. run \in [Harnesses -> Run] /\ run[h] \in Run /\ run[h].at \in Nat \ {0}
  BY TidyFacts DEF Run
<1>. DEFINE next(r) == run' = [run EXCEPT ![h] = r]
            ready    == [run[h] EXCEPT !.pc = "launch"]
            recorded == [run[h] EXCEPT !.pc = "wait", !.pid = TRUE]
            passed   == [run[h] EXCEPT !.pc = "launch", !.at = run[h].at + 1,
                                       !.child = "none", !.pid = FALSE]
            stopped  == [run[h] EXCEPT !.pc = "exit", !.passing = FALSE,
                                       !.child = "none", !.pid = FALSE]
            ending   == [run[h] EXCEPT !.pc = "kill", !.side = "a"]
            \* the fields that stay, and how the place changes
            same(r) == /\ r \in Run /\ r.temp = run[h].temp /\ r.known = run[h].known
                       /\ r.identity = run[h].identity
                       /\ r.failed = run[h].failed /\ r.unlucky = run[h].unlucky
                       /\ r.passing => run[h].passing
            moved(r) == \/ run[h].pc = "prepare" /\ r.pc = "launch" /\ r.child = run[h].child
                        \/ run[h].pc = "forked" /\ r.pc = "wait" /\ r.pid
                        \/ run[h].pc = "wait" /\ r.pc \in {"launch", "exit"} /\ r.child = "none"
                        \/ /\ run[h].pc = "exit" /\ r.pc = "kill" /\ r.side = "a"
                           /\ r.child = run[h].child
<1>1. UNCHANGED Disk
  BY DEF Prepare, RecordPid, Wait, CommandFails, EvidenceRejected, OnExit
<1>2. CASE Fail(h) /\ Prepare(h)
  BY <1>1, <1>2, TidyFail DEF Prepare, At
<1>3. CASE ~(Fail(h) /\ Prepare(h))
  <2>1. PICK r : next(r) /\ same(r) /\ moved(r)
    <3>1. CASE Prepare(h)
      <4>1. run[h].pc = "prepare" /\ next(ready)  BY <1>0, <1>3, <3>1 DEF Prepare, Goto, At, Run
      <4>2. same(ready) /\ moved(ready)  BY <1>0, <4>1 DEF Run
      <4>. QED  BY <4>1, <4>2
    <3>2. CASE RecordPid(h)
      <4>1. run[h].pc = "forked" /\ next(recorded)  BY <1>0, <3>2 DEF RecordPid, At, Run
      <4>2. same(recorded) /\ moved(recorded)  BY <1>0, <4>1 DEF Run
      <4>. QED  BY <4>1, <4>2
    <3>3. CASE Wait(h)
      <4>1. run[h].pc = "wait" /\ next(passed)  BY <1>0, <3>3 DEF Wait, At, Run
      <4>2. run[h].at + 1 \in Nat \ {0}  BY <1>0
      <4>3. same(passed) /\ moved(passed)  BY <1>0, <4>1, <4>2 DEF Run
      <4>. QED  BY <4>1, <4>3
    <3>4. CASE CommandFails(h) \/ EvidenceRejected(h)
      <4>1. run[h].pc = "wait" /\ next(stopped)
        BY <1>0, <3>4 DEF CommandFails, EvidenceRejected, Stopped, At, Run
      <4>2. same(stopped) /\ moved(stopped)  BY <1>0, <4>1 DEF Run
      <4>. QED  BY <4>1, <4>2
    <3>5. CASE OnExit(h)
      <4>1. run[h].pc = "exit" /\ next(ending)  BY <1>0, <3>5 DEF OnExit, At, Run
      <4>2. same(ending) /\ moved(ending)  BY <1>0, <4>1 DEF Run, Sides
      <4>. QED  BY <4>1, <4>2
    <3>. QED  BY <3>1, <3>2, <3>3, <3>4, <3>5
  <2>2. Accounted(h, r, config, by)
    BY <2>1, TidyFacts, StillAccounted DEF Lucky
  <2>3. Serving(h, r, daemons)
    BY <2>1, TidyFacts DEF Serving, Published, Lucky
  <2>. QED  BY <1>1, <2>1, <2>2, <2>3, TidyRunStep
<1>. QED  BY <1>2, <1>3

(***************************************************************************)
(* The background command.                                                 *)
(***************************************************************************)
LEMMA TidyCommand == ASSUME Inv, TidyInv, NEW h \in Harnesses, Command(h) PROVE TidyInv'
<1>1. PICK c \in {"running", "passed", "failed"} :
        run' = [run EXCEPT ![h] = [run[h] EXCEPT !.child = c]]
  BY TidyFacts DEF Command, Connect, Finish
<1>. DEFINE r == [run[h] EXCEPT !.child = c]
<1>2. /\ r \in Run /\ r.temp = run[h].temp /\ r.known = run[h].known
      /\ r.identity = run[h].identity /\ r.pc = run[h].pc /\ r.side = run[h].side
      /\ r.failed = run[h].failed /\ r.unlucky = run[h].unlucky
      /\ r.passing = run[h].passing /\ r.pid = run[h].pid
  <2>1. run[h] \in Run  BY TidyFacts
  <2>. QED  BY <2>1 DEF Run
<1>3. run'[h] = r /\ \A g \in Harnesses : g # h => run'[g] = run[g]
  BY <1>1, TidyFacts
<1>. HIDE DEF r
<1>4. /\ run[h].child # "none" /\ config' = config /\ by' = by
      /\ \A g \in Harnesses, s \in Sides : <<g, s>> \in daemons' => g = h \/ <<g, s>> \in daemons
  BY DEF Command, Connect, Finish, Disk
<1>5. Accounted(h, r, config, by)
  BY <1>2, TidyFacts DEF Accounted, Lucky, Done, Cleaned
<1>6. Serving(h, r, daemons')
  BY <1>2, <1>4, TidyFacts DEF Serving, Published, Lucky
<1>. QED  BY <1>3, <1>4, <1>5, <1>6, TidyStep

(***************************************************************************)
(* A process that ends where no cleanup is due.                            *)
(***************************************************************************)
LEMMA TidyOver ==
  ASSUME Inv, TidyInv, NEW h \in Harnesses, NEW r \in Run,
         r.temp = run[h].temp, r.child \in {"none", run[h].child},
         r.passing => run[h].passing /\ ~r.unlucky,
         r.failed = run[h].failed, run[h].unlucky => r.unlucky,
         r.unlucky \/ run[h].pc = "absent",
         run' = [run EXCEPT ![h] = Over(r)], UNCHANGED Disk
  PROVE  TidyInv'
<1>. DEFINE q == Over(r)
<1>1. /\ q.pc = "ended" /\ q.temp = r.temp /\ q.child = r.child /\ q.passing = r.passing
      /\ q.failed = r.failed /\ q.unlucky = r.unlucky
  BY DEF Over, Run
<1>2. q \in Run
  <2>1. Nowhere \in [Sides -> Inodes \cup {NoFile}]
    BY DEF Nowhere
  <2>2. (IF r.child = "none" THEN 1 ELSE r.at) \in Nat \ {0}
    BY DEF Run
  <2>. DEFINE at == IF r.child = "none" THEN 1 ELSE r.at
  <2>3. q = [r EXCEPT !.pc = "ended", !.side = "a", !.known = Nowhere, !.identity = Nowhere,
                      !.published = {}, !.touched = {}, !.logs = {}, !.pid = FALSE, !.at = at]
    BY DEF Over
  <2>. HIDE DEF q, at
  <2>4. at \in Nat \ {0}  BY <2>2 DEF at
  <2>. QED  BY <2>1, <2>3, <2>4 DEF Run, Sides
<1>3. run' = [run EXCEPT ![h] = q]  OBVIOUS
<1>. HIDE DEF q
<1>4. run[h] \in Run /\ r \in Run /\ Lucky(q) => Lucky(run[h]) /\ run[h].pc = "absent"
  BY <1>1, TidyFacts DEF Lucky
<1>5. Serving(h, q, daemons)
  <2>1. q.passing => Lucky(q)
    BY <1>1, TidyFacts DEF Serving, Lucky
  <2>2. Lucky(q) => q.child = "none" /\ \A s \in Sides : <<h, s>> \notin daemons
    BY <1>1, <1>4, TidyFacts DEF Serving, Lucky
  <2>. QED  BY <1>1, <2>1, <2>2 DEF Serving
<1>6. Accounted(h, q, config, by)
  <2>. SUFFICES ASSUME Lucky(q), NEW s \in Sides
                PROVE  /\ q.temp[s] = NoFile
                       /\ ~(config[Plan[h][s]] # NoFile /\ by[config[Plan[h][s]]] = h)
    BY DEF Accounted
  <2>1. Lucky(run[h]) /\ run[h].pc = "absent"  BY <1>4, TidyFacts
  <2>2. run[h].identity[s] = NoFile
    BY <2>1, TidyFacts DEF Owns, Sides
  <2>. QED  BY <1>1, <2>1, <2>2, TidyFacts DEF Accounted
<1>. QED  BY <1>2, <1>3, <1>5, <1>6, TidyRunStep

LEMMA TidySignal ==
  ASSUME Inv, TidyInv, NEW h \in Harnesses, on_signal(h) \/ Killed(h) PROVE TidyInv'
<1>. DEFINE r == run[h]
            marked  == r.unlucky \/ r.pc \in {"name", "forked", "exit"}
            child   == IF r.pid THEN "none" ELSE r.child
            stopped == [r EXCEPT !.passing = FALSE, !.pc = "exit", !.unlucky = marked,
                                 !.child = child, !.pid = FALSE]
            killed  == [r EXCEPT !.passing = FALSE, !.unlucky = TRUE]
<1>0. run \in [Harnesses -> Run] /\ r \in Run /\ UNCHANGED Disk
  BY TidyFacts DEF on_signal, Killed
<1>1. CASE Killed(h)
  <2>1. run' = [run EXCEPT ![h] = Over(killed)]  BY <1>1 DEF Killed
  <2>2. killed \in Run /\ killed.temp = r.temp /\ killed.child = r.child /\ killed.unlucky
        /\ ~killed.passing /\ killed.failed = r.failed
    BY <1>0 DEF Run
  <2>. QED  BY <1>0, <2>1, <2>2, TidyOver
<1>2. CASE on_signal(h)
  <2>1. r.pc \notin {"kill", "unconfigure", "ended"}  BY <1>2 DEF on_signal
  <2>2. /\ stopped \in Run /\ stopped.temp = r.temp /\ stopped.known = r.known
        /\ stopped.identity = r.identity /\ stopped.pc = "exit" /\ ~stopped.passing
        /\ stopped.failed = r.failed /\ stopped.unlucky = marked
        /\ stopped.child = child
    <3>1. marked \in BOOLEAN /\ child \in {"none", "starting", "running", "passed", "failed"}
      BY <1>0 DEF Run
    <3>. HIDE DEF marked, child
    <3>. QED  BY <1>0, <3>1 DEF Run
  <2>. HIDE DEF stopped
  <2>3. /\ r.unlucky => stopped.unlucky
        /\ ~stopped.unlucky => r.pc \notin {"name", "forked", "exit"} /\ ~r.unlucky
    BY <2>2
  <2>4. Lucky(stopped) => Lucky(r) /\ stopped.child = "none"
    <3>1. ASSUME Lucky(stopped), r.pid PROVE stopped.child = "none"  BY <2>2, <3>1
    <3>2. ASSUME Lucky(stopped), ~r.pid PROVE stopped.child = "none"
      <4>1. Lucky(r) /\ r.pc # "forked"  BY <2>2, <2>3, <3>2 DEF Lucky
      <4>2. r.child = "none"  BY <3>2, <4>1, TidyFacts DEF Serving
      <4>. QED  BY <2>2, <4>2
    <3>. QED  BY <2>2, <2>3, <3>1, <3>2 DEF Lucky
  <2>5. CASE r.pc \in {"absent", "exit"}
    <3>1. run' = [run EXCEPT ![h] = Over(stopped)]
      BY <1>2, <2>5 DEF on_signal, stopped
    <3>2. r.pc = "exit" => stopped.unlucky  BY <2>3
    <3>3. stopped.child \in {"none", r.child}  BY <2>2
    <3>. QED  BY <1>0, <2>2, <2>3, <2>5, <3>1, <3>2, <3>3, TidyOver
  <2>6. CASE r.pc \notin {"absent", "exit"}
    <3>1. run' = [run EXCEPT ![h] = stopped]  BY <1>2, <2>6 DEF on_signal, stopped
    <3>2. Accounted(h, stopped, config, by)
      BY <1>0, <2>1, <2>2, <2>3, <2>4, <2>6, TidyFacts, StillAccounted DEF Lucky
    <3>3. Serving(h, stopped, daemons)
      BY <2>1, <2>2, <2>4, <2>6, TidyFacts DEF Serving, Published
    <3>. QED  BY <1>0, <2>2, <3>1, <3>2, <3>3, TidyRunStep
  <2>. QED  BY <2>5, <2>6
<1>. QED  BY <1>1, <1>2

(***************************************************************************)
(* The installation, step by step.                                         *)
(***************************************************************************)
LEMMA TidyAbsent ==
  ASSUME Inv, TidyInv, NEW h \in Harnesses, require_config_absent(h) PROVE TidyInv'
<1>. DEFINE r == run[h]
            refused == [r EXCEPT !.passing = FALSE]
            second  == [r EXCEPT !.side = "b"]
            ready   == [r EXCEPT !.side = "a", !.pc = "mktemp"]
<1>0. run \in [Harnesses -> Run] /\ r \in Run /\ r.pc = "absent" /\ UNCHANGED Disk
  BY TidyFacts DEF require_config_absent, At
<1>1. CASE config[client(h)] # NoFile
  <2>1. run' = [run EXCEPT ![h] = Over(refused)]
    BY <1>1 DEF require_config_absent
  <2>2. refused \in Run /\ refused.temp = r.temp /\ refused.child = r.child
        /\ ~refused.passing /\ refused.failed = r.failed /\ refused.unlucky = r.unlucky
    BY <1>0 DEF Run
  <2>. HIDE DEF refused
  <2>. QED  BY <1>0, <2>1, <2>2, TidyOver
<1>2. CASE config[client(h)] = NoFile
  <2>1. PICK q \in {second, ready} :
          run' = [run EXCEPT ![h] = q] /\ (q = ready => r.side # "a")
    <3>1. second # ready  BY <1>0 DEF Run
    <3>2. CASE r.side = "a"
      <4>1. run' = [run EXCEPT ![h] = second]  BY <1>2, <3>2 DEF require_config_absent
      <4>. HIDE DEF second, ready
      <4>. QED  BY <3>1, <4>1
    <3>3. CASE r.side # "a"
      <4>1. run' = [run EXCEPT ![h] = ready]  BY <1>2, <3>3 DEF require_config_absent
      <4>. QED  BY <3>3, <4>1
    <3>. QED  BY <3>2, <3>3
  <2>2. /\ q \in Run /\ q.temp = r.temp /\ q.known = r.known /\ q.identity = r.identity
        /\ q.child = r.child /\ q.passing = r.passing
        /\ q.failed = r.failed /\ q.unlucky = r.unlucky
        /\ q.pc = "absent" \/ (q.pc = "mktemp" /\ q.side = "a")
    <3>1. CASE q = second  BY <1>0, <3>1 DEF Run, Sides
    <3>2. CASE q = ready  BY <1>0, <3>2 DEF Run, Sides
    <3>. HIDE DEF second, ready
    <3>. QED  BY <2>1, <3>1, <3>2
  <2>3. Accounted(h, q, config, by)
    BY <1>0, <2>2, TidyFacts DEF Accounted, Lucky, Done, Cleaned
  <2>4. Serving(h, q, daemons)
    BY <1>0, <2>2, TidyFacts DEF Serving, Published, Lucky
  <2>. QED  BY <1>0, <2>1, <2>2, <2>3, <2>4, TidyRunStep
<1>. QED  BY <1>1, <1>2

\* The temporary file is new, and out of sight until it has a name.
LEMMA TidyMakeTemp ==
  ASSUME Inv, TidyInv, NEW h \in Harnesses, MakeTemp(h) PROVE TidyInv'
<1>. DEFINE i == Least(Free)
            r == run[h]
            q == [r EXCEPT !.pc = "name", !.temp = [r.temp EXCEPT ![r.side] = i]]
<1>0. /\ run \in [Harnesses -> Run] /\ r \in Run /\ r.pc = "mktemp"
      /\ config' = config /\ daemons' = daemons
      /\ i \in Free /\ by' = [by EXCEPT ![i] = h]
  BY LeastFree, TidyFacts DEF MakeTemp, At
<1>1. i \in Inodes /\ \A c \in Clients : config[c] # i
  BY <1>0, FreeFacts
<1>2. run' = [run EXCEPT ![h] = q]
  BY <1>0 DEF MakeTemp, Run
<1>. HIDE DEF i
<1>3. r.side \in Sides /\ r.temp \in [Sides -> Inodes \cup {NoFile}]
  BY <1>0 DEF Run
<1>4. /\ q \in Run /\ q.known = r.known /\ q.identity = r.identity /\ q.side = r.side
      /\ q.pc = "name" /\ q.child = r.child /\ q.passing = r.passing
      /\ q.failed = r.failed /\ q.unlucky = r.unlucky
      /\ q.temp = [r.temp EXCEPT ![r.side] = i]
  BY <1>0, <1>1, <1>3 DEF Run
<1>. HIDE DEF q
<1>5. \A s \in Sides : s # r.side => q.temp[s] = r.temp[s]
  BY <1>3, <1>4
<1>6. \A c \in Clients : by'[config[c]] = by[config[c]]
  BY <1>0, <1>1, HarnessFacts
<1>7. \A s \in Sides : Plan[h][s] \in Clients
  BY SmokeAssumption
<1>8. Accounted(h, q, config', by')
  BY <1>0, <1>4, <1>5, <1>6, <1>7, TidyFacts DEF Accounted, Lucky, Done, Cleaned
<1>9. Serving(h, q, daemons')
  BY <1>0, <1>3, <1>4, <1>5, TidyFacts DEF Serving, Published, Lucky, Sides
<1>10. run'[h] = q /\ \A g \in Harnesses : g # h => run'[g] = run[g]
  BY <1>0, <1>2
<1>. QED  BY <1>0, <1>6, <1>8, <1>9, <1>10, TidyStep

\* The name of the temporary file and its identity are stored, and the file
\* is flagged as published.
LEMMA TidyRecord ==
  ASSUME Inv, TidyInv, NEW h \in Harnesses, NameTemp(h) \/ Identify(h) \/ Flag(h) PROVE TidyInv'
<1>. DEFINE r == run[h]
            named == [r EXCEPT !.pc = "stat", !.known = [r.known EXCEPT ![r.side] = r.temp[r.side]]]
            known == [r EXCEPT !.pc = "ln", !.identity = [r.identity EXCEPT ![r.side] = r.known[r.side]]]
            flagged == [r EXCEPT !.pc = "rm", !.published = r.published \cup {r.side}]
            kept(q) == /\ q \in Run /\ q.temp = r.temp /\ q.side = r.side
                       /\ q.child = r.child /\ q.passing = r.passing
                       /\ q.failed = r.failed /\ q.unlucky = r.unlucky
                       /\ q.pc \in {"stat", "ln", "rm"}
<1>0. /\ run \in [Harnesses -> Run] /\ r \in Run /\ UNCHANGED Disk
      /\ r.side \in Sides /\ r.temp \in [Sides -> Inodes \cup {NoFile}]
      /\ r.known \in [Sides -> Inodes \cup {NoFile}]
      /\ r.identity \in [Sides -> Inodes \cup {NoFile}] /\ r.published \in SUBSET Sides
  BY TidyFacts DEF NameTemp, Identify, Flag, Run
<1>1. CASE NameTemp(h)
  <2>1. run' = [run EXCEPT ![h] = named] /\ r.pc = "name"  BY <1>0, <1>1 DEF NameTemp, At, Run
  <2>2. /\ kept(named) /\ named.identity = r.identity
        /\ named.known = [r.known EXCEPT ![r.side] = r.temp[r.side]]
    BY <1>0 DEF Run
  <2>. HIDE DEF named
  <2>3. r.temp[r.side] # NoFile  BY <2>1, TidyFacts DEF Owns
  <2>4. \A s \in Sides : named.known[s] = (IF s = r.side THEN r.temp[s] ELSE r.known[s])
    BY <1>0, <2>2
  <2>5. Accounted(h, named, config, by)
    BY <1>0, <2>1, <2>2, <2>4, TidyFacts DEF Accounted, Lucky, Done, Cleaned
  <2>6. Serving(h, named, daemons)
    BY <2>1, <2>2, TidyFacts DEF Serving, Published, Lucky
  <2>. QED  BY <1>0, <2>1, <2>2, <2>5, <2>6, TidyRunStep
<1>2. CASE Identify(h)
  <2>1. run' = [run EXCEPT ![h] = known] /\ r.pc = "stat"  BY <1>0, <1>2 DEF Identify, At, Run
  <2>2. /\ kept(known) /\ known.known = r.known
        /\ known.identity = [r.identity EXCEPT ![r.side] = r.known[r.side]]
    BY <1>0 DEF Run
  <2>. HIDE DEF known
  <2>3. r.identity[r.side] = NoFile  BY <2>1, TidyFacts DEF Owns
  <2>4. \A s \in Sides : s # r.side => known.identity[s] = r.identity[s]
    BY <1>0, <2>2
  <2>5. Accounted(h, known, config, by)
    BY <1>0, <2>1, <2>2, <2>3, <2>4, TidyFacts DEF Accounted, Lucky, Done, Cleaned
  <2>6. Serving(h, known, daemons)
    BY <1>0, <2>1, <2>2, <2>4, TidyFacts DEF Serving, Published, Lucky, Sides
  <2>. QED  BY <1>0, <2>1, <2>2, <2>5, <2>6, TidyRunStep
<1>3. CASE Flag(h)
  <2>1. run' = [run EXCEPT ![h] = flagged] /\ r.pc = "flag"  BY <1>0, <1>3 DEF Flag, At, Run
  <2>2. kept(flagged) /\ flagged.known = r.known /\ flagged.identity = r.identity
    BY <1>0 DEF Run
  <2>. HIDE DEF flagged
  <2>3. Accounted(h, flagged, config, by)
    BY <1>0, <2>1, <2>2, TidyFacts, StillAccounted DEF Lucky
  <2>4. Serving(h, flagged, daemons)
    BY <2>1, <2>2, TidyFacts DEF Serving, Published, Lucky
  <2>. QED  BY <1>0, <2>1, <2>2, <2>3, <2>4, TidyRunStep
<1>. QED  BY <1>1, <1>2, <1>3

\* The file is published under the identity that was recorded for it.
LEMMA TidyLink == ASSUME Inv, TidyInv, NEW h \in Harnesses, Link(h) PROVE TidyInv'
<1>. DEFINE r == run[h]
            q == [r EXCEPT !.pc = "flag"]
            i == r.known[r.side]
<1>0. /\ run \in [Harnesses -> Run] /\ r \in Run /\ r.pc = "ln"
      /\ by' = by /\ daemons' = daemons
  BY TidyFacts DEF Link, At
<1>1. CASE config[client(h)] # NoFile
  BY <1>0, <1>1, TidyFail DEF Link, Disk
<1>2. CASE config[client(h)] = NoFile
  <2>1. run' = [run EXCEPT ![h] = q] /\ config' = [config EXCEPT ![client(h)] = i]
    BY <1>0, <1>2 DEF Link, Goto
  <2>2. /\ q \in Run /\ q.temp = r.temp /\ q.known = r.known /\ q.identity = r.identity
        /\ q.side = r.side /\ q.pc = "flag" /\ q.child = r.child /\ q.passing = r.passing
        /\ q.failed = r.failed /\ q.unlucky = r.unlucky
    BY <1>0 DEF Run
  <2>. HIDE DEF q
  <2>3. i = r.identity[r.side] /\ by[i] = h
    BY <1>0, TidyFacts, SideFacts DEF Owns, Inv
  <2>. HIDE DEF i
  <2>4. /\ client(h) = Plan[h][r.side] /\ client(h) \in Clients
        /\ \A s \in Sides : Plan[h][s] \in Clients /\ (s # r.side => Plan[h][s] # client(h))
    BY SideFacts, TidyFacts DEF Inv, Sides
  <2>5. config'[client(h)] = i /\ \A c \in Clients : c # client(h) => config'[c] = config[c]
    BY <2>1, <2>4, HarnessFacts
  <2>6. Accounted(h, q, config', by')
    BY <1>0, <2>2, <2>3, <2>4, <2>5, TidyFacts DEF Accounted, Lucky, Done, Cleaned
  <2>7. Serving(h, q, daemons')
    BY <1>0, <2>2, TidyFacts DEF Serving, Published, Lucky
  <2>8. run'[h] = q /\ \A g \in Harnesses : g # h => run'[g] = run[g]
    BY <1>0, <2>1
  <2>. QED  BY <1>0, <2>3, <2>5, <2>6, <2>7, <2>8, TidyStep
<1>. QED  BY <1>1, <1>2

\* With the temporary name gone the published one is all there is.
LEMMA TidyRemoveTemp == ASSUME Inv, TidyInv, NEW h \in Harnesses, RemoveTemp(h) PROVE TidyInv'
<1>. DEFINE r == run[h]
            pc == IF r.side = "a" THEN "mktemp" ELSE "prepare"
            q == [r EXCEPT !.temp = [r.temp EXCEPT ![r.side] = NoFile],
                           !.known = [r.known EXCEPT ![r.side] = NoFile],
                           !.side = "b", !.pc = pc]
<1>0. /\ run \in [Harnesses -> Run] /\ r \in Run /\ r.pc = "rm" /\ UNCHANGED Disk
      /\ r.side \in Sides /\ r.temp \in [Sides -> Inodes \cup {NoFile}]
      /\ r.known \in [Sides -> Inodes \cup {NoFile}]
  BY TidyFacts DEF RemoveTemp, At, Run
<1>1. run' = [run EXCEPT ![h] = q]
  BY <1>0 DEF RemoveTemp, Run
<1>2. /\ q \in Run /\ q.identity = r.identity /\ q.side = "b" /\ q.child = r.child
      /\ q.passing = r.passing /\ q.failed = r.failed /\ q.unlucky = r.unlucky
      /\ q.pc = (IF r.side = "a" THEN "mktemp" ELSE "prepare")
      /\ q.temp = [r.temp EXCEPT ![r.side] = NoFile]
      /\ q.known = [r.known EXCEPT ![r.side] = NoFile]
  <2>1. pc \in {"mktemp", "prepare"}  OBVIOUS
  <2>. HIDE DEF pc
  <2>2. /\ q \in Run /\ q.identity = r.identity /\ q.side = "b" /\ q.child = r.child
        /\ q.passing = r.passing /\ q.failed = r.failed /\ q.unlucky = r.unlucky
        /\ q.pc = pc
        /\ q.temp = [r.temp EXCEPT ![r.side] = NoFile]
        /\ q.known = [r.known EXCEPT ![r.side] = NoFile]
    BY <1>0, <2>1 DEF Run, Sides
  <2>. QED  BY <2>2 DEF pc
<1>. HIDE DEF q
<1>3. /\ q.temp[r.side] = NoFile
      /\ \A s \in Sides : s # r.side => q.temp[s] = r.temp[s] /\ q.known[s] = r.known[s]
  BY <1>0, <1>2
<1>4. r.identity[r.side] # NoFile
  BY <1>0, TidyFacts DEF Owns
<1>5. Accounted(h, q, config, by)
  BY <1>0, <1>2, <1>3, TidyFacts DEF Accounted, Lucky, Done, Cleaned
<1>6. Serving(h, q, daemons)
  <2>1. CASE r.side = "a"
    BY <1>0, <1>2, <1>3, <1>4, <2>1, TidyFacts DEF Serving, Published, Lucky
  <2>2. CASE r.side = "b"
    BY <1>0, <1>2, <1>3, <1>4, <2>2, TidyFacts DEF Serving, Published, Lucky, Sides
  <2>. QED  BY <2>1, <2>2, TidyFacts
<1>. QED  BY <1>0, <1>1, <1>2, <1>5, <1>6, TidyRunStep

(***************************************************************************)
(* The cleanup, first of the daemons, then of the files.                   *)
(***************************************************************************)
LEMMA TidyKill == ASSUME Inv, TidyInv, NEW h \in Harnesses, cleanup_client(h) PROVE TidyInv'
<1>. DEFINE r == run[h]
            child  == IF r.child = "running" /\ CommandSide(h) = r.side THEN "none" ELSE r.child
            killed == [r EXCEPT !.child = child]
            \* a kill that did its work, or was not needed
            gone == \A s \in Sides : <<h, s>> \in daemons' => <<h, s>> \in daemons /\ s # r.side
<1>0. /\ run \in [Harnesses -> Run] /\ r \in Run /\ r.pc = "kill" /\ r.side \in {"a", "b"}
      /\ config' = config /\ by' = by
  BY TidyFacts DEF cleanup_client, At
<1>1. PICK k : /\ run' = [run EXCEPT ![h] = AfterKill(k)]
               /\ daemons' \subseteq daemons
               /\ \A g \in Harnesses, s \in Sides : g # h /\ <<g, s>> \in daemons' => <<g, s>> \in daemons
               /\ \/ k \in {killed, r} /\ gone
                  \/ k = Failing(r)
  <2>1. CASE /\ daemons' = daemons \ {<<h, r.side>>}
             /\ run' = [run EXCEPT ![h] = AfterKill(killed)]
    <3>. HIDE DEF killed
    <3>. QED  BY <2>1
  <2>2. CASE daemons' = daemons /\ run' = [run EXCEPT ![h] = AfterKill(Failing(r))]
    BY <2>2
  <2>3. CASE daemons' = daemons /\ r.side \notin r.touched /\ run' = [run EXCEPT ![h] = AfterKill(r)]
    <3>1. <<h, r.side>> \notin daemons
      BY <1>0, <2>3 DEF Inv, TypeOK, Ended
    <3>. QED  BY <2>3, <3>1
  <2>4. cleanup_client(h) => \/ /\ daemons' = daemons \ {<<h, r.side>>}
                                /\ run' = [run EXCEPT ![h] = AfterKill(killed)]
                             \/ daemons' = daemons /\ run' = [run EXCEPT ![h] = AfterKill(Failing(r))]
                             \/ /\ daemons' = daemons /\ r.side \notin r.touched
                                /\ run' = [run EXCEPT ![h] = AfterKill(r)]
    <3>. HIDE DEF child
    <3>. QED  BY Zenon DEF cleanup_client, child
  <2>. QED  BY <2>1, <2>2, <2>3, <2>4
<1>2. /\ k \in Run /\ k.temp = r.temp /\ k.known = r.known /\ k.identity = r.identity
      /\ k.pc = r.pc /\ k.side = r.side /\ k.unlucky = r.unlucky
      /\ k.child \in {"none", r.child}
      /\ k.failed \/ (k.failed = r.failed /\ gone)
      /\ k.passing => r.passing /\ k.failed = r.failed
  <2>1. child \in {"none", "starting", "running", "passed", "failed"} /\ child \in {"none", r.child}
    BY <1>0 DEF Run
  <2>. HIDE DEF child, gone
  <2>2. CASE k = killed /\ gone  BY <1>0, <2>1, <2>2 DEF Run
  <2>3. CASE k = Failing(r)  BY <1>0, <2>3 DEF Failing, Run
  <2>4. CASE k = r /\ gone  BY <1>0, <2>4
  <2>. HIDE DEF killed
  <2>. QED  BY <1>1, <2>2, <2>3, <2>4
<1>. DEFINE q == AfterKill(k)
<1>3. /\ q \in Run /\ q.temp = k.temp /\ q.known = k.known /\ q.identity = k.identity
      /\ q.child = k.child /\ q.failed = k.failed /\ q.unlucky = k.unlucky
      /\ q.passing = k.passing
      /\ \/ r.side = "a" /\ q.pc = "kill" /\ q.side = "b"
         \/ r.side = "b" /\ q.pc = "unconfigure" /\ q.side = "a"
  <2>1. CASE r.side = "a"  BY <1>0, <1>2, <2>1 DEF AfterKill, Run, Sides
  <2>2. CASE r.side = "b"  BY <1>0, <1>2, <2>2 DEF AfterKill, Run, Sides
  <2>. QED  BY <1>0, <2>1, <2>2
<1>. HIDE DEF q
<1>4. Lucky(q) => Lucky(r) /\ gone
  BY <1>2, <1>3 DEF Lucky
<1>5. Accounted(h, q, config, by)
  BY <1>0, <1>2, <1>3, <1>4, TidyFacts, StillAccounted
<1>6. Serving(h, q, daemons')
  <2>1. q.passing => Lucky(q)
    BY <1>2, <1>3, TidyFacts DEF Serving, Lucky
  <2>2. Lucky(q) => q.child = "none"
    BY <1>0, <1>2, <1>3, <1>4, TidyFacts DEF Serving
  <2>3. ASSUME Lucky(q), NEW s \in Sides, <<h, s>> \in daemons'
        PROVE  /\ q.pc = "kill" /\ q.side = "b" /\ s = "b"
               /\ Published(q, "a") /\ Published(q, "b")
    <3>1. <<h, s>> \in daemons /\ s # r.side  BY <1>4, <2>3
    <3>2. /\ r.side = "b" => s = "b"
          /\ Published(r, "a") /\ Published(r, "b")
      BY <1>0, <1>4, <2>3, <3>1, TidyFacts DEF Serving
    <3>. QED  BY <1>0, <1>2, <1>3, <3>1, <3>2 DEF Published, Sides
  <2>. QED  BY <1>3, <2>1, <2>2, <2>3 DEF Serving
<1>7. run'[h] = q /\ \A g \in Harnesses : g # h => run'[g] = run[g]
  BY <1>0, <1>1 DEF q
<1>. QED  BY <1>0, <1>1, <1>5, <1>6, <1>7, TidyStep

\* What cleanup_client_config does to the run: with nothing refused and no
\* failed removal the side is clean.
LEMMA TidyUnconfigure ==
  ASSUME Inv, TidyInv, NEW h \in Harnesses, cleanup_client_config(h) PROVE TidyInv'
<1>. DEFINE r == run[h]
            i == IF r.known[r.side] # NoFile THEN NoFile ELSE r.temp[r.side]
            left == [r EXCEPT !.temp = [r.temp EXCEPT ![r.side] = i]]
            present == config[client(h)] # NoFile
            refused == (present /\ ~Mine(h)) \/ (~present /\ r.side \in r.published)
<1>0. /\ run \in [Harnesses -> Run] /\ r \in Run /\ r.pc = "unconfigure" /\ r.side \in {"a", "b"}
      /\ daemons' = daemons
      /\ by' = [j \in Inodes |-> IF j \in InUse' THEN by[j] ELSE None]
      /\ r.temp \in [Sides -> Inodes \cup {NoFile}] /\ r.side \in Sides
  BY TidyFacts DEF cleanup_client_config, At, Run
<1>1. /\ client(h) = Plan[h][r.side] /\ client(h) \in Clients
      /\ \A s \in Sides : Plan[h][s] \in Clients /\ (s # r.side => Plan[h][s] # client(h))
  BY <1>0, SideFacts DEF Inv, Sides
<1>2. PICK k : /\ run' = [run EXCEPT ![h] = AfterRemoval(k)]
               /\ \/ k = left /\ config'[client(h)] = NoFile
                  \/ k = Failing(left)
                  \/ k = Failing(r)
               /\ config' \in [Clients -> Inodes \cup {NoFile}]
               /\ \A c \in Clients : config'[c] = config[c] \/ (c = client(h) /\ config'[c] = NoFile)
  <2>0. left = [r EXCEPT !.temp[r.side] = i]
    BY <1>0 DEF Run
  <2>1. PICK k \in {left, r} :
          \/ /\ config' = config
             /\ run' = [run EXCEPT ![h] = AfterRemoval(Failing(k))]
          \/ /\ config' = [config EXCEPT ![client(h)] = IF Mine(h) THEN NoFile ELSE @]
             /\ run' = [run EXCEPT ![h] =
                          AfterRemoval(IF refused \/ k # left THEN Failing(k) ELSE k)]
    <3>. HIDE DEF left, i
    <3>. QED  BY <2>0 DEF cleanup_client_config, i
  <2>2. /\ config' \in [Clients -> Inodes \cup {NoFile}]
        /\ \A c \in Clients : config'[c] = config[c] \/ (c = client(h) /\ config'[c] = NoFile)
    BY <1>1, <2>1, HarnessFacts
  <2>3. CASE run' = [run EXCEPT ![h] = AfterRemoval(Failing(k))]
    BY <2>1, <2>2, <2>3
  <2>4. CASE /\ config' = [config EXCEPT ![client(h)] = IF Mine(h) THEN NoFile ELSE @]
             /\ run' = [run EXCEPT ![h] =
                          AfterRemoval(IF refused \/ k # left THEN Failing(k) ELSE k)]
    <3>1. ~refused => config'[client(h)] = NoFile
      BY <1>1, <2>4, HarnessFacts
    <3>. HIDE DEF left, refused, r
    <3>2. CASE refused \/ k # left
      BY <2>1, <2>2, <2>4, <3>2
    <3>3. CASE ~refused /\ k = left
      BY <2>2, <2>4, <3>1, <3>3
    <3>. QED  BY <3>2, <3>3
  <2>. QED  BY <2>1, <2>3, <2>4
<1>3. /\ k \in Run /\ k.pc = "unconfigure" /\ k.side = r.side /\ k.identity = r.identity
      /\ k.known = r.known /\ k.child = r.child /\ k.unlucky = r.unlucky
      /\ k.temp \in [Sides -> Inodes \cup {NoFile}]
      /\ ~k.failed => k.temp = [r.temp EXCEPT ![r.side] = i]
      /\ k.passing => r.passing /\ k.failed = r.failed
      /\ ~k.failed => ~r.failed /\ config'[client(h)] = NoFile
  <2>1. i \in Inodes \cup {NoFile}
    BY <1>0
  <2>. HIDE DEF i
  <2>2. CASE k = left /\ config'[client(h)] = NoFile
    BY <1>0, <2>1, <2>2 DEF Run
  <2>3. CASE k = Failing(left)
    BY <1>0, <2>1, <2>3 DEF Failing, Run
  <2>4. CASE k = Failing(r)
    BY <1>0, <2>1, <2>4 DEF Failing, Run
  <2>. QED  BY <1>2, <2>2, <2>3, <2>4
<1>. HIDE DEF left
<1>. DEFINE q == AfterRemoval(k)
<1>4. /\ q.temp = k.temp /\ q.child = k.child /\ q.failed = k.failed
      /\ q.unlucky = k.unlucky /\ q.passing = k.passing
      /\ \/ /\ r.side = "a" /\ q.pc = "unconfigure" /\ q.side = "b"
            /\ q.known = r.known /\ q.identity = r.identity
         \/ r.side = "b" /\ q.pc = "ended"
  <2>1. CASE r.side = "a"  BY <1>3, <2>1 DEF AfterRemoval, Run, Sides
  <2>2. CASE r.side = "b"  BY <1>3, <2>2 DEF AfterRemoval, Over, Run
  <2>. QED  BY <1>0, <2>1, <2>2
<1>. HIDE DEF q
<1>5. \A c \in Clients : config'[c] # NoFile => config'[c] = config[c] /\ by'[config'[c]] = by[config[c]]
  <2>. SUFFICES ASSUME NEW c \in Clients, config'[c] # NoFile
                PROVE  config'[c] = config[c] /\ by'[config'[c]] = by[config[c]]
    OBVIOUS
  <2>1. config'[c] = config[c] /\ config'[c] \in Inodes
    BY <1>2
  <2>2. config'[c] \in InUse'
    BY DEF InUse
  <2>. QED  BY <1>0, <2>1, <2>2
<1>6. Accounted(h, q, config', by')
  <2>. SUFFICES ASSUME Lucky(q), NEW s \in Sides
                PROVE  /\ q.temp[s] # NoFile =>
                            /\ q.pc # "absent" /\ ~Done(q, s)
                            /\ q.known[s] # NoFile \/ (q.pc = "name" /\ q.side = s)
                       /\ config'[Plan[h][s]] # NoFile /\ by'[config'[Plan[h][s]]] = h =>
                            q.identity[s] = config'[Plan[h][s]] /\ ~Done(q, s)
    BY DEF Accounted
  <2>1. Lucky(r) /\ config'[client(h)] = NoFile
    BY <1>3, <1>4 DEF Lucky
  <2>0. q.temp = [r.temp EXCEPT ![r.side] = i]
    BY <1>3, <1>4 DEF Lucky
  <2>2. /\ r.temp[s] # NoFile => r.known[s] # NoFile /\ ~Cleaned(r, s)
        /\ config[Plan[h][s]] # NoFile /\ by[config[Plan[h][s]]] = h =>
             r.identity[s] = config[Plan[h][s]] /\ ~Cleaned(r, s)
    BY <1>0, <2>1, TidyFacts DEF Accounted, Done
  <2>3. CASE s = r.side
    <3>1. q.temp[s] = NoFile
      BY <1>0, <2>0, <2>2, <2>3
    <3>. QED  BY <1>1, <2>1, <2>3, <3>1
  <2>4. CASE s # r.side
    <3>1. q.temp[s] = r.temp[s]
      BY <1>0, <2>0, <2>4
    <3>2. CASE r.side = "a"
      BY <1>1, <1>4, <1>5, <2>2, <2>4, <3>1, <3>2 DEF Done, Cleaned, Sides
    <3>3. CASE r.side = "b"
      <4>1. Cleaned(r, s)  BY <1>0, <2>4, <3>3 DEF Cleaned, Sides
      <4>. QED  BY <1>1, <1>5, <2>2, <3>1, <4>1
    <3>. QED  BY <1>0, <3>2, <3>3
  <2>. QED  BY <2>3, <2>4
<1>7. Serving(h, q, daemons')
  <2>1. q.passing => Lucky(q)
    BY <1>3, <1>4, TidyFacts DEF Serving, Lucky
  <2>2. Lucky(q) => Lucky(r)
    BY <1>3, <1>4 DEF Lucky
  <2>3. Lucky(q) => q.child = "none" /\ \A s \in Sides : <<h, s>> \notin daemons
    BY <1>0, <1>3, <1>4, <2>2, TidyFacts DEF Serving
  <2>. QED  BY <1>0, <1>4, <2>1, <2>3 DEF Serving
<1>8. run'[h] = q /\ \A g \in Harnesses : g # h => run'[g] = run[g]
  BY <1>0, <1>2 DEF q
<1>. QED  BY <1>0, <1>5, <1>6, <1>7, <1>8, TidyStep

\* An operator's file is nobody's.
LEMMA TidyUser == ASSUME Inv, TidyInv, NEW c \in Clients, UserCreates(c) PROVE TidyInv'
<1>. DEFINE i == Least(Free)
<1>1. /\ i \in Free /\ config' = [config EXCEPT ![c] = i] /\ by' = [by EXCEPT ![i] = User]
      /\ run' = run /\ daemons' = daemons
  BY LeastFree DEF UserCreates
<1>2. i \in Inodes /\ \A d \in Clients : config[d] # i
  BY <1>1, FreeFacts
<1>. HIDE DEF i
<1>3. User \notin Harnesses  BY SmokeAssumption
<1>4. /\ config \in [Clients -> Inodes \cup {NoFile}]
      /\ by \in [Inodes -> Harnesses \cup {User, None}]
  BY DEF Inv, TypeOK
<1>5. ASSUME NEW d \in Clients, config'[d] # NoFile, by'[config'[d]] # User
      PROVE  config'[d] = config[d] /\ by'[config'[d]] = by[config'[d]]
  BY <1>1, <1>2, <1>4, <1>5
<1>. QED  BY <1>1, <1>3, <1>5, TidyStep

(***************************************************************************)
(* The invariant, from the first state on.                                 *)
(***************************************************************************)
LEMMA TidyInit == ASSUME Init PROVE TidyInv
<1>. SUFFICES ASSUME NEW h \in Harnesses PROVE Tidy(h)
  BY DEF TidyInv
<1>1. PICK stage : run[h] = Invocation(stage, IF h \in Reused THEN {"a"} ELSE {})
  BY DEF Init
<1>2. /\ run[h].pc = "absent" /\ run[h].temp = Nowhere /\ run[h].child = "none"
      /\ ~run[h].failed /\ ~run[h].unlucky
  BY <1>1 DEF Invocation
<1>3. daemons = {} /\ \A s \in Sides : config[Plan[h][s]] = NoFile /\ run[h].temp[s] = NoFile
  BY <1>2, SmokeAssumption DEF Init, Nowhere
<1>. QED  BY <1>2, <1>3 DEF Tidy, Serving, Accounted, Lucky

LEMMA TidyNext == ASSUME Inv, TidyInv, [Next]_vars PROVE TidyInv'
<1>1. ASSUME NEW h \in Harnesses, InstallFails(h) PROVE TidyInv'
  BY <1>1, TidyFail DEF InstallFails
<1>2. ASSUME NEW h \in Harnesses, Step(h) PROVE TidyInv'
  BY <1>1, <1>2, TidyAbsent, TidyMakeTemp, TidyRecord, TidyLink, TidyRemoveTemp, TidyLaunch,
     TidyWaiting, TidyKill, TidyUnconfigure DEF Step
<1>3. ASSUME UNCHANGED vars PROVE TidyInv'
  BY <1>3 DEF vars, TidyInv, Tidy
<1>. QED  BY <1>2, <1>3, TidyCommand, TidySignal, TidyUser DEF Next, AllEnded

LEMMA AlwaysTidy == Spec => [](Inv /\ TidyInv)
<1>1. Init => Inv /\ TidyInv  BY InitInv, TidyInit
<1>2. Inv /\ TidyInv /\ [Next]_vars => (Inv /\ TidyInv)'  BY NextInv, TidyNext
<1>. QED  BY <1>1, <1>2, PTL DEF Spec

(***************************************************************************)
(* A run that reports success leaves no file, no daemon and no command in  *)
(* the checkouts; nor does any other, unless a step of its cleanup failed  *)
(* or it was stopped where the handlers of smoke-test.sh do not look.      *)
(***************************************************************************)
THEOREM NothingIsLeft == Spec => []LeavesNothing
<1>1. ASSUME TidyInv PROVE LeavesNothing
  <2>. SUFFICES ASSUME NEW h \in Harnesses, Ended(h),
                       run[h].passing \/ ~(run[h].failed \/ run[h].unlucky)
                PROVE  ~Leaves(h)
    BY DEF LeavesNothing
  <2>1. Lucky(run[h]) /\ Serving(h, run[h], daemons) /\ Accounted(h, run[h], config, by)
    BY <1>1 DEF TidyInv, Tidy, Serving, Lucky
  <2>2. run[h].child = "none" /\ \A s \in Sides : <<h, s>> \notin daemons
    BY <2>1 DEF Serving, Ended
  <2>. QED  BY <2>1, <2>2 DEF Leaves, Accounted, Done, Ended
<1>. QED  BY <1>1, AlwaysTidy, PTL

(***************************************************************************)
(* buck runs, and its daemon stays, in a checkout only while the settings  *)
(* there are the ones the run installed: the files go after the daemons.   *)
(***************************************************************************)
THEOREM OwnSettingsInPlace == Spec => []RunsUnderOwnConfig
<1>1. ASSUME Inv, TidyInv PROVE RunsUnderOwnConfig
  <2>. SUFFICES ASSUME NEW h \in Harnesses, NEW s \in Sides, ~run[h].failed, ~run[h].unlucky,
                       <<h, s>> \in daemons \/ run[h].child # "none"
                PROVE  config[Plan[h][s]] # NoFile /\ by[config[Plan[h][s]]] = h
    BY DEF RunsUnderOwnConfig
  <2>1. /\ Published(run[h], s)
        /\ run[h].pc \in {"launch", "forked", "wait", "exit", "kill"}
    BY <1>1, TidyFacts DEF Serving, Lucky, Sides
  <2>2. run[h].identity[s] \in {run[h].temp[s], config[Plan[h][s]]} /\ by[run[h].identity[s]] = h
    BY <1>1, <2>1, TidyFacts DEF Owns, Published, Cleaned
  <2>. QED  BY <2>1, <2>2 DEF Published
<1>. QED  BY <1>1, AlwaysTidy, PTL

=============================================================================
