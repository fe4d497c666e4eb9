--------------------------- MODULE PreflightProofs ---------------------------
(* Theorems about Preflight and the launcher it composes, for every host, every *)
(* call and any number of faults.                                              *)
EXTENDS Preflight, TLAPS

-----------------------------------------------------------------------------
(* The launcher.  Before the shell is started nothing has happened; a shell that *)
(* lives holds the ready pipe, so that an empty read means there is none; the    *)
(* byte on the go pipe is written when the maps are in, or to nobody.            *)
LauncherType ==
  /\ driver = [pc |-> driver.pc, mode |-> driver.mode, result |-> driver.result]
  /\ command \in {None, "running", "ok", "bad"}
  /\ maps \subseteq Ids
  /\ go \in BOOLEAN

Unstarted ==
  /\ At("start") => driver.mode = None
  /\ driver.pc \in {"start", "admit", "pipes", "spawn"} =>
                shell = "none" /\ maps = {} /\ command = None /\ ~go

MapsFirst ==
  /\ ShellLives => "shell" \in readyW
  /\ At("go") \/ go => maps = Ids \/ shell \in Gone
  /\ shell \in {"entering", "running"} => maps = Ids
  /\ driver.mode = "bwrap" /\ driver.pc \in {"open", "command", "waitCommand"} => maps = Ids
  /\ driver.mode = "bwrap" /\ command # None => maps = Ids

(* Under bwrap the shell is never let go: the command is the driver's own.       *)
HeldUnderBwrap ==
  driver.mode = "bwrap" =>
    /\ ~At("go") /\ ~At("wait") /\ ~go /\ shell \notin {"entering", "running"}
    /\ command = "running" => At("waitCommand")
    /\ At("over") => shell \in {"none", "reaped"} \/ driver.result = "cut"
    /\ ~(driver.pc \in {"admit", "over", "killed"}) => ~call.shadows
    /\ At("over") /\ driver.result = "ok" => ~call.shadows

(* The mode a call asked for by name is the mode it runs in. *)
ModeIsAsked ==
  call.op = "run" /\ call.isolation = "bwrap" /\ ~(driver.pc \in {"start", "killed"})
    => driver.mode = "bwrap"

LauncherInv == LauncherType /\ Unstarted /\ MapsFirst /\ HeldUnderBwrap /\ ModeIsAsked
-----------------------------------------------------------------------------
(* The preflight.  While nothing was raised and nothing failed, what is behind   *)
(* it holds of the worker. *)
ScratchHolds == facts.scratch = "usable" /\ facts.bytes /\ InodesOK

Holding(name) ==
  CASE name = "identity" -> facts.user = "service"
    [] name = "userns"   -> facts.userns_max = "on" /\ facts.userns_clone \in {"on", "absent"}
    [] name = "tools"    -> resolved = RequiredTools /\ facts.features
    [] name = "ranges"   -> ValidRange(facts.uid, WorkerId.uid) /\ ValidRange(facts.gid, WorkerId.gid)
    [] name = "scratch"  -> ScratchHolds /\ facts.hardlinks
    [] name = "architecture" -> \/ facts.target = facts.native
                                \/ /\ facts.target = "aarch64" /\ facts.native = "x86_64"
                                   /\ facts.emulated /\ facts.binfmt
    [] name = "probe"    -> facts.probe = "usable" /\ facts.probe_machine = facts.target
    [] name = "paths"    -> facts.disjoint
Established == {name \in Prerequisites : Holding(name)}

ChecksHold ==
  pf.raised = "no" =>
    /\ pf.ok \subseteq Established
    /\ Turn("operations") => ScratchHolds
    /\ Turn("operated") /\ "scratch-operations" \notin pf.fails => ScratchHolds /\ facts.hardlinks

Flawless == pf.raised = "no" /\ pf.fails = {}
AfterDecide == {"mkdtemp", "copy", "enter", "sandbox", "record", "owners",
                "finally", "removing", "rmtree", "finish"}
Decided == Flawless /\ pf.pc \in AfterDecide => Prerequisites \subseteq pf.ok

SandboxReturned ==
  /\ Turn("sandbox") => /\ call.op = "run" /\ call.isolation = "bwrap"
                        /\ call.shadows = facts.ships_build
  /\ Flawless /\ pf.pc \in {"record", "owners", "finally"} =>
       driver.pc = "over" /\ driver.mode = "bwrap" /\ ~facts.ships_build

ProbeFound ==
  /\ results.there => facts.inside \subseteq results.failing
  /\ \A o \in DOMAIN owners : Mapped(o)

Proved ==
  /\ results.there /\ results.failing = {} /\ ~facts.ships_build
  /\ \A o \in Owners : o \in DOMAIN owners /\ owners[o] = expected(o)

ProofKept ==
  /\ Flawless /\ Turn("owners") => results.there /\ results.failing = {}
  /\ Flawless /\ pf.pc \in {"finally", "removing", "finish"} => Proved
  /\ pf.pc \in {"removing", "finish"} /\ Flawless => call.op = "remove"
  /\ Turn("rmtree") => pf.fails # {}
  /\ pf.exit = "0" => /\ Turn("over") /\ call.op = "remove" /\ Proved
                      /\ Flawless /\ Prerequisites \subseteq pf.ok

PreflightType ==
  /\ pf = [pc |-> pf.pc, ok |-> pf.ok, fails |-> pf.fails, raised |-> pf.raised,
           hitch |-> pf.hitch, exit |-> pf.exit]
  /\ Turn("none") \/ facts \in Facts

PreflightInv == /\ PreflightType /\ ChecksHold /\ Decided /\ SandboxReturned
                /\ ProbeFound /\ ProofKept

-----------------------------------------------------------------------------
(* What the driver does keeps the launcher's invariant. *)
LEMMA DriverKeeps == LauncherInv /\ DriverStep => LauncherInv'
<1>. SUFFICES ASSUME LauncherInv, DriverStep PROVE LauncherInv'  OBVIOUS
<1>. USE DEF LauncherInv, At, Gone, ShellLives, Given, Pipes, None, Ids
<1>1. ASSUME Start PROVE LauncherInv'
  <2>1. /\ driver' = [pc |-> driver'.pc, mode |-> driver'.mode, result |-> driver'.result]
        /\ \/ driver'.pc = "admit" /\ call.op = "run" /\ driver'.mode = resolve_isolation
           \/ driver'.pc = "pipes" /\ driver'.mode = "remove" /\ call.op = "remove"
           \/ driver'.pc = "over" /\ driver'.mode = None /\ call.op = "remove"
    BY <1>1 DEF Goto, End, Raise, LauncherType, Start, resolve_isolation, Tools, Unstarted, At
  <2>2. LauncherType'  BY <1>1, <2>1 DEF LauncherType, Start, resolve_isolation, Tools, Unstarted
  <2>3. Unstarted'  BY <1>1, <2>1 DEF Unstarted, Start, resolve_isolation, Tools
  <2>4. MapsFirst'  BY <1>1, <2>1 DEF MapsFirst, Start, resolve_isolation, Tools, Unstarted
  <2>5. HeldUnderBwrap'  BY <1>1, <2>1
         DEF HeldUnderBwrap, Start, resolve_isolation, Tools, Unstarted
  <2>6. ModeIsAsked'
    <3>1. call.isolation = "bwrap" => resolve_isolation = "bwrap"  BY DEF resolve_isolation
    <3>2. call' = call  BY <1>1 DEF Start
    <3>. QED  BY <2>1, <3>1, <3>2 DEF ModeIsAsked
  <2>. QED  BY <2>2, <2>3, <2>4, <2>5, <2>6
<1>2. ASSUME Admit PROVE LauncherInv'
  <2>1. /\ driver' = [pc |-> driver'.pc, mode |-> driver'.mode, result |-> driver'.result]
        /\ \/ driver'.pc = "command" /\ driver'.mode \in {"none", "degraded"} /\ driver.mode # "bwrap"
           \/ driver'.pc = "pipes" /\ driver'.mode = driver.mode /\ ~call.shadows
           \/ driver'.pc = "over" /\ driver'.mode = driver.mode /\ driver'.result = "refused"
    BY <1>2 DEF Goto, End, Raise, LauncherType, Admit, Admitted, Tools, Admitted
  <2>2. LauncherType'  BY <1>2, <2>1 DEF LauncherType, Admit, Admitted, Tools, Unstarted
  <2>3. Unstarted'  BY <1>2, <2>1 DEF Unstarted, Admit, Admitted, Tools
  <2>4. MapsFirst'  BY <1>2, <2>1 DEF MapsFirst, Admit, Admitted, Tools, Unstarted
  <2>5. HeldUnderBwrap'  BY <1>2, <2>1 DEF HeldUnderBwrap, Admit, Admitted, Tools, Unstarted
  <2>6. ModeIsAsked'  BY <1>2, <2>1 DEF ModeIsAsked, Admit, Admitted, Tools, Unstarted
  <2>. QED  BY <2>2, <2>3, <2>4, <2>5, <2>6
<1>3. ASSUME MakePipes PROVE LauncherInv'
  <2>1. /\ driver' = [pc |-> driver'.pc, mode |-> driver'.mode, result |-> driver'.result]
        /\ driver'.pc = "spawn" /\ driver'.mode = driver.mode
    BY <1>3 DEF Goto, End, Raise, LauncherType, MakePipes
  <2>2. LauncherType'  BY <1>3, <2>1 DEF LauncherType, MakePipes, Unstarted
  <2>3. Unstarted'  BY <1>3, <2>1 DEF Unstarted, MakePipes
  <2>4. MapsFirst'  BY <1>3, <2>1 DEF MapsFirst, MakePipes, Unstarted
  <2>5. HeldUnderBwrap'  BY <1>3, <2>1 DEF HeldUnderBwrap, MakePipes, Unstarted
  <2>6. ModeIsAsked'  BY <1>3, <2>1 DEF ModeIsAsked, MakePipes, Unstarted
  <2>. QED  BY <2>2, <2>3, <2>4, <2>5, <2>6
<1>4. ASSUME Spawn PROVE LauncherInv'
  <2>1. /\ driver' = [pc |-> driver'.pc, mode |-> driver'.mode, result |-> driver'.result]
        /\ driver'.pc = "closeTheirs" /\ driver'.mode = driver.mode
    BY <1>4 DEF Goto, End, Raise, LauncherType, Spawn
  <2>2. LauncherType'  BY <1>4, <2>1 DEF LauncherType, Spawn, Unstarted
  <2>3. Unstarted'  BY <1>4, <2>1 DEF Unstarted, Spawn
  <2>4. MapsFirst'  BY <1>4, <2>1 DEF MapsFirst, Spawn, Unstarted
  <2>5. HeldUnderBwrap'  BY <1>4, <2>1 DEF HeldUnderBwrap, Spawn, Unstarted
  <2>6. ModeIsAsked'  BY <1>4, <2>1 DEF ModeIsAsked, Spawn, Unstarted
  <2>. QED  BY <2>2, <2>3, <2>4, <2>5, <2>6
<1>5. ASSUME CloseTheirs PROVE LauncherInv'
  <2>1. /\ driver' = [pc |-> driver'.pc, mode |-> driver'.mode, result |-> driver'.result]
        /\ driver'.pc = "read" /\ driver'.mode = driver.mode
    BY <1>5 DEF Goto, End, Raise, LauncherType, CloseTheirs
  <2>2. LauncherType'  BY <1>5, <2>1 DEF LauncherType, CloseTheirs
  <2>3. Unstarted'  BY <1>5, <2>1 DEF Unstarted, CloseTheirs
  <2>4. MapsFirst'  BY <1>5, <2>1 DEF MapsFirst, CloseTheirs
  <2>5. HeldUnderBwrap'  BY <1>5, <2>1 DEF HeldUnderBwrap, CloseTheirs
  <2>6. ModeIsAsked'  BY <1>5, <2>1 DEF ModeIsAsked, CloseTheirs
  <2>. QED  BY <2>2, <2>3, <2>4, <2>5, <2>6
<1>6. ASSUME ReadReady PROVE LauncherInv'
  <2>1. /\ driver' = [pc |-> driver'.pc, mode |-> driver'.mode, result |-> driver'.result]
        /\ \/ ready /\ driver'.pc = "map" /\ driver'.mode = driver.mode
           \/ readyW = {} /\ driver.mode = "bwrap" /\ driver'.pc = "reap" /\ driver'.mode = "bwrap"
           \/ readyW = {} /\ driver.mode # "bwrap" /\ driver'.pc = "go" /\ driver'.mode = driver.mode
    BY <1>6 DEF Goto, End, Raise, LauncherType, ReadReady
  <2>2. LauncherType'  BY <1>6, <2>1 DEF LauncherType, ReadReady
  <2>3. Unstarted'  BY <1>6, <2>1 DEF Unstarted, ReadReady
  <2>4. MapsFirst'  BY <1>6, <2>1 DEF MapsFirst, ReadReady
  <2>5. HeldUnderBwrap'  BY <1>6, <2>1 DEF HeldUnderBwrap, ReadReady
  <2>6. ModeIsAsked'  BY <1>6, <2>1 DEF ModeIsAsked, ReadReady
  <2>. QED  BY <2>2, <2>3, <2>4, <2>5, <2>6
<1>7. ASSUME MapIds PROVE LauncherInv'
  <2>1. /\ driver' = [pc |-> driver'.pc, mode |-> driver'.mode, result |-> driver'.result]
        /\ driver'.mode = driver.mode
        /\ \/ driver'.pc = "map" /\ ShellLives
           \/ driver'.pc = "open" /\ driver.mode = "bwrap" /\ maps' = Ids
           \/ driver'.pc = "go" /\ driver.mode # "bwrap" /\ maps' = Ids
           \/ driver'.pc = "close" /\ maps' = maps
    <3>1. CASE Raise("error") /\ maps' = maps
      BY <3>1 DEF Raise, LauncherType
    <3>2. CASE ShellLives /\ "uid" \notin maps /\ Goto("map")
      BY <3>2 DEF Goto, LauncherType
    <3>3. CASE "uid" \in maps /\ maps' = maps \cup {"gid"} /\ driver.mode = "bwrap" /\ Goto("open")
      BY <3>3 DEF Goto, LauncherType
    <3>4. CASE "uid" \in maps /\ maps' = maps \cup {"gid"} /\ driver.mode # "bwrap" /\ Goto("go")
      BY <3>4 DEF Goto, LauncherType
    <3>. QED  BY <1>7, <3>1, <3>2, <3>3, <3>4 DEF MapIds, Goto, Raise
  <2>2. LauncherType'  BY <1>7, <2>1 DEF LauncherType, MapIds, Faulty
  <2>3. Unstarted'  BY <1>7, <2>1 DEF Unstarted, MapIds, Faulty
  <2>4. MapsFirst'  BY <1>7, <2>1 DEF MapsFirst, MapIds, Faulty
  <2>5. HeldUnderBwrap'  BY <1>7, <2>1 DEF HeldUnderBwrap, MapIds, Faulty
  <2>6. ModeIsAsked'  BY <1>7, <2>1 DEF ModeIsAsked, MapIds, Faulty
  <2>. QED  BY <2>2, <2>3, <2>4, <2>5, <2>6
<1>8. ASSUME OpenNamespace PROVE LauncherInv'
  <2>1. /\ driver' = [pc |-> driver'.pc, mode |-> driver'.mode, result |-> driver'.result]
        /\ driver'.pc \in {"command", "close"} /\ driver'.mode = driver.mode
    BY <1>8 DEF Goto, End, Raise, LauncherType, OpenNamespace
  <2>2. LauncherType'  BY <1>8, <2>1 DEF LauncherType, OpenNamespace
  <2>3. Unstarted'  BY <1>8, <2>1 DEF Unstarted, OpenNamespace
  <2>4. MapsFirst'  BY <1>8, <2>1 DEF MapsFirst, OpenNamespace
  <2>5. HeldUnderBwrap'  BY <1>8, <2>1 DEF HeldUnderBwrap, OpenNamespace
  <2>6. ModeIsAsked'  BY <1>8, <2>1 DEF ModeIsAsked, OpenNamespace
  <2>. QED  BY <2>2, <2>3, <2>4, <2>5, <2>6
<1>9. ASSUME WriteGo PROVE LauncherInv'
  <2>1. /\ driver' = [pc |-> driver'.pc, mode |-> driver'.mode, result |-> driver'.result]
        /\ driver'.pc = "close" /\ driver'.mode = driver.mode
    BY <1>9 DEF Goto, End, Raise, LauncherType, WriteGo
  <2>2. LauncherType'  BY <1>9, <2>1 DEF LauncherType, WriteGo
  <2>3. Unstarted'  BY <1>9, <2>1 DEF Unstarted, WriteGo
  <2>4. MapsFirst'  BY <1>9, <2>1 DEF MapsFirst, WriteGo
  <2>5. HeldUnderBwrap'  BY <1>9, <2>1 DEF HeldUnderBwrap, WriteGo
  <2>6. ModeIsAsked'  BY <1>9, <2>1 DEF ModeIsAsked, WriteGo
  <2>. QED  BY <2>2, <2>3, <2>4, <2>5, <2>6
<1>10. ASSUME RunCommand PROVE LauncherInv'
  <2>1. /\ driver' = [pc |-> driver'.pc, mode |-> driver'.mode, result |-> driver'.result]
        /\ driver'.pc = "waitCommand" /\ driver'.mode = driver.mode
    BY <1>10 DEF Goto, End, Raise, LauncherType, RunCommand
  <2>2. LauncherType'  BY <1>10, <2>1 DEF LauncherType, RunCommand
  <2>3. Unstarted'  BY <1>10, <2>1 DEF Unstarted, RunCommand
  <2>4. MapsFirst'  BY <1>10, <2>1 DEF MapsFirst, RunCommand
  <2>5. HeldUnderBwrap'  BY <1>10, <2>1 DEF HeldUnderBwrap, RunCommand
  <2>6. ModeIsAsked'  BY <1>10, <2>1 DEF ModeIsAsked, RunCommand
  <2>. QED  BY <2>2, <2>3, <2>4, <2>5, <2>6
<1>11. ASSUME WaitCommand PROVE LauncherInv'
  <2>1. /\ driver' = [pc |-> driver'.pc, mode |-> driver'.mode, result |-> driver'.result]
        /\ \/ driver'.pc = "close" /\ driver'.mode = driver.mode
           \/ driver'.pc = "over" /\ driver'.mode = driver.mode /\ driver.mode # "bwrap"
    BY <1>11 DEF Goto, End, Raise, LauncherType, WaitCommand
  <2>2. LauncherType'  BY <1>11, <2>1 DEF LauncherType, WaitCommand
  <2>3. Unstarted'  BY <1>11, <2>1 DEF Unstarted, WaitCommand
  <2>4. MapsFirst'  BY <1>11, <2>1 DEF MapsFirst, WaitCommand
  <2>5. HeldUnderBwrap'  BY <1>11, <2>1 DEF HeldUnderBwrap, WaitCommand
  <2>6. ModeIsAsked'  BY <1>11, <2>1 DEF ModeIsAsked, WaitCommand
  <2>. QED  BY <2>2, <2>3, <2>4, <2>5, <2>6
<1>12. ASSUME Close PROVE LauncherInv'
  <2>1. /\ driver' = [pc |-> driver'.pc, mode |-> driver'.mode, result |-> driver'.result]
        /\ driver'.mode = driver.mode
        /\ \/ driver'.pc = "terminate"
           \/ driver'.pc \in {"over", "wait"} /\ driver.mode # "bwrap"
    <3>1. CASE Goto("terminate")
      BY <3>1 DEF Goto, LauncherType
    <3>2. CASE driver.mode # "bwrap" /\ End(driver.result)
      BY <3>2 DEF End, LauncherType
    <3>3. CASE driver.mode # "bwrap" /\ Goto("wait")
      BY <3>3 DEF Goto, LauncherType
    <3>. QED  BY <1>12, <3>1, <3>2, <3>3 DEF Close, Goto, End
  <2>2. LauncherType'  BY <1>12, <2>1 DEF LauncherType, Close
  <2>3. Unstarted'  BY <1>12, <2>1 DEF Unstarted, Close
  <2>4. MapsFirst'  BY <1>12, <2>1 DEF MapsFirst, Close
  <2>5. HeldUnderBwrap'  BY <1>12, <2>1 DEF HeldUnderBwrap, Close
  <2>6. ModeIsAsked'  BY <1>12, <2>1 DEF ModeIsAsked, Close
  <2>. QED  BY <2>2, <2>3, <2>4, <2>5, <2>6
<1>13. ASSUME Wait PROVE LauncherInv'
  <2>1. /\ driver' = [pc |-> driver'.pc, mode |-> driver'.mode, result |-> driver'.result]
        /\ driver'.pc = "over" /\ driver'.mode = driver.mode
    BY <1>13 DEF Goto, End, Raise, LauncherType, Wait
  <2>2. LauncherType'  BY <1>13, <2>1 DEF LauncherType, Wait
  <2>3. Unstarted'  BY <1>13, <2>1 DEF Unstarted, Wait
  <2>4. MapsFirst'  BY <1>13, <2>1 DEF MapsFirst, Wait
  <2>5. HeldUnderBwrap'  BY <1>13, <2>1 DEF HeldUnderBwrap, Wait
  <2>6. ModeIsAsked'  BY <1>13, <2>1 DEF ModeIsAsked, Wait
  <2>. QED  BY <2>2, <2>3, <2>4, <2>5, <2>6
<1>14. ASSUME ReapDead PROVE LauncherInv'
  <2>1. /\ driver' = [pc |-> driver'.pc, mode |-> driver'.mode, result |-> driver'.result]
        /\ driver'.pc = "close" /\ driver'.mode = driver.mode
    BY <1>14 DEF Goto, End, Raise, LauncherType, ReapDead
  <2>2. LauncherType'  BY <1>14, <2>1 DEF LauncherType, ReapDead
  <2>3. Unstarted'  BY <1>14, <2>1 DEF Unstarted, ReapDead
  <2>4. MapsFirst'  BY <1>14, <2>1 DEF MapsFirst, ReapDead
  <2>5. HeldUnderBwrap'  BY <1>14, <2>1 DEF HeldUnderBwrap, ReapDead
  <2>6. ModeIsAsked'  BY <1>14, <2>1 DEF ModeIsAsked, ReapDead
  <2>. QED  BY <2>2, <2>3, <2>4, <2>5, <2>6
<1>15. ASSUME Terminate PROVE LauncherInv'
  <2>1. /\ driver' = [pc |-> driver'.pc, mode |-> driver'.mode, result |-> driver'.result]
        /\ \/ driver'.pc = "over" /\ driver'.mode = driver.mode /\ shell = "none"
           \/ driver'.pc = "wait5" /\ driver'.mode = driver.mode
    BY <1>15 DEF Goto, End, Raise, LauncherType, Terminate
  <2>2. LauncherType'  BY <1>15, <2>1 DEF LauncherType, Terminate
  <2>3. Unstarted'  BY <1>15, <2>1 DEF Unstarted, Terminate
  <2>4. MapsFirst'  BY <1>15, <2>1 DEF MapsFirst, Terminate
  <2>5. HeldUnderBwrap'  BY <1>15, <2>1 DEF HeldUnderBwrap, Terminate
  <2>6. ModeIsAsked'  BY <1>15, <2>1 DEF ModeIsAsked, Terminate
  <2>. QED  BY <2>2, <2>3, <2>4, <2>5, <2>6
<1>16. ASSUME Wait5 PROVE LauncherInv'
  <2>1. /\ driver' = [pc |-> driver'.pc, mode |-> driver'.mode, result |-> driver'.result]
        /\ \/ driver'.pc = "over" /\ driver'.mode = driver.mode /\ shell' = "reaped"
           \/ driver'.pc = "killHolder" /\ driver'.mode = driver.mode
    BY <1>16 DEF Goto, End, Raise, LauncherType, Wait5
  <2>2. LauncherType'  BY <1>16, <2>1 DEF LauncherType, Wait5
  <2>3. Unstarted'  BY <1>16, <2>1 DEF Unstarted, Wait5
  <2>4. MapsFirst'  BY <1>16, <2>1 DEF MapsFirst, Wait5
  <2>5. HeldUnderBwrap'  BY <1>16, <2>1 DEF HeldUnderBwrap, Wait5
  <2>6. ModeIsAsked'  BY <1>16, <2>1 DEF ModeIsAsked, Wait5
  <2>. QED  BY <2>2, <2>3, <2>4, <2>5, <2>6
<1>17. ASSUME KillHolder PROVE LauncherInv'
  <2>1. /\ driver' = [pc |-> driver'.pc, mode |-> driver'.mode, result |-> driver'.result]
        /\ driver'.pc = "over" /\ driver'.mode = driver.mode
    BY <1>17 DEF Goto, End, Raise, LauncherType, KillHolder, Left
  <2>2. LauncherType'  BY <1>17, <2>1 DEF LauncherType, KillHolder, Left
  <2>3. Unstarted'  BY <1>17, <2>1 DEF Unstarted, KillHolder, Left
  <2>4. MapsFirst'  BY <1>17, <2>1 DEF MapsFirst, KillHolder, Left
  <2>5. HeldUnderBwrap'  BY <1>17, <2>1 DEF HeldUnderBwrap, KillHolder, Left
  <2>6. ModeIsAsked'  BY <1>17, <2>1 DEF ModeIsAsked, KillHolder, Left
  <2>. QED  BY <2>2, <2>3, <2>4, <2>5, <2>6
<1>. QED
  BY <1>1, <1>2, <1>3, <1>4, <1>5, <1>6, <1>7, <1>8, <1>9,
     <1>10, <1>11, <1>12, <1>13, <1>14, <1>15, <1>16, <1>17 DEF DriverStep

(* So does what the shell, the command and the faults do. *)
LEMMA OthersKeep ==
  LauncherInv /\ (ShellStep \/ CommandEnds \/ ShellDies \/ DriverKilled \/ Interrupted)
    => LauncherInv'
<1>. SUFFICES ASSUME LauncherInv,
                     ShellStep \/ CommandEnds \/ ShellDies \/ DriverKilled \/ Interrupted
              PROVE  LauncherInv'
  OBVIOUS
<1>. USE DEF LauncherInv, At, Gone, ShellLives, Given, Pipes, None, Ids
<1>1. ASSUME Announce PROVE LauncherInv'
  <2>1. driver' = driver
    BY <1>1 DEF Announce
  <2>2. LauncherType'  BY <1>1, <2>1 DEF LauncherType, Announce, Reading, Left
  <2>3. Unstarted'  BY <1>1, <2>1 DEF Unstarted, Announce, Reading, Left
  <2>4. MapsFirst'  BY <1>1, <2>1 DEF MapsFirst, Announce, Reading, Left
  <2>5. HeldUnderBwrap'  BY <1>1, <2>1 DEF HeldUnderBwrap, Announce, Reading, Left
  <2>6. ModeIsAsked'  BY <1>1, <2>1 DEF ModeIsAsked, Announce, Reading, Left
  <2>. QED  BY <2>2, <2>3, <2>4, <2>5, <2>6
<1>2. ASSUME ReadGo PROVE LauncherInv'
  <2>1. driver' = driver
    BY <1>2 DEF ReadGo
  <2>2. LauncherType'  BY <1>2, <2>1 DEF LauncherType, ReadGo, Left
  <2>3. Unstarted'  BY <1>2, <2>1 DEF Unstarted, ReadGo, Left
  <2>4. MapsFirst'  BY <1>2, <2>1 DEF MapsFirst, ReadGo, Left
  <2>5. HeldUnderBwrap'  BY <1>2, <2>1 DEF HeldUnderBwrap, ReadGo, Left
  <2>6. ModeIsAsked'  BY <1>2, <2>1 DEF ModeIsAsked, ReadGo, Left
  <2>. QED  BY <2>2, <2>3, <2>4, <2>5, <2>6
<1>3. ASSUME Enter PROVE LauncherInv'
  <2>1. driver' = driver
    BY <1>3 DEF Enter
  <2>2. LauncherType'  BY <1>3, <2>1 DEF LauncherType, Enter, Left
  <2>3. Unstarted'  BY <1>3, <2>1 DEF Unstarted, Enter, Left
  <2>4. MapsFirst'  BY <1>3, <2>1 DEF MapsFirst, Enter, Left
  <2>5. HeldUnderBwrap'  BY <1>3, <2>1 DEF HeldUnderBwrap, Enter, Left
  <2>6. ModeIsAsked'  BY <1>3, <2>1 DEF ModeIsAsked, Enter, Left
  <2>. QED  BY <2>2, <2>3, <2>4, <2>5, <2>6
<1>4. ASSUME ObeyTerm PROVE LauncherInv'
  <2>1. driver' = driver
    BY <1>4 DEF ObeyTerm
  <2>2. LauncherType'  BY <1>4, <2>1 DEF LauncherType, ObeyTerm, Left
  <2>3. Unstarted'  BY <1>4, <2>1 DEF Unstarted, ObeyTerm, Left
  <2>4. MapsFirst'  BY <1>4, <2>1 DEF MapsFirst, ObeyTerm, Left
  <2>5. HeldUnderBwrap'  BY <1>4, <2>1 DEF HeldUnderBwrap, ObeyTerm, Left
  <2>6. ModeIsAsked'  BY <1>4, <2>1 DEF ModeIsAsked, ObeyTerm, Left
  <2>. QED  BY <2>2, <2>3, <2>4, <2>5, <2>6
<1>5. ASSUME CommandEnds PROVE LauncherInv'
  <2>1. driver' = driver
    BY <1>5 DEF CommandEnds
  <2>2. LauncherType'  BY <1>5, <2>1 DEF LauncherType, CommandEnds, Exit, Left
  <2>3. Unstarted'  BY <1>5, <2>1 DEF Unstarted, CommandEnds, Exit, Left
  <2>4. MapsFirst'  BY <1>5, <2>1 DEF MapsFirst, CommandEnds, Exit, Left
  <2>5. HeldUnderBwrap'  BY <1>5, <2>1 DEF HeldUnderBwrap, CommandEnds, Exit, Left
  <2>6. ModeIsAsked'  BY <1>5, <2>1 DEF ModeIsAsked, CommandEnds, Exit, Left
  <2>. QED  BY <2>2, <2>3, <2>4, <2>5, <2>6
<1>6. ASSUME ShellDies PROVE LauncherInv'
  <2>1. driver' = driver
    BY <1>6 DEF ShellDies
  <2>2. LauncherType'  BY <1>6, <2>1 DEF LauncherType, ShellDies, Left, Faulty
  <2>3. Unstarted'  BY <1>6, <2>1 DEF Unstarted, ShellDies, Left, Faulty
  <2>4. MapsFirst'  BY <1>6, <2>1 DEF MapsFirst, ShellDies, Left, Faulty
  <2>5. HeldUnderBwrap'  BY <1>6, <2>1 DEF HeldUnderBwrap, ShellDies, Left, Faulty
  <2>6. ModeIsAsked'  BY <1>6, <2>1 DEF ModeIsAsked, ShellDies, Left, Faulty
  <2>. QED  BY <2>2, <2>3, <2>4, <2>5, <2>6
<1>7. ASSUME DriverKilled PROVE LauncherInv'
  <2>1. /\ driver' = [pc |-> driver'.pc, mode |-> driver'.mode, result |-> driver'.result]
        /\ driver'.pc = "killed" /\ driver'.mode = driver.mode
    BY <1>7 DEF Goto, End, Raise, LauncherType, DriverKilled, Faulty
  <2>2. LauncherType'  BY <1>7, <2>1 DEF LauncherType, DriverKilled, Faulty
  <2>3. Unstarted'  BY <1>7, <2>1 DEF Unstarted, DriverKilled, Faulty
  <2>4. MapsFirst'  BY <1>7, <2>1 DEF MapsFirst, DriverKilled, Faulty
  <2>5. HeldUnderBwrap'  BY <1>7, <2>1 DEF HeldUnderBwrap, DriverKilled, Faulty
  <2>6. ModeIsAsked'  BY <1>7, <2>1 DEF ModeIsAsked, DriverKilled, Faulty
  <2>. QED  BY <2>2, <2>3, <2>4, <2>5, <2>6
<1>8. ASSUME Interrupted PROVE LauncherInv'
  <2>1. /\ driver' = [pc |-> driver'.pc, mode |-> driver'.mode, result |-> driver'.result]
        /\ \/ driver'.pc = "close" /\ driver'.mode = driver.mode
           \/ driver'.pc = "over" /\ driver'.mode = driver.mode /\ At("wait")
           \/ driver'.pc = "over" /\ driver'.mode = driver.mode /\ Cut /\ driver'.result = "cut"
    BY <1>8 DEF Goto, End, Raise, LauncherType, Interrupted, Cut, Faulty, Sandboxed
  <2>2. /\ maps' = maps /\ go' = go /\ call' = call /\ driver.mode \in {"bwrap", "unshare", "remove"}
        /\ command' = IF driver.mode = "bwrap" /\ command = "running" THEN "bad" ELSE command
    BY <1>8 DEF Interrupted, Sandboxed
  <2>3. \/ shell' = shell /\ ("shell" \in readyW => "shell" \in readyW')
        \/ shell = "none" /\ shell' = "starting" /\ "shell" \in readyW' /\ At("spawn")
    BY <1>8 DEF Interrupted, Cut, Unstarted
  <2>4. ~(driver.pc \in {"start", "admit", "over", "killed"})
    BY <1>8 DEF Interrupted, Cut
  <2>5. LauncherType'  BY <2>1, <2>2 DEF LauncherType
  <2>6. Unstarted'  BY <2>1 DEF Unstarted
  <2>7. MapsFirst'
    <3>1. /\ ShellLives' => "shell" \in readyW'
          /\ go' => maps' = Ids \/ shell' \in Gone
          /\ shell' \in {"entering", "running"} => maps' = Ids
      BY <2>2, <2>3 DEF MapsFirst, Unstarted
    <3>2. driver.mode = "bwrap" /\ command' # None => maps' = Ids
      BY <2>2 DEF MapsFirst
    <3>. QED  BY <2>1, <3>1, <3>2 DEF MapsFirst
  <2>8. HeldUnderBwrap'
    <3>1. driver.mode = "bwrap" => /\ ~At("wait") /\ ~go' /\ ~call'.shadows /\ command' # "running"
                                   /\ shell' \notin {"entering", "running"}
      BY <2>2, <2>3, <2>4 DEF HeldUnderBwrap
    <3>. QED  BY <2>1, <3>1 DEF HeldUnderBwrap
  <2>9. ModeIsAsked'  BY <2>1, <2>2, <2>4 DEF ModeIsAsked
  <2>. QED  BY <2>5, <2>6, <2>7, <2>8, <2>9
<1>. QED
  BY <1>1, <1>2, <1>3, <1>4, <1>5, <1>6, <1>7, <1>8 DEF ShellStep

-----------------------------------------------------------------------------
(* The worker's facts never change, nor does what was proved while its files do not. *)
LEMMA FactsStay ==
  facts' = facts => Established' = Established /\ (ScratchHolds' <=> ScratchHolds)
<1>1. facts' = facts => Established' = Established
  BY DEF Established, Holding, ScratchHolds, InodesOK, resolved, ValidRange, Holds, WorkerId
<1>2. facts' = facts => (ScratchHolds' <=> ScratchHolds)
  BY DEF ScratchHolds, InodesOK
<1>. QED  BY <1>1, <1>2

LEMMA ProofStays ==
  UNCHANGED <<facts, results, owners>> =>
    (Proved' <=> Proved) /\ (ProbeFound => ProbeFound')
BY DEF Proved, ProbeFound, expected, Mapped

-----------------------------------------------------------------------------
(* One step of the preflight itself: its checks, the sandbox, the
   cleanup and the exit.  A check records that it passed only when what it checks
   holds. *)
Checked(name, next) ==
  /\ pf' = [pc |-> pf'.pc, ok |-> pf'.ok, fails |-> pf'.fails, raised |-> pf'.raised,
            hitch |-> pf'.hitch, exit |-> pf'.exit]
  /\ Turn(name) /\ pf'.pc = next
  /\ UNCHANGED <<facts, results, owners, call, driver>>
  /\ pf'.raised = pf.raised /\ pf'.exit = pf.exit
  /\ pf.fails \subseteq pf'.fails
  /\ \/ pf'.ok = pf.ok
     \/ pf'.ok = pf.ok \cup {name} /\ name \in Established

LEMMA CheckKeeps ==
  ASSUME PreflightInv,
         NEW name \in {"identity", "userns", "tools", "ranges", "architecture", "probe", "paths"},
         NEW next \in {"userns", "tools", "ranges", "scratch", "probe", "paths", "decide"},
         Checked(name, next)
  PROVE  PreflightInv'
<1>. USE DEF PreflightInv, Turn, Checked
<1>1. PreflightType'  BY DEF PreflightType
<1>2. ChecksHold'
  <2>1. Established' = Established /\ (ScratchHolds' <=> ScratchHolds)  BY FactsStay
  <2>. QED  BY <2>1 DEF ChecksHold
<1>3. Decided'  BY DEF Decided, Flawless, AfterDecide
<1>4. SandboxReturned'  BY DEF SandboxReturned, Flawless
<1>5. ProbeFound'  BY ProofStays
<1>6. ProofKept'  BY ProofStays DEF ProofKept, Flawless
<1>. QED  BY <1>1, <1>2, <1>3, <1>4, <1>5, <1>6

LEMMA PreflightKeeps == LauncherInv /\ PreflightInv /\ PreflightStep => PreflightInv'
<1>. SUFFICES ASSUME LauncherInv, PreflightInv, PreflightStep PROVE PreflightInv'  OBVIOUS
<1>. USE DEF PreflightInv, Turn
<1>1. ASSUME check_identity PROVE PreflightInv'
  <2>1. Checked("identity", "userns")
    BY <1>1
       DEF PreflightType, Checked, check_identity, Move, Fail, Given, Launcher, vars, Observe,
           Judge, Established, Holding, Prerequisites
  <2>. QED  BY <2>1, CheckKeeps
<1>2. ASSUME check_user_namespace_policy PROVE PreflightInv'
  <2>1. Checked("userns", "tools")
    BY <1>2
       DEF PreflightType, Checked, check_user_namespace_policy, Move, Fail, Given, Launcher,
           vars, Observe, Judge, Established, Holding, Prerequisites
  <2>. QED  BY <2>1, CheckKeeps
<1>3. ASSUME check_tools PROVE PreflightInv'
  <2>1. Checked("tools", "ranges")
    BY <1>3
       DEF PreflightType, Checked, check_tools, Move, Fail, Given, Launcher, vars, Observe,
           Judge, Established, Holding, Prerequisites
  <2>. QED  BY <2>1, CheckKeeps
<1>4. ASSUME check_subordinate_ranges PROVE PreflightInv'
  <2>1. Checked("ranges", "scratch")
    BY <1>4
       DEF PreflightType, Checked, check_subordinate_ranges, Move, Fail, Given, Launcher, vars,
           Observe, Judge, Established, Holding, Prerequisites
  <2>. QED  BY <2>1, CheckKeeps
<1>5. ASSUME check_architecture PROVE PreflightInv'
  <2>1. Checked("architecture", "probe")
    BY <1>5
       DEF PreflightType, Checked, check_architecture, Move, Fail, Given, Launcher, vars,
           Observe, Judge, Established, Holding, Prerequisites
  <2>. QED  BY <2>1, CheckKeeps
<1>6. ASSUME check_probe_sysroot PROVE PreflightInv'
  <2>1. Checked("probe", "paths")
    BY <1>6
       DEF PreflightType, Checked, check_probe_sysroot, Move, Fail, Given, Launcher, vars,
           Observe, Judge, Established, Holding, Prerequisites
  <2>. QED  BY <2>1, CheckKeeps
<1>7. ASSUME main PROVE PreflightInv'
  <2>1. /\ pf' = [pc |-> pf'.pc, ok |-> pf'.ok, fails |-> pf'.fails, raised |-> pf'.raised,
                hitch |-> pf'.hitch, exit |-> pf'.exit]
        /\ Turn("arguments")
        /\ UNCHANGED <<facts, results, owners, call, driver>>
        /\ pf'.raised = pf.raised
        /\ pf'.ok = pf.ok
        /\ pf.fails \subseteq pf'.fails
        /\ \/ pf'.pc = "over" /\ pf'.exit # "0"
           \/ pf'.pc = "identity" /\ pf'.exit = pf.exit
    BY <1>7 DEF PreflightType, main, Move, Fail, Given, Launcher, vars, Exits
  <2>2. PreflightType'  BY <2>1, ProofStays DEF PreflightType
  <2>3. ChecksHold'
    <3>1. Established' = Established /\ (ScratchHolds' <=> ScratchHolds)  BY <2>1, FactsStay
    <3>. QED  BY <2>1, <3>1 DEF ChecksHold
  <2>4. Decided'  BY <2>1, ProofStays DEF Decided, Flawless, AfterDecide
  <2>5. SandboxReturned'  BY <2>1, ProofStays DEF SandboxReturned, Flawless
  <2>6. ProbeFound'  BY <2>1, ProofStays
  <2>7. ProofKept'  BY <2>1, ProofStays DEF ProofKept, Flawless, Decided, AfterDecide
  <2>. QED  BY <2>2, <2>3, <2>4, <2>5, <2>6, <2>7
<1>8. ASSUME check_scratch PROVE PreflightInv'
  <2>1. /\ pf' = [pc |-> pf'.pc, ok |-> pf'.ok, fails |-> pf'.fails, raised |-> pf'.raised,
                hitch |-> pf'.hitch, exit |-> pf'.exit]
        /\ Turn("scratch")
        /\ UNCHANGED <<facts, results, owners, call, driver>>
        /\ pf'.raised = pf.raised /\ pf'.exit = pf.exit
        /\ pf'.ok = pf.ok
        /\ pf.fails \subseteq pf'.fails
        /\ \/ pf'.pc = "operations" /\ ScratchHolds
           \/ pf'.pc = "architecture"
    BY <1>8 DEF PreflightType, check_scratch, Move, Fail, Given, Launcher, vars, ScratchHolds
  <2>2. PreflightType'  BY <2>1, ProofStays DEF PreflightType
  <2>3. ChecksHold'
    <3>1. Established' = Established /\ (ScratchHolds' <=> ScratchHolds)  BY <2>1, FactsStay
    <3>. QED  BY <2>1, <3>1 DEF ChecksHold
  <2>4. Decided'  BY <2>1, ProofStays DEF Decided, Flawless, AfterDecide
  <2>5. SandboxReturned'  BY <2>1, ProofStays DEF SandboxReturned, Flawless
  <2>6. ProbeFound'  BY <2>1, ProofStays
  <2>7. ProofKept'  BY <2>1, ProofStays DEF ProofKept, Flawless, Decided, AfterDecide
  <2>. QED  BY <2>2, <2>3, <2>4, <2>5, <2>6, <2>7
<1>9. ASSUME ScratchOperations PROVE PreflightInv'
  <2>1. /\ pf' = [pc |-> pf'.pc, ok |-> pf'.ok, fails |-> pf'.fails, raised |-> pf'.raised,
                hitch |-> pf'.hitch, exit |-> pf'.exit]
        /\ Turn("operations") /\ pf'.pc = "operated"
        /\ UNCHANGED <<facts, results, owners, call, driver>>
        /\ pf'.raised = pf.raised /\ pf'.exit = pf.exit
        /\ pf'.ok = pf.ok
        /\ pf.fails \subseteq pf'.fails
        /\ \/ "scratch-operations" \in pf'.fails
           \/ pf'.fails = pf.fails /\ facts.hardlinks
    BY <1>9 DEF PreflightType, ScratchOperations, Move, Fail, Given, Launcher, vars
  <2>2. PreflightType'  BY <2>1, ProofStays DEF PreflightType
  <2>3. ChecksHold'
    <3>1. Established' = Established /\ (ScratchHolds' <=> ScratchHolds)  BY <2>1, FactsStay
    <3>. QED  BY <2>1, <3>1 DEF ChecksHold
  <2>4. Decided'  BY <2>1, ProofStays DEF Decided, Flawless, AfterDecide
  <2>5. SandboxReturned'  BY <2>1, ProofStays DEF SandboxReturned, Flawless
  <2>6. ProbeFound'  BY <2>1, ProofStays
  <2>7. ProofKept'  BY <2>1, ProofStays DEF ProofKept, Flawless, Decided, AfterDecide
  <2>. QED  BY <2>2, <2>3, <2>4, <2>5, <2>6, <2>7
<1>10. ASSUME ScratchCleanup PROVE PreflightInv'
  <2>1. /\ pf' = [pc |-> pf'.pc, ok |-> pf'.ok, fails |-> pf'.fails, raised |-> pf'.raised,
                hitch |-> pf'.hitch, exit |-> pf'.exit]
        /\ Turn("operated") /\ pf'.pc \in {"architecture", "finish"}
        /\ UNCHANGED <<facts, results, owners, call, driver>>
        /\ pf'.raised = pf.raised /\ pf'.exit = pf.exit
        /\ pf.fails \subseteq pf'.fails
        /\ pf.raised = "no" => pf'.pc = "architecture"
        /\ \/ pf'.ok = pf.ok
           \/ pf'.ok = pf.ok \cup {"scratch"} /\ "scratch-operations" \notin pf.fails
    BY <1>10 DEF PreflightType, ScratchCleanup, Move, Fail, Given, Launcher, vars, Judge
  <2>2. PreflightType'  BY <2>1, ProofStays DEF PreflightType
  <2>3. ChecksHold'
    <3>1. Established' = Established /\ (ScratchHolds' <=> ScratchHolds)  BY <2>1, FactsStay
    <3>2. ScratchHolds /\ facts.hardlinks => "scratch" \in Established
      BY DEF Established, Holding, Prerequisites
    <3>. QED  BY <2>1, <3>1, <3>2 DEF ChecksHold
  <2>4. Decided'  BY <2>1, ProofStays DEF Decided, Flawless, AfterDecide
  <2>5. SandboxReturned'  BY <2>1, ProofStays DEF SandboxReturned, Flawless
  <2>6. ProbeFound'  BY <2>1, ProofStays
  <2>7. ProofKept'  BY <2>1, ProofStays DEF ProofKept, Flawless, Decided, AfterDecide
  <2>. QED  BY <2>2, <2>3, <2>4, <2>5, <2>6, <2>7
<1>11. ASSUME check_probe_separation PROVE PreflightInv'
  <2>1. Checked("paths", "decide")
    BY <1>11
       DEF PreflightType, Checked, check_probe_separation, Move, Fail, Given, Launcher, vars,
           Judge, Established, Holding, Prerequisites
  <2>. QED  BY <2>1, CheckKeeps
<1>12. ASSUME Decide PROVE PreflightInv'
  <2>1. /\ pf' = [pc |-> pf'.pc, ok |-> pf'.ok, fails |-> pf'.fails, raised |-> pf'.raised,
                hitch |-> pf'.hitch, exit |-> pf'.exit]
        /\ Turn("decide")
        /\ UNCHANGED <<facts, results, owners, call, driver>>
        /\ pf'.raised = pf.raised /\ pf'.exit = pf.exit
        /\ pf'.ok = pf.ok
        /\ \/ pf'.pc = "mkdtemp" /\ Prerequisites \subseteq pf'.ok
           \/ pf'.pc = "finish" /\ pf'.fails # {}
    BY <1>12 DEF PreflightType, Decide, Move, Fail, Given, Launcher, vars
  <2>2. PreflightType'  BY <2>1, ProofStays DEF PreflightType
  <2>3. ChecksHold'
    <3>1. Established' = Established /\ (ScratchHolds' <=> ScratchHolds)  BY <2>1, FactsStay
    <3>. QED  BY <2>1, <3>1 DEF ChecksHold
  <2>4. Decided'  BY <2>1, ProofStays DEF Decided, Flawless, AfterDecide
  <2>5. SandboxReturned'  BY <2>1, ProofStays DEF SandboxReturned, Flawless
  <2>6. ProbeFound'  BY <2>1, ProofStays
  <2>7. ProofKept'  BY <2>1, ProofStays DEF ProofKept, Flawless, Decided, AfterDecide
  <2>. QED  BY <2>2, <2>3, <2>4, <2>5, <2>6, <2>7
<1>13. ASSUME MakeWork PROVE PreflightInv'
  <2>1. /\ pf' = [pc |-> pf'.pc, ok |-> pf'.ok, fails |-> pf'.fails, raised |-> pf'.raised,
                hitch |-> pf'.hitch, exit |-> pf'.exit]
        /\ Turn("mkdtemp")
        /\ UNCHANGED <<facts, results, owners, call, driver>>
        /\ pf'.raised = pf.raised
        /\ pf'.ok = pf.ok
        /\ pf.fails \subseteq pf'.fails
        /\ \/ pf'.pc = "over" /\ pf'.exit # "0"
           \/ pf'.pc = "copy" /\ pf'.exit = pf.exit
    BY <1>13 DEF PreflightType, MakeWork, Move, Fail, Given, Launcher, vars, Exits
  <2>2. PreflightType'  BY <2>1, ProofStays DEF PreflightType
  <2>3. ChecksHold'
    <3>1. Established' = Established /\ (ScratchHolds' <=> ScratchHolds)  BY <2>1, FactsStay
    <3>. QED  BY <2>1, <3>1 DEF ChecksHold
  <2>4. Decided'  BY <2>1, ProofStays DEF Decided, Flawless, AfterDecide
  <2>5. SandboxReturned'  BY <2>1, ProofStays DEF SandboxReturned, Flawless
  <2>6. ProbeFound'  BY <2>1, ProofStays
  <2>7. ProofKept'  BY <2>1, ProofStays DEF ProofKept, Flawless, Decided, AfterDecide
  <2>. QED  BY <2>2, <2>3, <2>4, <2>5, <2>6, <2>7
<1>14. ASSUME CopyRoot PROVE PreflightInv'
  <2>1. /\ pf' = [pc |-> pf'.pc, ok |-> pf'.ok, fails |-> pf'.fails, raised |-> pf'.raised,
                hitch |-> pf'.hitch, exit |-> pf'.exit]
        /\ Turn("copy")
        /\ UNCHANGED <<facts, results, owners, call, driver>>
        /\ pf'.raised = pf.raised /\ pf'.exit = pf.exit
        /\ pf'.ok = pf.ok
        /\ pf.fails \subseteq pf'.fails
        /\ \/ pf'.pc = "enter"
           \/ pf'.pc = "finally" /\ pf'.fails # {}
    BY <1>14 DEF PreflightType, CopyRoot, Move, Fail, Given, Launcher, vars
  <2>2. PreflightType'  BY <2>1, ProofStays DEF PreflightType
  <2>3. ChecksHold'
    <3>1. Established' = Established /\ (ScratchHolds' <=> ScratchHolds)  BY <2>1, FactsStay
    <3>. QED  BY <2>1, <3>1 DEF ChecksHold
  <2>4. Decided'  BY <2>1, ProofStays DEF Decided, Flawless, AfterDecide
  <2>5. SandboxReturned'  BY <2>1, ProofStays DEF SandboxReturned, Flawless
  <2>6. ProbeFound'  BY <2>1, ProofStays
  <2>7. ProofKept'  BY <2>1, ProofStays DEF ProofKept, Flawless, Decided, AfterDecide
  <2>. QED  BY <2>2, <2>3, <2>4, <2>5, <2>6, <2>7
<1>15. ASSUME RunIsolated PROVE PreflightInv'
  <2>1. /\ pf' = [pc |-> pf'.pc, ok |-> pf'.ok, fails |-> pf'.fails, raised |-> pf'.raised,
                hitch |-> pf'.hitch, exit |-> pf'.exit]
        /\ Turn("enter") /\ pf'.pc = "sandbox"
        /\ UNCHANGED <<facts, results, owners>>
        /\ pf'.raised = pf.raised /\ pf'.exit = pf.exit
        /\ pf'.ok = pf.ok
        /\ pf.fails \subseteq pf'.fails
        /\ call'.op = "run" /\ call'.isolation = "bwrap"
        /\ call'.shadows = facts.ships_build
    BY <1>15 DEF PreflightType, RunIsolated, Move, Fail, Given, Launcher, vars, Begin
  <2>2. PreflightType'  BY <2>1, ProofStays DEF PreflightType
  <2>3. ChecksHold'
    <3>1. Established' = Established /\ (ScratchHolds' <=> ScratchHolds)  BY <2>1, FactsStay
    <3>. QED  BY <2>1, <3>1 DEF ChecksHold
  <2>4. Decided'  BY <2>1, ProofStays DEF Decided, Flawless, AfterDecide
  <2>5. SandboxReturned'  BY <2>1, ProofStays DEF SandboxReturned, Flawless
  <2>6. ProbeFound'  BY <2>1, ProofStays
  <2>7. ProofKept'  BY <2>1, ProofStays DEF ProofKept, Flawless, Decided, AfterDecide
  <2>. QED  BY <2>2, <2>3, <2>4, <2>5, <2>6, <2>7
<1>16. ASSUME AfterSandbox PROVE PreflightInv'
  <2>1. /\ pf' = [pc |-> pf'.pc, ok |-> pf'.ok, fails |-> pf'.fails, raised |-> pf'.raised,
                hitch |-> pf'.hitch, exit |-> pf'.exit]
        /\ Turn("sandbox") /\ driver.pc = "over"
        /\ UNCHANGED <<facts, results, owners, call, driver>>
        /\ pf'.raised = pf.raised /\ pf'.exit = pf.exit
        /\ pf'.ok = pf.ok
        /\ pf.fails \subseteq pf'.fails
        /\ \/ pf'.pc = "finally" /\ (pf.raised # "no" \/ pf'.fails # {})
           \/ pf'.pc = "record" /\ driver.result = "ok"
    BY <1>16 DEF PreflightType, AfterSandbox, Move, Fail, Given, Launcher, vars, Returned
  <2>2. PreflightType'  BY <2>1, ProofStays DEF PreflightType
  <2>3. ChecksHold'
    <3>1. Established' = Established /\ (ScratchHolds' <=> ScratchHolds)  BY <2>1, FactsStay
    <3>. QED  BY <2>1, <3>1 DEF ChecksHold
  <2>4. Decided'  BY <2>1, ProofStays DEF Decided, Flawless, AfterDecide
  <2>5. SandboxReturned'
    <3>1. pf'.pc = "record" => driver.mode = "bwrap" /\ ~facts.ships_build
      BY <2>1 DEF LauncherInv, ModeIsAsked, HeldUnderBwrap, At, SandboxReturned
    <3>. QED  BY <2>1, <3>1 DEF SandboxReturned, Flawless
  <2>6. ProbeFound'  BY <2>1, ProofStays
  <2>7. ProofKept'  BY <2>1, ProofStays DEF ProofKept, Flawless, Decided, AfterDecide
  <2>. QED  BY <2>2, <2>3, <2>4, <2>5, <2>6, <2>7
<1>17. ASSUME _record_inside_results PROVE PreflightInv'
  <2>1. /\ pf' = [pc |-> pf'.pc, ok |-> pf'.ok, fails |-> pf'.fails, raised |-> pf'.raised,
                hitch |-> pf'.hitch, exit |-> pf'.exit]
        /\ Turn("record")
        /\ UNCHANGED <<facts, results, owners, call, driver>>
        /\ pf'.raised = pf.raised /\ pf'.exit = pf.exit
        /\ pf'.ok = pf.ok
        /\ pf.fails \subseteq pf'.fails
        /\ \/ pf'.pc = "finally" /\ pf'.fails # {}
           \/ pf'.pc = "owners" /\ results.there /\ results.failing \subseteq pf'.fails
    BY <1>17 DEF PreflightType, _record_inside_results, Move, Fail, Given, Launcher, vars
  <2>2. PreflightType'  BY <2>1, ProofStays DEF PreflightType
  <2>3. ChecksHold'
    <3>1. Established' = Established /\ (ScratchHolds' <=> ScratchHolds)  BY <2>1, FactsStay
    <3>. QED  BY <2>1, <3>1 DEF ChecksHold
  <2>4. Decided'  BY <2>1, ProofStays DEF Decided, Flawless, AfterDecide
  <2>5. SandboxReturned'  BY <2>1, ProofStays DEF SandboxReturned, Flawless
  <2>6. ProbeFound'  BY <2>1, ProofStays
  <2>7. ProofKept'  BY <2>1, ProofStays DEF ProofKept, Flawless, Decided, AfterDecide
  <2>. QED  BY <2>2, <2>3, <2>4, <2>5, <2>6, <2>7
<1>18. ASSUME _check_external_owner PROVE PreflightInv'
  <2>1. /\ pf' = [pc |-> pf'.pc, ok |-> pf'.ok, fails |-> pf'.fails, raised |-> pf'.raised,
                hitch |-> pf'.hitch, exit |-> pf'.exit]
        /\ Turn("owners") /\ pf'.pc = "finally"
        /\ UNCHANGED <<facts, results, owners, call, driver>>
        /\ pf'.raised = pf.raised /\ pf'.exit = pf.exit
        /\ pf'.ok = pf.ok
        /\ pf.fails \subseteq pf'.fails
        /\ \/ pf'.fails # {}
           \/ \A o \in Owners : o \in DOMAIN owners /\ owners[o] = expected(o)
    BY <1>18 DEF PreflightType, _check_external_owner, Move, Fail, Given, Launcher, vars
  <2>2. PreflightType'  BY <2>1, ProofStays DEF PreflightType
  <2>3. ChecksHold'
    <3>1. Established' = Established /\ (ScratchHolds' <=> ScratchHolds)  BY <2>1, FactsStay
    <3>. QED  BY <2>1, <3>1 DEF ChecksHold
  <2>4. Decided'  BY <2>1, ProofStays DEF Decided, Flawless, AfterDecide
  <2>5. SandboxReturned'  BY <2>1, ProofStays DEF SandboxReturned, Flawless
  <2>6. ProbeFound'  BY <2>1, ProofStays
  <2>7. ProofKept'
    <3>1. Flawless' => Proved
      BY <2>1 DEF ProofKept, SandboxReturned, Flawless, Proved
    <3>. QED  BY <2>1, <3>1, ProofStays DEF ProofKept, Flawless
  <2>. QED  BY <2>2, <2>3, <2>4, <2>5, <2>6, <2>7
<1>19. ASSUME RemoveTree PROVE PreflightInv'
  <2>1. /\ pf' = [pc |-> pf'.pc, ok |-> pf'.ok, fails |-> pf'.fails, raised |-> pf'.raised,
                hitch |-> pf'.hitch, exit |-> pf'.exit]
        /\ Turn("finally") /\ pf'.pc = "removing"
        /\ UNCHANGED <<facts, results, owners>>
        /\ pf'.raised = pf.raised /\ pf'.exit = pf.exit
        /\ pf'.ok = pf.ok
        /\ pf.fails \subseteq pf'.fails
        /\ call'.op = "remove"
    BY <1>19 DEF PreflightType, RemoveTree, Move, Fail, Given, Launcher, vars, Begin
  <2>2. PreflightType'  BY <2>1, ProofStays DEF PreflightType
  <2>3. ChecksHold'
    <3>1. Established' = Established /\ (ScratchHolds' <=> ScratchHolds)  BY <2>1, FactsStay
    <3>. QED  BY <2>1, <3>1 DEF ChecksHold
  <2>4. Decided'  BY <2>1, ProofStays DEF Decided, Flawless, AfterDecide
  <2>5. SandboxReturned'  BY <2>1, ProofStays DEF SandboxReturned, Flawless
  <2>6. ProbeFound'  BY <2>1, ProofStays
  <2>7. ProofKept'  BY <2>1, ProofStays DEF ProofKept, Flawless, Decided, AfterDecide
  <2>. QED  BY <2>2, <2>3, <2>4, <2>5, <2>6, <2>7
<1>20. ASSUME AfterRemove PROVE PreflightInv'
  <2>1. /\ pf' = [pc |-> pf'.pc, ok |-> pf'.ok, fails |-> pf'.fails, raised |-> pf'.raised,
                hitch |-> pf'.hitch, exit |-> pf'.exit]
        /\ Turn("removing")
        /\ UNCHANGED <<facts, results, owners, call, driver>>
        /\ pf'.raised = pf.raised
        /\ pf'.ok = pf.ok
        /\ pf.fails \subseteq pf'.fails
        /\ \/ pf'.pc = "over" /\ pf'.exit # "0"
           \/ pf'.pc = "finish" /\ pf'.exit = pf.exit
           \/ pf'.pc = "rmtree" /\ pf'.exit = pf.exit /\ pf'.fails # {}
    BY <1>20 DEF PreflightType, AfterRemove, Move, Fail, Given, Launcher, vars, Exits
  <2>2. PreflightType'  BY <2>1, ProofStays DEF PreflightType
  <2>3. ChecksHold'
    <3>1. Established' = Established /\ (ScratchHolds' <=> ScratchHolds)  BY <2>1, FactsStay
    <3>. QED  BY <2>1, <3>1 DEF ChecksHold
  <2>4. Decided'  BY <2>1, ProofStays DEF Decided, Flawless, AfterDecide
  <2>5. SandboxReturned'  BY <2>1, ProofStays DEF SandboxReturned, Flawless
  <2>6. ProbeFound'  BY <2>1, ProofStays
  <2>7. ProofKept'  BY <2>1, ProofStays DEF ProofKept, Flawless, Decided, AfterDecide
  <2>. QED  BY <2>2, <2>3, <2>4, <2>5, <2>6, <2>7
<1>21. ASSUME Rmtree PROVE PreflightInv'
  <2>1. /\ pf' = [pc |-> pf'.pc, ok |-> pf'.ok, fails |-> pf'.fails, raised |-> pf'.raised,
                hitch |-> pf'.hitch, exit |-> pf'.exit]
        /\ Turn("rmtree") /\ pf'.pc = "finish"
        /\ UNCHANGED <<facts, results, owners, call, driver>>
        /\ pf'.raised = pf.raised /\ pf'.exit = pf.exit
        /\ pf'.ok = pf.ok
        /\ pf'.fails = pf.fails
    BY <1>21 DEF PreflightType, Rmtree, Move, Fail, Given, Launcher, vars
  <2>2. PreflightType'  BY <2>1, ProofStays DEF PreflightType
  <2>3. ChecksHold'
    <3>1. Established' = Established /\ (ScratchHolds' <=> ScratchHolds)  BY <2>1, FactsStay
    <3>. QED  BY <2>1, <3>1 DEF ChecksHold
  <2>4. Decided'  BY <2>1, ProofStays DEF Decided, Flawless, AfterDecide
  <2>5. SandboxReturned'  BY <2>1, ProofStays DEF SandboxReturned, Flawless
  <2>6. ProbeFound'  BY <2>1, ProofStays
  <2>7. ProofKept'  BY <2>1, ProofStays DEF ProofKept, Flawless, Decided, AfterDecide
  <2>. QED  BY <2>2, <2>3, <2>4, <2>5, <2>6, <2>7
<1>22. ASSUME Finish PROVE PreflightInv'
  <2>1. /\ pf' = [pc |-> pf'.pc, ok |-> pf'.ok, fails |-> pf'.fails, raised |-> pf'.raised,
                hitch |-> pf'.hitch, exit |-> pf'.exit]
        /\ Turn("finish") /\ pf'.pc = "over"
        /\ UNCHANGED <<facts, results, owners, call, driver>>
        /\ pf'.raised = pf.raised
        /\ pf'.ok = pf.ok
        /\ pf.fails \subseteq pf'.fails
        /\ pf'.exit = "0" => Flawless /\ pf'.fails = {}
    BY <1>22 DEF PreflightType, Finish, Move, Fail, Given, Launcher, vars, Exits, Flawless
  <2>2. PreflightType'  BY <2>1, ProofStays DEF PreflightType
  <2>3. ChecksHold'
    <3>1. Established' = Established /\ (ScratchHolds' <=> ScratchHolds)  BY <2>1, FactsStay
    <3>. QED  BY <2>1, <3>1 DEF ChecksHold
  <2>4. Decided'  BY <2>1, ProofStays DEF Decided, Flawless, AfterDecide
  <2>5. SandboxReturned'  BY <2>1, ProofStays DEF SandboxReturned, Flawless
  <2>6. ProbeFound'  BY <2>1, ProofStays
  <2>7. ProofKept'  BY <2>1, ProofStays DEF ProofKept, Flawless, Decided, AfterDecide
  <2>. QED  BY <2>2, <2>3, <2>4, <2>5, <2>6, <2>7
<1>. QED
  BY <1>1, <1>2, <1>3, <1>4, <1>5, <1>6, <1>7, <1>8, <1>9, <1>10, <1>11,
     <1>12, <1>13, <1>14, <1>15, <1>16, <1>17, <1>18, <1>19, <1>20, <1>21, <1>22
     DEF PreflightStep

-----------------------------------------------------------------------------
(* The launcher at work, interrupts and kills: none of them touches the facts,  *)
(* and what the sandbox writes, it writes while it runs.                        *)
LEMMA StepsKeepTheCall ==
  /\ DriverStep => UNCHANGED call
  /\ ShellStep \/ CommandEnds \/ ShellDies => UNCHANGED <<call, driver>>
  /\ Interrupted \/ DriverKilled => UNCHANGED call
<1>1. DriverStep => UNCHANGED call
  BY DEF DriverStep, Given, Start, Admit, MakePipes, Spawn, CloseTheirs, ReadReady, MapIds,
         OpenNamespace, WriteGo, RunCommand, WaitCommand, Close, Wait, ReapDead, Terminate,
         Wait5, KillHolder
<1>2. ShellStep \/ CommandEnds \/ ShellDies => UNCHANGED <<call, driver>>
  BY DEF ShellStep, Given, Announce, ReadGo, Enter, ObeyTerm, CommandEnds, ShellDies
<1>3. Interrupted \/ DriverKilled => UNCHANGED call
  BY DEF Interrupted, DriverKilled, Given
<1>. QED  BY <1>1, <1>2, <1>3

(* What the command writes when it ends does not disturb what is proved: by then *)
(* the sandbox has returned, or the call is the removal.                        *)
LEMMA ProbeKeeps == LauncherInv /\ PreflightInv /\ inside_probe => PreflightInv'
<1>. SUFFICES ASSUME LauncherInv, PreflightInv, inside_probe PROVE PreflightInv'  OBVIOUS
<1>. USE DEF PreflightInv, Turn
<1>1. /\ pf' = [pc |-> pf'.pc, ok |-> pf'.ok, fails |-> pf'.fails, raised |-> pf'.raised,
                hitch |-> pf'.hitch, exit |-> pf'.exit]
      /\ pf'.pc = pf.pc /\ pf'.ok = pf.ok /\ pf'.fails = pf.fails
      /\ pf'.raised = pf.raised /\ pf'.exit = pf.exit
  BY DEF inside_probe, PreflightType
<1>2. facts' = facts /\ call' = call /\ driver' = driver /\ command = "running"
  BY StepsKeepTheCall DEF inside_probe, CommandEnds
<1>3. UNCHANGED <<results, owners>> \/ (call.op = "run" /\ ~Turn("none"))
  BY DEF inside_probe
<1>4. ProbeFound'
  <2>1. CASE UNCHANGED <<results, owners>>
    BY <1>2, <2>1, ProofStays
  <2>2. CASE /\ results' = [there |-> TRUE, failing |-> facts.inside
                              \cup {"ownership" : o \in {p \in Owners : ~Mapped(p)}}]
             /\ owners' = [o \in {p \in Owners : Mapped(p)} |->
                             <<Outside(facts.uid, WorkerId.uid, o[1]),
                               Outside(facts.gid, WorkerId.gid, o[2])>>]
    BY <1>2, <2>2 DEF ProbeFound, Mapped
  <2>. QED  BY <2>1, <2>2 DEF inside_probe
<1>5. Flawless /\ pf.pc \in {"record", "owners", "finally"} => FALSE
  BY <1>2 DEF LauncherInv, HeldUnderBwrap, At, SandboxReturned
<1>6. PreflightType'  BY <1>1, <1>2 DEF PreflightType
<1>7. ChecksHold'
  <2>1. Established' = Established /\ (ScratchHolds' <=> ScratchHolds)  BY <1>2, FactsStay
  <2>. QED  BY <1>1, <1>2, <2>1 DEF ChecksHold
<1>8. Decided'  BY <1>1 DEF Decided, Flawless, AfterDecide
<1>9. SandboxReturned'  BY <1>1, <1>2 DEF SandboxReturned, Flawless
<1>10. ProofKept'
  <2>1. CASE UNCHANGED <<results, owners>>
    BY <1>1, <1>2, <2>1, ProofStays DEF ProofKept, Flawless
  <2>2. CASE call.op = "run"
    BY <1>1, <1>2, <1>5, <2>2 DEF ProofKept, Flawless
  <2>. QED  BY <1>3, <2>1, <2>2
<1>. QED  BY <1>4, <1>6, <1>7, <1>8, <1>9, <1>10

LEMMA RestKeeps ==
  LauncherInv /\ PreflightInv
    /\ (LauncherStep \/ HolderStep \/ Crash \/ InterruptLauncher \/ Interrupt \/ Killed)
    => PreflightInv'
<1>. SUFFICES ASSUME LauncherInv, PreflightInv,
                     LauncherStep \/ HolderStep \/ Crash \/ InterruptLauncher \/ Interrupt \/ Killed
              PROVE  PreflightInv'
  OBVIOUS
<1>. USE DEF PreflightInv, Turn
<1>1. UNCHANGED <<facts, results, owners, call>>
  BY StepsKeepTheCall
     DEF LauncherStep, HolderStep, Crash, InterruptLauncher, Interrupt, Killed, pvars,
         Given, Launcher
<1>2. /\ pf' = [pc |-> pf'.pc, ok |-> pf'.ok, fails |-> pf'.fails, raised |-> pf'.raised,
                hitch |-> pf'.hitch, exit |-> pf'.exit]
      /\ pf'.ok = pf.ok
      /\ Turn("none") => pf'.pc = "none"
  BY DEF PreflightType, LauncherStep, HolderStep, Crash, InterruptLauncher, Interrupt, Killed,
         pvars, Move, Exits, Interruptible, InLauncher
<1>3. /\ pf'.raised = "no" => pf.raised = "no"
      /\ Flawless' => Flawless
  BY DEF PreflightType, LauncherStep, HolderStep, Crash, InterruptLauncher, Interrupt, Killed,
         pvars, Move, Exits, Flawless
<1>4. \/ pf'.pc = pf.pc /\ pf'.fails = pf.fails /\ pf'.exit = pf.exit /\ pf'.raised = pf.raised
      \/ pf'.pc = pf.pc /\ pf'.fails = pf.fails /\ pf'.exit = pf.exit /\ pf'.raised # "no"
           /\ pf.pc # "over"
      \/ pf'.pc \in {"finally", "operated"} /\ pf'.exit = pf.exit /\ pf'.raised # "no"
           /\ pf.pc # "over"
      \/ pf'.pc \in {"over", "killed", "none"} /\ pf'.exit # "0" /\ pf.pc # "over"
  BY DEF PreflightType, LauncherStep, HolderStep, Crash, InterruptLauncher, Interrupt, Killed,
         pvars, Move, Exits, InLauncher, Interruptible, ProofKept
<1>5. driver' = driver \/ pf.pc \in {"none", "sandbox", "removing"}
  BY StepsKeepTheCall
     DEF LauncherStep, HolderStep, Crash, InterruptLauncher, Interrupt, Killed, pvars,
         Launcher, InLauncher
<1>6. PreflightType'  BY <1>1, <1>2 DEF PreflightType
<1>7. ChecksHold'
  <2>1. Established' = Established /\ (ScratchHolds' <=> ScratchHolds)  BY <1>1, FactsStay
  <2>. QED  BY <1>1, <1>2, <1>3, <1>4, <2>1 DEF ChecksHold
<1>8. Decided'  BY <1>2, <1>3, <1>4 DEF Decided, Flawless, AfterDecide
<1>9. SandboxReturned'  BY <1>1, <1>3, <1>4, <1>5 DEF SandboxReturned, Flawless
<1>10. ProbeFound'  BY <1>1, ProofStays
<1>11. ProofKept'
  BY <1>1, <1>2, <1>3, <1>4, ProofStays DEF ProofKept, Flawless
<1>. QED  BY <1>6, <1>7, <1>8, <1>9, <1>10, <1>11

-----------------------------------------------------------------------------
(* Both invariants together. *)
LEMMA InvInit == PInit => LauncherInv /\ PreflightInv
<1>. SUFFICES ASSUME PInit PROVE LauncherInv /\ PreflightInv  OBVIOUS
<1>1. LauncherInv
  <2>1. /\ maps = {} /\ command = None /\ ~go /\ shell = "none" /\ go \in BOOLEAN
        /\ driver \in {[pc |-> "start", mode |-> None, result |-> None],
                      [pc |-> "over", mode |-> None, result |-> None]}
        /\ driver.pc = "over" => call.op = "remove"
    <3>1. CASE Init  BY <3>1 DEF Init, None
    <3>2. CASE ~Init
      <4>1. /\ maps = {} /\ command = None /\ go = FALSE /\ shell = "none"
            /\ driver = [pc |-> "over", mode |-> None, result |-> None]
            /\ call = [op |-> "remove", isolation |-> "none", sysroot |-> FALSE,
                       shadows |-> FALSE, leaks |-> FALSE]
        BY <3>2, Zenon DEF PInit
      <4>. QED  BY <4>1 DEF None
    <3>. QED  BY <3>1, <3>2
  <2>2. LauncherType  BY <2>1 DEF LauncherType
  <2>3. Unstarted /\ MapsFirst /\ HeldUnderBwrap /\ ModeIsAsked
    BY <2>1 DEF Unstarted, MapsFirst, HeldUnderBwrap, ModeIsAsked, At, Gone, ShellLives, None
  <2>. QED  BY <2>2, <2>3 DEF LauncherInv
<1>2. PreflightInv
  BY DEF PInit, Idle, PreflightInv, PreflightType, ChecksHold, Decided, SandboxReturned,
         ProbeFound, ProofKept, Flawless, AfterDecide, NoResults, NoOwners, Turn, None
<1>. QED  BY <1>1, <1>2

LEMMA LauncherKept == LauncherInv /\ [PNext]_allvars => LauncherInv'
<1>. SUFFICES ASSUME LauncherInv, [PNext]_allvars PROVE LauncherInv'  OBVIOUS
<1>1. ASSUME UNCHANGED <<call, Launcher>> PROVE LauncherInv'
  BY <1>1 DEF Launcher, LauncherInv, LauncherType, Unstarted, MapsFirst, HeldUnderBwrap,
              ModeIsAsked, At, Gone, ShellLives
<1>2. ASSUME NEW request, Begin(request) PROVE LauncherInv'
  BY <1>2 DEF Begin, LauncherInv, LauncherType, Unstarted, MapsFirst, HeldUnderBwrap,
              ModeIsAsked, At, Gone, ShellLives, None
<1>3. CASE PreflightStep
  BY <1>1, <1>2, <1>3
     DEF PreflightStep, main, check_identity, check_user_namespace_policy, check_tools,
         check_subordinate_ranges, check_scratch, ScratchOperations, ScratchCleanup,
         check_architecture, check_probe_sysroot, check_probe_separation, Decide, MakeWork,
         CopyRoot, RunIsolated, AfterSandbox, _record_inside_results, _check_external_owner,
         RemoveTree, AfterRemove, Rmtree, Finish, Observe, vars, Given, Launcher
<1>4. CASE LauncherStep  BY <1>4, DriverKeeps DEF LauncherStep
<1>5. CASE HolderStep \/ inside_probe \/ Crash \/ InterruptLauncher
  BY <1>5, OthersKeep DEF HolderStep, inside_probe, Crash, InterruptLauncher
<1>6. CASE Interrupt  BY <1>6, <1>1 DEF Interrupt, Given
<1>7. CASE Killed  BY <1>7, <1>1, OthersKeep DEF Killed, Given
<1>8. CASE UNCHANGED allvars  BY <1>8, <1>1 DEF allvars, vars, Launcher
<1>. QED  BY <1>3, <1>4, <1>5, <1>6, <1>7, <1>8 DEF PNext

LEMMA PreflightKept == LauncherInv /\ PreflightInv /\ [PNext]_allvars => PreflightInv'
<1>. SUFFICES ASSUME LauncherInv, PreflightInv, [PNext]_allvars PROVE PreflightInv'  OBVIOUS
<1>1. CASE UNCHANGED allvars
  <2>1. UNCHANGED <<facts, results, owners, call, driver, pf>>  BY <1>1 DEF allvars, vars, pvars
  <2>2. Established' = Established /\ (ScratchHolds' <=> ScratchHolds)  BY <2>1, FactsStay
  <2>3. PreflightType' /\ ChecksHold' /\ Decided'
    BY <2>1, <2>2 DEF PreflightInv, PreflightType, ChecksHold, Decided, Flawless, Turn
  <2>4. SandboxReturned'  BY <2>1 DEF PreflightInv, SandboxReturned, Flawless, Turn
  <2>5. ProbeFound' /\ ProofKept'
    BY <2>1, ProofStays DEF PreflightInv, ProofKept, Flawless, Turn
  <2>. QED  BY <2>3, <2>4, <2>5 DEF PreflightInv
<1>. QED  BY <1>1, PreflightKeeps, ProbeKeeps, RestKeeps DEF PNext

LEMMA Invariance == PSpec => [](LauncherInv /\ PreflightInv)
BY InvInit, LauncherKept, PreflightKept, PTL DEF PSpec

-----------------------------------------------------------------------------
(* Nothing is done in a namespace that is not mapped yet: neither the shell nor *)
(* bubblewrap enters before newuidmap and newgidmap have both succeeded, whoever *)
(* dies or fails on the way. (_isolation.py: the ready and the go pipe)           *)
THEOREM NothingEntersUnmapped == PSpec => []MappedBeforeEntry
<1>1. LauncherInv => MappedBeforeEntry  BY DEF LauncherInv, MapsFirst, MappedBeforeEntry
<1>. QED  BY <1>1, Invariance, PTL

(* A call under bwrap that is over leaves neither its command nor its namespace  *)
(* holder behind, whatever failed in it. (_mapped_user_namespace's finally,      *)
(* run_isolated)                                                                 *)
THEOREM NoProcessLeft == PSpec => []NothingOutlives
<1>1. LauncherInv => NothingOutlives
  BY DEF LauncherInv, HeldUnderBwrap, NothingOutlives, At
<1>. QED  BY <1>1, Invariance, PTL

(* Exit 0 means that the worker meets every requirement and proved it in a       *)
(* sandbox: files of ids 1 and up came out within the worker's ranges.           *)
(* (run_preflight, run_sandbox_probe)                                            *)
THEOREM OnlySoundWorkersPass == PSpec => []PassProves
<1>1. ASSUME PreflightInv, pf.exit = "0" PROVE PassProves
  <2>1. /\ Prerequisites \subseteq Established /\ Proved /\ facts \in Facts
    BY <1>1 DEF PreflightInv, ProofKept, ChecksHold, Flawless, PreflightType, Turn
  <2>2. \A name \in Prerequisites : Holding(name)  BY <2>1 DEF Established
  <2>3. /\ Holding("identity") /\ Holding("userns") /\ Holding("tools") /\ Holding("ranges")
        /\ Holding("scratch") /\ Holding("architecture") /\ Holding("probe") /\ Holding("paths")
    BY <2>2 DEF Prerequisites
  <2>4. /\ facts.user = "service" /\ facts.disjoint
        /\ facts.userns_max = "on" /\ facts.userns_clone \in {"on", "absent"}
        /\ resolved = RequiredTools /\ facts.features
        /\ facts.probe = "usable" /\ facts.probe_machine = facts.target
    BY <2>3 DEF Holding
  <2>5. ValidRange(facts.uid, facts.worker) /\ ValidRange(facts.gid, facts.worker)
    BY <2>3 DEF Holding, WorkerId
  <2>6. /\ facts.scratch = "usable" /\ facts.bytes /\ InodesOK /\ facts.hardlinks
    BY <2>3 DEF Holding, ScratchHolds
  <2>7. \/ facts.target = facts.native
        \/ /\ facts.target = "aarch64" /\ facts.native = "x86_64"
           /\ facts.emulated /\ facts.binfmt
    BY <2>3 DEF Holding
  <2>8. <<facts.inodes, facts.min_inodes>> \in {<<"enough", 1>>, <<"dynamic", 0>>}
    BY <2>1, <2>6, PreflightAssumption DEF InodesOK
  <2>9. facts.inside = {} /\ ~facts.ships_build /\ results.there /\ results.failing = {}
    BY <1>1, <2>1 DEF PreflightInv, ProbeFound, Proved
  <2>10. Sound
    BY <2>4, <2>5, <2>6, <2>7, <2>8, <2>9 DEF Sound, resolved, ValidRange
  <2>11. ASSUME NEW o \in Owners
         PROVE  /\ owners[o][1] \in facts.uid.base .. facts.uid.base + facts.uid.count - 1
                /\ owners[o][2] \in facts.gid.base .. facts.gid.base + facts.gid.count - 1
    <3>1. owners[o] = expected(o) /\ Mapped(o)
      BY <1>1, <2>1 DEF PreflightInv, ProbeFound, Proved
    <3>2. /\ o[1] \in Nat \ {0} /\ o[2] \in Nat \ {0}
          /\ facts.uid \in [base : Nat, count : Nat] /\ facts.gid \in [base : Nat, count : Nat]
      BY <2>1, PreflightAssumption
    <3>. QED  BY <3>1, <3>2 DEF expected, Mapped
  <2>. QED  BY <2>9, <2>10, <2>11 DEF PassProves
<1>2. PreflightInv => PassProves  BY <1>1 DEF PassProves
<1>. QED  BY <1>2, Invariance, PTL

-----------------------------------------------------------------------------
(* The removal of a tree runs in the shell: while the command runs the shell is  *)
(* it, and the call has succeeded only when the shell was waited for.           *)
RemovalInShell ==
  /\ At("start") => driver.result = None
  /\ call.op = "remove" /\ driver.pc \notin {"start", "over", "killed"} => driver.mode = "remove"
  /\ call.op = "remove" /\ At("over") /\ driver.result = "ok" =>
       ~call.sysroot \/ driver.mode = "remove"
  /\ call.op = "remove" /\ driver.mode = "remove" =>
       /\ driver.pc \in {"pipes", "spawn", "closeTheirs", "read", "map", "go", "close",
                         "wait", "over", "killed"}
       /\ command = "running" => shell = "running"
       /\ driver.result = "ok" => At("over") /\ shell = "reaped"

(* What lies under scratch between the two places that put something there is    *)
(* spoken of; a preflight that can still pass has waited for its removal.       *)
Busy == {"operated", "copy", "enter", "sandbox", "record", "owners", "finally",
         "removing", "killed"}
Spoken == tree = {} \/ pf.fails \cap {"cleanup", "scratch-cleanup", "interrupted"} # {}
Removed == At("over") /\ driver.result = "ok" /\ driver.mode = "remove"

NothingUnsaid ==
  /\ pf.pc \notin Busy => Spoken
  /\ Turn("removing") => call.op = "remove" /\ call.sysroot
  /\ Turn("finish") /\ Flawless => Removed
  /\ Turn("rmtree") => "cleanup" \in pf.fails
  /\ pf.exit = "0" => Removed

(* Every step of the launcher keeps to that. *)
LEMMA RemovalKeeps ==
  LauncherInv /\ RemovalInShell
    /\ (DriverStep \/ ShellStep \/ CommandEnds \/ ShellDies \/ DriverKilled \/ Interrupted)
    => RemovalInShell'
<1>. SUFFICES ASSUME LauncherInv, RemovalInShell,
                     DriverStep \/ ShellStep \/ CommandEnds \/ ShellDies \/ DriverKilled
                       \/ Interrupted
              PROVE  RemovalInShell'
  OBVIOUS
<1>. USE DEF LauncherInv, LauncherType, Unstarted, RemovalInShell, At, Gone, ShellLives, Given,
             Pipes, None
<1>1. ASSUME Start PROVE RemovalInShell'
  <2>1. /\ driver' = [pc |-> driver'.pc, mode |-> driver'.mode, result |-> driver'.result]
        /\ \/ driver'.pc = "admit" /\ call.op = "run" /\ driver'.result = None
           \/ driver'.pc = "pipes" /\ driver'.mode = "remove" /\ call.op = "remove" /\ driver'.result = None
           \/ driver'.pc = "over" /\ driver'.mode = None /\ call.op = "remove"
                /\ (driver'.result = "ok" => ~call.sysroot)
    BY <1>1 DEF Goto, End, Raise, Start, resolve_isolation, Tools
  <2>. QED  BY <1>1, <2>1 DEF Start, resolve_isolation, Tools
<1>2. ASSUME Admit PROVE RemovalInShell'
  BY <1>2 DEF Goto, End, Raise, Admit, Admitted, Tools
<1>3. ASSUME MakePipes PROVE RemovalInShell'
  BY <1>3 DEF Goto, End, Raise, MakePipes
<1>4. ASSUME Spawn PROVE RemovalInShell'
  BY <1>4 DEF Goto, End, Raise, Spawn
<1>5. ASSUME CloseTheirs PROVE RemovalInShell'
  BY <1>5 DEF Goto, End, Raise, CloseTheirs
<1>6. ASSUME ReadReady PROVE RemovalInShell'
  BY <1>6 DEF Goto, End, Raise, ReadReady
<1>7. ASSUME MapIds PROVE RemovalInShell'
  BY <1>7 DEF Goto, End, Raise, MapIds, Faulty
<1>8. ASSUME OpenNamespace PROVE RemovalInShell'
  BY <1>8 DEF Goto, End, Raise, OpenNamespace
<1>9. ASSUME WriteGo PROVE RemovalInShell'
  BY <1>9 DEF Goto, End, Raise, WriteGo
<1>10. ASSUME RunCommand PROVE RemovalInShell'
  BY <1>10 DEF Goto, End, Raise, RunCommand
<1>11. ASSUME WaitCommand PROVE RemovalInShell'
  <2>1. /\ driver' = [pc |-> driver'.pc, mode |-> driver'.mode, result |-> driver'.result]
        /\ driver'.mode = driver.mode /\ call.op # "remove" /\ driver'.pc # "start"
    BY <1>11 DEF Goto, End, Raise, WaitCommand
  <2>. QED  BY <1>11, <2>1 DEF WaitCommand
<1>12. ASSUME Close PROVE RemovalInShell'
  <2>1. /\ driver' = [pc |-> driver'.pc, mode |-> driver'.mode, result |-> driver'.result]
        /\ driver'.mode = driver.mode /\ driver'.result = driver.result
        /\ \/ driver'.pc = "terminate" /\ driver.mode = "bwrap"
           \/ driver'.pc \in {"over", "wait"} /\ driver.mode # "bwrap"
        /\ driver'.pc = "over" => driver.result # None
    BY <1>12 DEF Goto, End, Raise, Close
  <2>. QED  BY <1>12, <2>1 DEF Close
<1>13. ASSUME Wait PROVE RemovalInShell'
  <2>1. /\ driver' = [pc |-> driver'.pc, mode |-> driver'.mode, result |-> driver'.result]
        /\ driver'.mode = driver.mode /\ driver'.pc = "over" /\ shell' = "reaped"
        /\ command' = command
    BY <1>13 DEF Goto, End, Raise, Wait
  <2>. QED  BY <1>13, <2>1 DEF Wait
<1>14. ASSUME ReapDead PROVE RemovalInShell'
  BY <1>14 DEF Goto, End, Raise, ReapDead
<1>15. ASSUME Terminate PROVE RemovalInShell'
  <2>1. /\ driver' = [pc |-> driver'.pc, mode |-> driver'.mode, result |-> driver'.result]
        /\ driver'.mode = driver.mode /\ (call.op = "remove" => driver.mode # "remove")
        /\ driver'.pc # "start"
        /\ driver'.result = driver.result
    BY <1>15 DEF Goto, End, Raise, Terminate
  <2>. QED  BY <1>15, <2>1 DEF Terminate
<1>16. ASSUME Wait5 PROVE RemovalInShell'
  <2>1. /\ driver' = [pc |-> driver'.pc, mode |-> driver'.mode, result |-> driver'.result]
        /\ driver'.mode = driver.mode /\ (call.op = "remove" => driver.mode # "remove")
        /\ driver'.pc # "start"
        /\ driver'.result = driver.result
    BY <1>16 DEF Goto, End, Raise, Wait5
  <2>. QED  BY <1>16, <2>1 DEF Wait5
<1>17. ASSUME KillHolder PROVE RemovalInShell'
  <2>1. /\ driver' = [pc |-> driver'.pc, mode |-> driver'.mode, result |-> driver'.result]
        /\ driver'.mode = driver.mode /\ (call.op = "remove" => driver.mode # "remove")
        /\ driver'.pc # "start"
        /\ driver'.result = driver.result
    BY <1>17 DEF Goto, End, Raise, KillHolder, Left
  <2>. QED  BY <1>17, <2>1 DEF KillHolder, Left
<1>18. ASSUME Announce PROVE RemovalInShell'
  BY <1>18 DEF Goto, End, Raise, Announce, Left
<1>19. ASSUME ReadGo PROVE RemovalInShell'
  BY <1>19 DEF Goto, End, Raise, ReadGo, Left
<1>20. ASSUME Enter PROVE RemovalInShell'
  BY <1>20 DEF Goto, End, Raise, Enter, Left
<1>21. ASSUME ObeyTerm PROVE RemovalInShell'
  BY <1>21 DEF Goto, End, Raise, ObeyTerm, Left
<1>22. ASSUME CommandEnds PROVE RemovalInShell'
  BY <1>22 DEF Goto, End, Raise, CommandEnds, Exit, Left
<1>23. ASSUME ShellDies PROVE RemovalInShell'
  BY <1>23 DEF Goto, End, Raise, ShellDies, Left, Faulty
<1>24. ASSUME DriverKilled PROVE RemovalInShell'
  <2>1. /\ driver' = [pc |-> driver'.pc, mode |-> driver'.mode, result |-> driver'.result]
        /\ driver'.mode = driver.mode /\ driver'.pc = "killed" /\ driver'.result = driver.result
    BY <1>24 DEF Goto, End, Raise, DriverKilled, Faulty
  <2>. QED  BY <1>24, <2>1 DEF DriverKilled, Faulty, Over
<1>25. ASSUME Interrupted PROVE RemovalInShell'
  BY <1>25 DEF Goto, End, Raise, Interrupted, Cut, Faulty, Sandboxed
<1>. QED
  BY <1>1, <1>2, <1>3, <1>4, <1>5, <1>6, <1>7, <1>8, <1>9, <1>10, <1>11, <1>12, <1>13,
     <1>14, <1>15, <1>16, <1>17, <1>18, <1>19, <1>20, <1>21, <1>22, <1>23, <1>24, <1>25
     DEF DriverStep, ShellStep

(* No step of the preflight takes back what it has said. *)
LEMMA UnsaidKept ==
  PreflightInv /\ RemovalInShell /\ NothingUnsaid /\ [PNext]_allvars => NothingUnsaid'
<1>. SUFFICES ASSUME PreflightInv, RemovalInShell, NothingUnsaid, [PNext]_allvars
              PROVE  NothingUnsaid'
  OBVIOUS
<1>. USE DEF NothingUnsaid, Turn, Spoken, Removed, Busy, Flawless, At
<1>. /\ pf = [pc |-> pf.pc, ok |-> pf.ok, fails |-> pf.fails, raised |-> pf.raised,
              hitch |-> pf.hitch, exit |-> pf.exit]
     /\ pf.exit = "0" => pf.pc = "over"
  BY DEF PreflightInv, PreflightType, ProofKept
<1>1. ASSUME main PROVE NothingUnsaid'
  BY <1>1 DEF main, vars, Given, Launcher, Move, Fail, Judge, Exits
<1>2. ASSUME check_identity PROVE NothingUnsaid'
  BY <1>2 DEF check_identity, vars, Given, Launcher, Observe, Judge, Move, Fail, Exits
<1>3. ASSUME check_user_namespace_policy PROVE NothingUnsaid'
  BY <1>3 DEF check_user_namespace_policy, vars, Given, Launcher, Observe, Judge, Move, Fail, Exits
<1>4. ASSUME check_tools PROVE NothingUnsaid'
  BY <1>4 DEF check_tools, vars, Given, Launcher, Observe, Judge, Move, Fail, Exits
<1>5. ASSUME check_subordinate_ranges PROVE NothingUnsaid'
  BY <1>5 DEF check_subordinate_ranges, vars, Given, Launcher, Observe, Judge, Move, Fail, Exits
<1>6. ASSUME check_scratch PROVE NothingUnsaid'
  BY <1>6 DEF check_scratch, vars, Given, Launcher, Move, Fail, Judge, Exits
<1>7. ASSUME ScratchOperations PROVE NothingUnsaid'
  BY <1>7 DEF ScratchOperations, vars, Given, Launcher, Move, Fail, Judge, Exits
<1>8. ASSUME ScratchCleanup PROVE NothingUnsaid'
  BY <1>8 DEF ScratchCleanup, vars, Given, Launcher, Move, Fail, Judge, Exits
<1>9. ASSUME check_architecture PROVE NothingUnsaid'
  BY <1>9 DEF check_architecture, vars, Given, Launcher, Observe, Judge, Move, Fail, Exits
<1>10. ASSUME check_probe_sysroot PROVE NothingUnsaid'
  BY <1>10 DEF check_probe_sysroot, vars, Given, Launcher, Observe, Judge, Move, Fail, Exits
<1>11. ASSUME check_probe_separation PROVE NothingUnsaid'
  BY <1>11 DEF check_probe_separation, vars, Given, Launcher, Move, Fail, Judge, Exits
<1>12. ASSUME Decide PROVE NothingUnsaid'
  BY <1>12 DEF Decide, vars, Given, Launcher, Move, Fail, Judge, Exits
<1>13. ASSUME MakeWork PROVE NothingUnsaid'
  BY <1>13 DEF MakeWork, vars, Given, Launcher, Move, Fail, Judge, Exits
<1>14. ASSUME CopyRoot PROVE NothingUnsaid'
  BY <1>14 DEF CopyRoot, vars, Given, Launcher, Move, Fail, Judge, Exits
<1>15. ASSUME RunIsolated PROVE NothingUnsaid'
  BY <1>15 DEF RunIsolated, vars, Given, Launcher, Move, Fail, Judge, Exits, Begin
<1>16. ASSUME AfterSandbox PROVE NothingUnsaid'
  BY <1>16 DEF AfterSandbox, vars, Given, Launcher, Move, Fail, Judge, Exits, Returned
<1>17. ASSUME _record_inside_results PROVE NothingUnsaid'
  BY <1>17 DEF _record_inside_results, vars, Given, Launcher, Move, Fail, Judge, Exits
<1>18. ASSUME _check_external_owner PROVE NothingUnsaid'
  BY <1>18 DEF _check_external_owner, vars, Given, Launcher, Move, Fail, Judge, Exits
<1>19. ASSUME RemoveTree PROVE NothingUnsaid'
  BY <1>19 DEF RemoveTree, vars, Given, Launcher, Move, Fail, Judge, Exits, Begin
<1>20. ASSUME AfterRemove PROVE NothingUnsaid'
  BY <1>20 DEF AfterRemove, vars, Fail, Move, Exits, Returned, RemovalInShell
<1>21. ASSUME Rmtree PROVE NothingUnsaid'
  BY <1>21 DEF Rmtree, vars, Given, Launcher, Move, Fail, Judge, Exits
<1>22. ASSUME Finish PROVE NothingUnsaid'
  BY <1>22 DEF Finish, vars, Given, Launcher, Move, Fail, Judge, Exits
<1>23. ASSUME LauncherStep PROVE NothingUnsaid'
  BY <1>23, StepsKeepTheCall DEF LauncherStep, InLauncher, pvars
<1>24. ASSUME HolderStep \/ inside_probe \/ Crash PROVE NothingUnsaid'
  <2>1. /\ UNCHANGED <<call, driver>> /\ tree' \in {tree, {}}
        /\ pf'.pc = pf.pc /\ pf'.fails = pf.fails /\ pf'.raised = pf.raised /\ pf'.exit = pf.exit
    BY <1>24, StepsKeepTheCall DEF HolderStep, inside_probe, Crash, pvars
  <2>. QED  BY <2>1
<1>25. ASSUME InterruptLauncher PROVE NothingUnsaid'
  BY <1>25, StepsKeepTheCall DEF InterruptLauncher, InLauncher
<1>26. ASSUME Interrupt PROVE NothingUnsaid'
  BY <1>26 DEF Interrupt, Interruptible, InLauncher, Exits, Launcher
<1>27. ASSUME Killed PROVE NothingUnsaid'
  BY <1>27, StepsKeepTheCall DEF Killed, InLauncher, Move, Launcher
<1>28. CASE UNCHANGED allvars
  BY <1>28 DEF allvars, vars, pvars
<1>. QED
  BY <1>1, <1>2, <1>3, <1>4, <1>5, <1>6, <1>7, <1>8, <1>9, <1>10, <1>11, <1>12, <1>13,
     <1>14, <1>15, <1>16, <1>17, <1>18, <1>19, <1>20, <1>21, <1>22, <1>23, <1>24, <1>25,
     <1>26, <1>27, <1>28
     DEF PNext, PreflightStep

LEMMA RemovalKept ==
  LauncherInv /\ RemovalInShell /\ [PNext]_allvars => RemovalInShell'
<1>. SUFFICES ASSUME LauncherInv, RemovalInShell, [PNext]_allvars PROVE RemovalInShell'
  OBVIOUS
<1>1. ASSUME UNCHANGED <<call, Launcher>> PROVE RemovalInShell'
  BY <1>1 DEF Launcher, RemovalInShell, At
<1>2. ASSUME NEW request, Begin(request) PROVE RemovalInShell'
  BY <1>2 DEF Begin, RemovalInShell, At, None
<1>3. CASE PreflightStep
  BY <1>1, <1>2, <1>3
     DEF PreflightStep, main, check_identity, check_user_namespace_policy, check_tools,
         check_subordinate_ranges, check_scratch, ScratchOperations, ScratchCleanup,
         check_architecture, check_probe_sysroot, check_probe_separation, Decide, MakeWork,
         CopyRoot, RunIsolated, AfterSandbox, _record_inside_results, _check_external_owner,
         RemoveTree, AfterRemove, Rmtree, Finish, Observe, vars, Given, Launcher
<1>4. CASE LauncherStep \/ HolderStep \/ inside_probe \/ Crash \/ InterruptLauncher
  BY <1>4, RemovalKeeps DEF LauncherStep, HolderStep, inside_probe, Crash, InterruptLauncher
<1>5. CASE Interrupt  BY <1>5, <1>1 DEF Interrupt, Given
<1>6. CASE Killed  BY <1>6, <1>1, RemovalKeeps DEF Killed, Given
<1>7. CASE UNCHANGED allvars  BY <1>7, <1>1 DEF allvars, vars, Launcher
<1>. QED  BY <1>3, <1>4, <1>5, <1>6, <1>7 DEF PNext

LEMMA UnsaidInit == PInit => RemovalInShell /\ NothingUnsaid
<1>. SUFFICES ASSUME PInit PROVE RemovalInShell /\ NothingUnsaid  OBVIOUS
<1>1. /\ tree = {} /\ pf.pc \in {"none", "arguments"} /\ pf.exit = None
      /\ \/ driver = [pc |-> "start", mode |-> None, result |-> None] /\ command = None
         \/ driver = [pc |-> "over", mode |-> None, result |-> None]
  BY DEF PInit, Init, Idle
<1>. QED  BY <1>1 DEF RemovalInShell, NothingUnsaid, Turn, At, None, Busy, Spoken

LEMMA UnsaidHolds == PSpec => [](RemovalInShell /\ NothingUnsaid)
BY Invariance, UnsaidInit, RemovalKept, UnsaidKept, PTL DEF PSpec

(* A preflight that is over left nothing under scratch and no process, or its   *)
(* report says what is left: a cleanup that failed or an interrupt.  The pass   *)
(* itself is given only when the shell that removed the tree was waited for.    *)
(* (run_sandbox_probe's finally, _check_scratch_operations, remove_tree)         *)
THEOREM NothingLeftUnsaid == PSpec => []LeavesNothingUnsaid
<1>1. ASSUME LauncherInv, RemovalInShell, NothingUnsaid, PreflightInv PROVE LeavesNothingUnsaid
  <2>1. NothingOutlives
    BY <1>1 DEF LauncherInv, HeldUnderBwrap, NothingOutlives, At
  <2>2. pf.pc = "over" => Spoken
    BY <1>1 DEF NothingUnsaid, Busy
  <2>3. ASSUME pf.exit = "0" PROVE ~ShellLives /\ command # "running"
    <3>1. call.op = "remove" /\ Removed
      BY <1>1, <2>3 DEF NothingUnsaid, PreflightInv, ProofKept
    <3>. QED  BY <1>1, <3>1 DEF Removed, RemovalInShell, At, ShellLives, Gone
  <2>. QED  BY <2>1, <2>2, <2>3 DEF LeavesNothingUnsaid, Spoken
<1>. QED  BY <1>1, Invariance, UnsaidHolds, PTL

-----------------------------------------------------------------------------
(* Nothing went wrong on a worker that is sound.                                *)
Smooth == /\ Sound /\ faults = 0 /\ ~pf.hitch /\ facts.launcher = "stand-in"
          /\ facts.emulated => facts.target = "aarch64"
          /\ ~Turn("none")

(* Each check that is behind has passed. *)
AllPassed ==
  LET upTo(pcs, name) == pf.pc \in pcs \/ name \in pf.ok
  IN  /\ upTo({"arguments", "identity"}, "identity")
      /\ upTo({"arguments", "identity", "userns"}, "userns")
      /\ upTo({"arguments", "identity", "userns", "tools"}, "tools")
      /\ upTo({"arguments", "identity", "userns", "tools", "ranges"}, "ranges")
      /\ LET before == {"arguments", "identity", "userns", "tools", "ranges", "scratch",
                        "operations", "operated"}
         IN  /\ upTo(before, "scratch")
             /\ upTo(before \cup {"architecture"}, "architecture")
             /\ upTo(before \cup {"architecture", "probe"}, "probe")
             /\ upTo(before \cup {"architecture", "probe", "paths"}, "paths")

(* The shell waits for the byte, or has announced itself and the byte is there.  *)
Unanswered == /\ \/ shell = "starting" /\ ~ready
                 \/ shell = "blocked" /\ ready
              /\ "shell" \in readyW /\ "shell" \in goR /\ "driver" \in goW /\ ~go
Blocked == shell = "blocked" /\ "shell" \in goR /\ "driver" \in goW /\ ~go

SandboxRuns ==
  /\ call.op = "run" /\ call.isolation = "bwrap" /\ call.sysroot /\ ~call.shadows /\ ~call.leaks
  /\ driver.pc \in {"start", "admit", "pipes", "spawn", "closeTheirs", "read", "map", "open",
                    "command", "waitCommand", "close", "terminate", "wait5", "killHolder", "over"}
  /\ driver.pc \in {"start", "admit", "pipes", "spawn"} => ~ready /\ ~go
  /\ At("spawn") => "driver" \in goW
  /\ driver.pc \in {"closeTheirs", "read"} => Unanswered
  /\ driver.pc \in {"map", "open", "command", "waitCommand"} => Blocked
  /\ At("waitCommand") => command \in {"running", "ok"}
  /\ command = "ok" => Proved
  /\ driver.pc \in {"close", "terminate", "wait5", "killHolder", "over"} =>
       driver.result = "ok" /\ Proved

RemovalRuns ==
  /\ call.op = "remove" /\ call.sysroot
  /\ driver.pc \in {"start", "pipes", "spawn", "closeTheirs", "read", "map", "go", "close",
                    "wait", "over"}
  /\ driver.pc \in {"start", "pipes", "spawn"} => ~ready /\ ~go
  /\ At("spawn") => "driver" \in goW
  /\ driver.pc \in {"closeTheirs", "read"} => Unanswered
  /\ driver.pc \in {"map", "go"} => Blocked
  /\ driver.pc \in {"close", "wait"} => \/ shell = "blocked" /\ go
                                        \/ shell \in {"entering", "running"}
                                        \/ shell = "exited ok" /\ tree = {}
  /\ ~At("over") => driver.result = None
  /\ At("over") => driver.result = "ok" /\ tree = {}

AllGoesWell ==
  /\ pf.raised = "no" /\ pf.fails = {} /\ pf.pc # "killed" /\ host = HostOf
  /\ AllPassed
  /\ Turn("sandbox") => SandboxRuns
  /\ pf.pc \in {"record", "owners"} => Proved
  /\ Turn("removing") => RemovalRuns
  /\ pf.pc # "rmtree"
  /\ Turn("over") => pf.exit = "0"
SmoothInv == faults \in Nat /\ (Smooth => AllGoesWell)

(* What a sound worker has to show to each check. *)
LEMMA SoundWorkerHolds ==
  ASSUME Sound, facts \in Facts
  PROVE  /\ facts.user = "service" /\ facts.userns_max = "on"
         /\ facts.userns_clone \in {"on", "absent"}
         /\ resolved = RequiredTools /\ facts.features
         /\ HostOf = [tools |-> Tools, subids |-> TRUE] /\ subid_mapping_available
         /\ ValidRange(facts.uid, WorkerId.uid) /\ ValidRange(facts.gid, WorkerId.gid)
         /\ ScratchHolds /\ facts.hardlinks /\ facts.disjoint
         /\ \/ facts.target = facts.native
            \/ /\ facts.target = "aarch64" /\ facts.native = "x86_64"
               /\ facts.emulated /\ facts.binfmt
         /\ facts.probe = "usable" /\ facts.probe_machine = facts.target
         /\ ~facts.ships_build /\ facts.inside = {}
         /\ \A o \in Owners : Mapped(o)
<1>1. resolved = RequiredTools  BY DEF Sound, resolved
<1>2. /\ \A t \in Tools : OnPath(t)
      /\ OnPath("newuidmap") /\ OnPath("newgidmap")
  BY PreflightAssumption DEF Sound, Tools, OnPath
<1>3. \A r \in {facts.uid, facts.gid} :
        r.base > 0 /\ r.count >= NeededIds /\ r.base + r.count - 1 <= MaxId /\ ~Holds(r, facts.worker)
  BY DEF Sound
<1>4. /\ facts.uid.count \in Nat /\ facts.gid.count \in Nat /\ NeededIds \in Nat /\ NeededIds > 0
      /\ facts.uid.count >= NeededIds /\ facts.gid.count >= NeededIds
  BY <1>3, PreflightAssumption
<1>5. subid_mapping_available  BY <1>2, <1>4 DEF subid_mapping_available, ranged
<1>6. HostOf = [tools |-> Tools, subids |-> TRUE]
  <2>1. {t \in Tools : OnPath(t)} = Tools  BY <1>2
  <2>. QED  BY <2>1, <1>5 DEF HostOf, subid_mapping_available, ranged
<1>7. ValidRange(facts.uid, WorkerId.uid) /\ ValidRange(facts.gid, WorkerId.gid)
  BY <1>3 DEF ValidRange, WorkerId
<1>8. ScratchHolds  BY DEF Sound, ScratchHolds, InodesOK
<1>9. ASSUME NEW o \in Owners PROVE Mapped(o)
  <2>1. o[1] \in 1 .. NeededIds /\ o[2] \in 1 .. NeededIds  BY PreflightAssumption
  <2>. QED  BY <2>1, <1>4 DEF Mapped
<1>. QED  BY <1>1, <1>5, <1>6, <1>7, <1>8, <1>9 DEF Sound

(* What such a worker's probe writes is what is expected of it. *)
LEMMA ProbeSucceeds ==
  ASSUME Sound, facts \in Facts, facts' = facts,
         results' = [there |-> TRUE, failing |-> facts.inside
                       \cup {"ownership" : o \in {p \in Owners : ~Mapped(p)}}],
         owners' = [o \in {p \in Owners : Mapped(p)} |->
                      <<Outside(facts.uid, WorkerId.uid, o[1]),
                        Outside(facts.gid, WorkerId.gid, o[2])>>]
  PROVE  Proved'
<1>1. ~facts.ships_build /\ facts.inside = {} /\ \A o \in Owners : Mapped(o)
  BY SoundWorkerHolds
<1>2. results'.there /\ results'.failing = {}  BY <1>1
<1>3. ASSUME NEW o \in Owners PROVE o \in DOMAIN owners' /\ owners'[o] = expected(o)
  <2>1. o[1] \in 1 .. NeededIds /\ o[2] \in 1 .. NeededIds  BY PreflightAssumption
  <2>2. o[1] # 0 /\ o[2] # 0  BY <2>1, PreflightAssumption
  <2>3. o \in DOMAIN owners' /\ owners'[o] = <<Outside(facts.uid, WorkerId.uid, o[1]),
                                               Outside(facts.gid, WorkerId.gid, o[2])>>
    BY <1>1
  <2>. QED  BY <2>2, <2>3 DEF Outside, expected
<1>4. \A o \in Owners : expected(o)' = expected(o)  BY DEF expected
<1>. QED  BY <1>1, <1>2, <1>3, <1>4 DEF Proved

(* Trouble is not undone: what goes well after a step went well before it. *)
LEMMA StepsCount ==
  ASSUME faults \in Nat,
         DriverStep \/ ShellStep \/ CommandEnds \/ ShellDies \/ DriverKilled \/ Interrupted
  PROVE  /\ UNCHANGED host
         /\ faults' \in Nat /\ faults <= faults'
         /\ ShellDies \/ DriverKilled \/ Interrupted => faults' > 0
<1>1. DriverStep => UNCHANGED host /\ (UNCHANGED faults \/ Faulty)
  BY DEF DriverStep, Given, Start, Admit, MakePipes, Spawn, CloseTheirs, ReadReady, MapIds,
         OpenNamespace, WriteGo, RunCommand, WaitCommand, Close, Wait, ReapDead, Terminate,
         Wait5, KillHolder
<1>2. ShellStep \/ CommandEnds => UNCHANGED <<host, faults>>
  BY DEF ShellStep, Given, Announce, ReadGo, Enter, ObeyTerm, CommandEnds
<1>3. ShellDies \/ DriverKilled \/ Interrupted => UNCHANGED host /\ Faulty
  BY DEF ShellDies, DriverKilled, Interrupted, Given
<1>. QED  BY <1>1, <1>2, <1>3 DEF Faulty

LEMMA TroubleStays ==
  ASSUME PreflightInv, faults \in Nat, [PNext]_allvars
  PROVE  /\ UNCHANGED <<facts, host>> /\ faults' \in Nat /\ faults <= faults'
         /\ ~pf'.hitch => ~pf.hitch
         /\ pf'.pc = "none" <=> pf.pc = "none"
         /\ Crash \/ InterruptLauncher \/ Interrupt \/ Killed => faults' > 0
<1>1. pf = [pc |-> pf.pc, ok |-> pf.ok, fails |-> pf.fails, raised |-> pf.raised,
            hitch |-> pf.hitch, exit |-> pf.exit]
  BY DEF PreflightInv, PreflightType
<1>2. CASE PreflightStep
  <2>1. UNCHANGED <<facts, host>> /\ (UNCHANGED faults \/ Faulty)
    BY <1>2
       DEF PreflightStep, main, check_identity, check_user_namespace_policy, check_tools,
         check_subordinate_ranges, check_scratch, ScratchOperations, ScratchCleanup,
         check_architecture, check_probe_sysroot, check_probe_separation, Decide, MakeWork,
         CopyRoot, RunIsolated, AfterSandbox, _record_inside_results, _check_external_owner,
         RemoveTree, AfterRemove, Rmtree, Finish, Observe, vars, Given, Begin
  <2>2. pf.pc # "none" /\ pf'.pc # "none" /\ pf'.hitch = pf.hitch
    <3>1. CASE main
      BY <1>1, <3>1 DEF main, Turn, Move, Fail, Judge, Exits
    <3>2. CASE check_identity
      BY <1>1, <3>2 DEF check_identity, Observe, Turn, Move, Fail, Judge, Exits
    <3>3. CASE check_user_namespace_policy
      BY <1>1, <3>3 DEF check_user_namespace_policy, Observe, Turn, Move, Fail, Judge, Exits
    <3>4. CASE check_tools
      <4>1. pf.pc = "tools"  BY <3>4 DEF check_tools, Observe, Turn
      <4>2. \/ pf' = [pf EXCEPT !.pc = "ranges", !.ok = pf.ok \cup {"tools"}]
            \/ pf' = [pf EXCEPT !.pc = "ranges", !.fails = pf.fails \cup {"tools"}]
            \/ pf' = [pf EXCEPT !.pc = "ranges"]
        BY <3>4, Zenon DEF check_tools, Observe, Move, Fail, Judge
      <4>. QED  BY <1>1, <4>1, <4>2
    <3>5. CASE check_subordinate_ranges
      BY <1>1, <3>5 DEF check_subordinate_ranges, Observe, Turn, Move, Fail, Judge, Exits
    <3>6. CASE check_scratch
      BY <1>1, <3>6 DEF check_scratch, Turn, Move, Fail, Judge, Exits
    <3>7. CASE ScratchOperations
      BY <1>1, <3>7 DEF ScratchOperations, Turn, Move, Fail, Judge, Exits
    <3>8. CASE ScratchCleanup
      BY <1>1, <3>8 DEF ScratchCleanup, Turn, Move, Fail, Judge, Exits
    <3>9. CASE check_architecture
      BY <1>1, <3>9 DEF check_architecture, Observe, Turn, Move, Fail, Judge, Exits
    <3>10. CASE check_probe_sysroot
      BY <1>1, <3>10 DEF check_probe_sysroot, Observe, Turn, Move, Fail, Judge, Exits
    <3>11. CASE check_probe_separation
      <4>1. pf.pc = "paths"  BY <3>11 DEF check_probe_separation, Turn
      <4>2. \/ pf' = [pf EXCEPT !.pc = "decide", !.ok = pf.ok \cup {"paths"}]
            \/ pf' = [pf EXCEPT !.pc = "decide", !.fails = pf.fails \cup {"paths"}]
            \/ pf' = [pf EXCEPT !.pc = "decide"]
        BY <3>11, Zenon DEF check_probe_separation, Move, Fail, Judge
      <4>. QED  BY <1>1, <4>1, <4>2
    <3>12. CASE Decide
      BY <1>1, <3>12 DEF Decide, Turn, Move, Fail, Judge, Exits
    <3>13. CASE MakeWork
      BY <1>1, <3>13 DEF MakeWork, Turn, Move, Fail, Judge, Exits
    <3>14. CASE CopyRoot
      BY <1>1, <3>14 DEF CopyRoot, Turn, Move, Fail, Judge, Exits
    <3>15. CASE RunIsolated
      BY <1>1, <3>15 DEF RunIsolated, Turn, Move, Fail, Judge, Exits
    <3>16. CASE AfterSandbox
      BY <1>1, <3>16 DEF AfterSandbox, Turn, Move, Fail, Judge, Exits
    <3>17. CASE _record_inside_results
      BY <1>1, <3>17 DEF _record_inside_results, Turn, Move, Fail, Judge, Exits
    <3>18. CASE _check_external_owner
      BY <1>1, <3>18 DEF _check_external_owner, Turn, Move, Fail, Judge, Exits
    <3>19. CASE RemoveTree
      BY <1>1, <3>19 DEF RemoveTree, Turn, Move, Fail, Judge, Exits
    <3>20. CASE AfterRemove
      BY <1>1, <3>20 DEF AfterRemove, Turn, Move, Fail, Judge, Exits
    <3>21. CASE Rmtree
      BY <1>1, <3>21 DEF Rmtree, Turn, Move, Fail, Judge, Exits
    <3>22. CASE Finish
      BY <1>1, <3>22 DEF Finish, Turn, Move, Fail, Judge, Exits
    <3>. QED
      BY <1>2, <3>1, <3>2, <3>3, <3>4, <3>5, <3>6, <3>7, <3>8, <3>9, <3>10, <3>11,
         <3>12, <3>13, <3>14, <3>15, <3>16, <3>17, <3>18, <3>19, <3>20, <3>21, <3>22 DEF
         PreflightStep
  <2>3. ~(Crash \/ InterruptLauncher \/ Interrupt \/ Killed) \/ faults' > 0
    BY StepsCount DEF Crash, InterruptLauncher, Interrupt, Killed, Faulty
  <2>. QED  BY <2>1, <2>2, <2>3 DEF Faulty
<1>3. CASE LauncherStep \/ HolderStep \/ inside_probe \/ Crash \/ InterruptLauncher
  <2>1. UNCHANGED facts /\ pf'.pc = pf.pc /\ (~pf'.hitch => ~pf.hitch)
    BY <1>1, <1>3 DEF LauncherStep, HolderStep, inside_probe, Crash, InterruptLauncher, pvars
  <2>2. /\ UNCHANGED host /\ faults' \in Nat /\ faults <= faults'
        /\ Crash \/ InterruptLauncher => faults' > 0
    BY <1>3, StepsCount DEF LauncherStep, HolderStep, inside_probe, Crash, InterruptLauncher
  <2>3. ~(Interrupt \/ Killed) \/ faults' > 0
    BY StepsCount DEF Interrupt, Killed, Faulty
  <2>. QED  BY <2>1, <2>2, <2>3
<1>4. CASE Interrupt
  <2>1. UNCHANGED <<facts, host>> /\ Faulty  BY <1>4 DEF Interrupt, Given
  <2>2. pf.pc # "none" /\ pf'.pc # "none" /\ pf'.hitch = pf.hitch
    BY <1>1, <1>4 DEF Interrupt, Interruptible, InLauncher, Exits
  <2>. QED  BY <2>1, <2>2 DEF Faulty
<1>5. CASE Killed
  <2>1. UNCHANGED <<facts, host>> /\ faults' \in Nat /\ faults <= faults' /\ faults' > 0
    BY <1>5, StepsCount DEF Killed, Faulty, Given
  <2>2. (pf'.pc = "none" <=> pf.pc = "none") /\ pf'.hitch = pf.hitch
    BY <1>1, <1>5 DEF Killed, Move, Turn
  <2>. QED  BY <2>1, <2>2
<1>6. CASE UNCHANGED allvars
  <2>1. UNCHANGED <<facts, host, faults, pf>>  BY <1>6 DEF allvars, vars, pvars
  <2>2. ~(Crash \/ InterruptLauncher \/ Interrupt \/ Killed) \/ faults' > 0
    BY StepsCount DEF Crash, InterruptLauncher, Interrupt, Killed, Faulty
  <2>. QED  BY <2>1, <2>2
<1>. QED  BY <1>2, <1>3, <1>4, <1>5, <1>6 DEF PNext

(* The sandbox of a sound worker: each step of the driver, of the shell or of    *)
(* the probe leads on to its success.                                           *)
LEMMA SandboxGoesOn ==
  ASSUME LauncherInv, SandboxRuns, host = [tools |-> Tools, subids |-> TRUE],
         faults = 0, faults' = 0, UNCHANGED <<facts, results, owners>>, DriverStep
  PROVE  SandboxRuns'
<1>. USE DEF SandboxRuns, Unanswered, Blocked, At
<1>. /\ driver = [pc |-> driver.pc, mode |-> driver.mode, result |-> driver.result]
     /\ driver.pc # "start" => driver.mode = "bwrap"
     /\ driver.pc \in {"start", "admit", "pipes", "spawn"} => shell = "none" /\ command = None
     /\ Proved' <=> Proved
  BY ProofStays DEF LauncherInv, LauncherType, ModeIsAsked, Unstarted
<1>1. CASE Start
  BY <1>1 DEF Start, resolve_isolation, Goto, End, Raise, Given, Pipes, None, Gone, ShellLives
<1>2. CASE Admit
  BY <1>2 DEF Admit, Admitted, Tools, Goto, End, Raise, Given, Pipes, None, Gone, ShellLives
<1>3. CASE MakePipes
  BY <1>3 DEF MakePipes, Goto, End, Raise, Given, Pipes, None, Gone, ShellLives
<1>4. CASE Spawn
  BY <1>4 DEF Spawn, Goto, End, Raise, Given, Pipes, None, Gone, ShellLives
<1>5. CASE CloseTheirs
  BY <1>5 DEF CloseTheirs, Goto, End, Raise, Given, Pipes, None, Gone, ShellLives
<1>6. CASE ReadReady
  BY <1>6 DEF ReadReady, Goto, End, Raise, Given, Pipes, None, Gone, ShellLives
<1>7. CASE MapIds
  BY <1>7 DEF MapIds, Faulty, Goto, End, Raise, Given, Pipes, None, Gone, ShellLives
<1>8. CASE OpenNamespace
  BY <1>8 DEF OpenNamespace, Goto, End, Raise, Given, Pipes, None, Gone, ShellLives
<1>9. CASE WriteGo
  BY <1>9 DEF WriteGo, Goto, End, Raise, Given, Pipes, None, Gone, ShellLives
<1>10. CASE RunCommand
  BY <1>10 DEF RunCommand, Goto, End, Raise, Given, Pipes, None, Gone, ShellLives
<1>11. CASE WaitCommand
  BY <1>11 DEF WaitCommand, Goto, End, Raise, Given, Pipes, None, Gone, ShellLives
<1>12. CASE Close
  BY <1>12 DEF Close, Goto, End, Raise, Given, Pipes, None, Gone, ShellLives
<1>13. CASE Wait
  BY <1>13 DEF Wait, Goto, End, Raise, Given, Pipes, None, Gone, ShellLives
<1>14. CASE ReapDead
  BY <1>14 DEF ReapDead, Goto, End, Raise, Given, Pipes, None, Gone, ShellLives
<1>15. CASE Terminate
  BY <1>15 DEF Terminate, Goto, End, Raise, Given, Pipes, None, Gone, ShellLives
<1>16. CASE Wait5
  BY <1>16 DEF Wait5, Goto, End, Raise, Given, Pipes, None, Gone, ShellLives
<1>17. CASE KillHolder
  BY <1>17 DEF KillHolder, Left, Goto, End, Raise, Given, Pipes, None, Gone, ShellLives
<1>. QED
  BY <1>1, <1>2, <1>3, <1>4, <1>5, <1>6, <1>7, <1>8, <1>9, <1>10, <1>11, <1>12, <1>13,
     <1>14, <1>15, <1>16, <1>17
     DEF DriverStep

LEMMA SandboxAnswers ==
  ASSUME LauncherInv, SandboxRuns, Sound, facts \in Facts, UNCHANGED facts,
         Turn("sandbox"), PreflightInv, ~pf'.hitch,
         HolderStep \/ inside_probe
  PROVE  SandboxRuns'
<1>. USE DEF SandboxRuns, Unanswered, Blocked, At, Turn
<1>. /\ driver = [pc |-> driver.pc, mode |-> driver.mode, result |-> driver.result]
     /\ driver.pc # "start" => driver.mode = "bwrap"
     /\ driver.pc \in {"start", "admit", "pipes", "spawn"} => shell = "none" /\ command = None
     /\ driver.mode = "bwrap" => shell \notin {"entering", "running"}
     /\ driver.mode = "bwrap" /\ command = "running" => At("waitCommand")
     /\ pf = [pc |-> pf.pc, ok |-> pf.ok, fails |-> pf.fails, raised |-> pf.raised,
              hitch |-> pf.hitch, exit |-> pf.exit]
  BY DEF LauncherInv, LauncherType, ModeIsAsked, Unstarted, HeldUnderBwrap,
         PreflightInv, PreflightType
<1>1. ASSUME UNCHANGED <<results, owners>> PROVE Proved' <=> Proved
  BY <1>1, ProofStays
<1>2. CASE HolderStep
  <2>1. Proved' <=> Proved  BY <1>2, <1>1 DEF HolderStep
  <2>2. CASE Announce
    BY <2>1, <2>2 DEF Announce, Reading, Given, Left, None
  <2>3. CASE ReadGo
    BY <2>1, <2>3 DEF ReadGo, Given, Left, None
  <2>4. CASE Enter
    BY <2>1, <2>4 DEF Enter, Given, Left, None
  <2>5. CASE ObeyTerm
    BY <2>1, <2>5 DEF ObeyTerm, Given, Left, None
  <2>. QED  BY <1>2, <2>2, <2>3, <2>4, <2>5 DEF HolderStep, ShellStep
<1>3. CASE inside_probe
  <2>1. /\ command = "running" /\ command' = "ok" /\ driver' = driver /\ call' = call
        /\ At("waitCommand") /\ shell' = shell /\ UNCHANGED <<readyW, ready, goR, goW, go>>
    <3>1. pf'.hitch = (pf.hitch \/ command' = "bad") \/ command' = "ok"
      BY <1>3 DEF inside_probe, CommandEnds
    <3>. QED  BY <1>3, <3>1 DEF inside_probe, CommandEnds, Given, None
  <2>2. Proved'
    BY <1>3, <2>1, ProbeSucceeds DEF inside_probe
  <2>. QED  BY <2>1, <2>2
<1>. QED  BY <1>2, <1>3

(* And so does the removal of its tree. *)
LEMMA RemovalGoesOn ==
  ASSUME LauncherInv, RemovalInShell, RemovalRuns,
         host = [tools |-> Tools, subids |-> TRUE], faults = 0, faults' = 0,
         UNCHANGED tree, DriverStep
  PROVE  RemovalRuns'
<1>. USE DEF RemovalRuns, Unanswered, Blocked, At
<1>. /\ driver = [pc |-> driver.pc, mode |-> driver.mode, result |-> driver.result]
     /\ driver.pc \notin {"start", "over"} => driver.mode = "remove"
     /\ driver.pc \in {"start", "pipes", "spawn"} => shell = "none" /\ command = None
  BY DEF LauncherInv, LauncherType, RemovalInShell, Unstarted
<1>1. CASE Start
  <2>1. "unshare" \in host.tools /\ host.subids  BY DEF Tools
  <2>2. driver' = [driver EXCEPT !.mode = "remove", !.pc = "pipes"] /\ UNCHANGED <<call, shell, command>>
        /\ UNCHANGED Pipes
    BY <1>1, <2>1 DEF Start, Given, End
  <2>3. driver.pc = "start"  BY <1>1 DEF Start
  <2>. QED  BY <2>2, <2>3 DEF Pipes, None
<1>2. CASE Admit
  BY <1>2 DEF Admit, Admitted, Tools, Goto, End, Raise, Given, Pipes, None, Gone, ShellLives
<1>3. CASE MakePipes
  BY <1>3 DEF MakePipes, Goto, End, Raise, Given, Pipes, None, Gone, ShellLives
<1>4. CASE Spawn
  BY <1>4 DEF Spawn, Goto, End, Raise, Given, Pipes, None, Gone, ShellLives
<1>5. CASE CloseTheirs
  BY <1>5 DEF CloseTheirs, Goto, End, Raise, Given, Pipes, None, Gone, ShellLives
<1>6. CASE ReadReady
  BY <1>6 DEF ReadReady, Goto, End, Raise, Given, Pipes, None, Gone, ShellLives
<1>7. CASE MapIds
  BY <1>7 DEF MapIds, Faulty, Goto, End, Raise, Given, Pipes, None, Gone, ShellLives
<1>8. CASE OpenNamespace
  BY <1>8 DEF OpenNamespace, Goto, End, Raise, Given, Pipes, None, Gone, ShellLives
<1>9. CASE WriteGo
  BY <1>9 DEF WriteGo, Goto, End, Raise, Given, Pipes, None, Gone, ShellLives
<1>10. CASE RunCommand
  BY <1>10 DEF RunCommand, Goto, End, Raise, Given, Pipes, None, Gone, ShellLives
<1>11. CASE WaitCommand
  BY <1>11 DEF WaitCommand, Goto, End, Raise, Given, Pipes, None, Gone, ShellLives
<1>12. CASE Close
  BY <1>12 DEF Close, Goto, End, Raise, Given, Pipes, None, Gone, ShellLives
<1>13. CASE Wait
  BY <1>13 DEF Wait, Goto, End, Raise, Given, Pipes, None, Gone, ShellLives
<1>14. CASE ReapDead
  BY <1>14 DEF ReapDead, Goto, End, Raise, Given, Pipes, None, Gone, ShellLives
<1>15. CASE Terminate
  BY <1>15 DEF Terminate, Goto, End, Raise, Given, Pipes, None, Gone, ShellLives
<1>16. CASE Wait5
  BY <1>16 DEF Wait5, Goto, End, Raise, Given, Pipes, None, Gone, ShellLives
<1>17. CASE KillHolder
  BY <1>17 DEF KillHolder, Left, Goto, End, Raise, Given, Pipes, None, Gone, ShellLives
<1>. QED
  BY <1>1, <1>2, <1>3, <1>4, <1>5, <1>6, <1>7, <1>8, <1>9, <1>10, <1>11, <1>12, <1>13,
     <1>14, <1>15, <1>16, <1>17
     DEF DriverStep

LEMMA RemovalAnswers ==
  ASSUME LauncherInv, RemovalInShell, RemovalRuns,
         Turn("removing"), PreflightInv, ~pf'.hitch,
         HolderStep \/ inside_probe
  PROVE  RemovalRuns'
<1>. USE DEF RemovalRuns, Unanswered, Blocked, At, Turn
<1>. /\ driver = [pc |-> driver.pc, mode |-> driver.mode, result |-> driver.result]
     /\ driver.pc \notin {"start", "over"} => driver.mode = "remove"
     /\ driver.pc \in {"start", "pipes", "spawn"} => shell = "none" /\ command = None
     /\ driver.mode = "remove" /\ command = "running" => shell = "running"
     /\ pf = [pc |-> pf.pc, ok |-> pf.ok, fails |-> pf.fails, raised |-> pf.raised,
              hitch |-> pf.hitch, exit |-> pf.exit]
  BY DEF LauncherInv, LauncherType, RemovalInShell, Unstarted, PreflightInv, PreflightType
<1>1. CASE HolderStep
  <2>1. tree' = tree /\ ~(shell = "entering" /\ shell' = "exited bad")
    BY <1>1 DEF HolderStep
  <2>2. CASE Announce
    BY <2>1, <2>2 DEF Announce, Reading, Given, Left, None
  <2>3. CASE ReadGo
    BY <2>1, <2>3 DEF ReadGo, Given, Left, None
  <2>4. CASE Enter
    BY <2>1, <2>4 DEF Enter, Given, Left, None
  <2>5. CASE ObeyTerm
    BY <2>1, <2>5 DEF ObeyTerm, Given, Left, None
  <2>. QED  BY <1>1, <2>2, <2>3, <2>4, <2>5 DEF HolderStep, ShellStep
<1>2. CASE inside_probe
  <2>1. command = "running" /\ command' \in {"ok", "bad"} /\ ~(command' = "bad")
    BY <1>2 DEF inside_probe, CommandEnds
  <2>2. command' = "ok" /\ tree' = {}
    BY <1>2, <2>1 DEF inside_probe
  <2>. QED  BY <1>2, <2>1, <2>2 DEF inside_probe, CommandEnds, Exit, Given, None
<1>. QED  BY <1>1, <1>2

(* No check of a sound worker fails, and each leads on to the next. *)
LEMMA GoesWellOn ==
  ASSUME PreflightInv, RemovalInShell, faults = 0, faults' = 0, UNCHANGED <<facts, host>>,
         Smooth, AllGoesWell, facts \in Facts, PreflightStep
  PROVE  AllGoesWell'
<1>. USE DEF Turn
<1>1. /\ pf = [pc |-> pf.pc, ok |-> pf.ok, fails |-> pf.fails, raised |-> pf.raised,
               hitch |-> pf.hitch, exit |-> pf.exit]
      /\ pf.raised = "no" /\ pf.fails = {}
  BY DEF PreflightInv, PreflightType, AllGoesWell
<1>2. HostOf' = HostOf
  BY DEF HostOf, OnPath, subid_mapping_available, ranged
<1>3. ~Faulty
  BY DEF Faulty
<1>4. ASSUME NEW next \in {"identity", "userns", "tools", "ranges", "scratch", "operations",
                           "operated", "architecture", "probe", "paths", "decide", "mkdtemp",
                           "copy", "enter", "finally", "finish"},
             pf'.pc = next, pf'.raised = "no", pf'.fails = {}, AllPassed'
      PROVE  AllGoesWell'
  BY <1>2, <1>4 DEF AllGoesWell
<1>5. CASE main
  <2>1. pf' = [pf EXCEPT !.pc = "identity"] /\ pf.pc = "arguments"
    BY <1>5 DEF main, Smooth, Move
  <2>2. AllPassed'  BY <1>1, <2>1 DEF AllPassed
  <2>. QED  BY <1>1, <1>4, <2>1, <2>2
<1>6. CASE check_identity
  <2>1. pf' = [pf EXCEPT !.pc = "userns", !.ok = pf.ok \cup {"identity"}] /\ pf.pc = "identity"
    BY <1>6, SoundWorkerHolds, Zenon DEF check_identity, Observe, Judge, Smooth
  <2>2. AllPassed'  BY <1>1, <2>1 DEF AllPassed, AllGoesWell
  <2>. QED  BY <1>1, <1>4, <2>1, <2>2
<1>7. CASE check_user_namespace_policy
  <2>1. pf' = [pf EXCEPT !.pc = "tools", !.ok = pf.ok \cup {"userns"}] /\ pf.pc = "userns"
    BY <1>7, SoundWorkerHolds, Zenon DEF check_user_namespace_policy, Observe, Judge, Smooth
  <2>2. AllPassed'  BY <1>1, <2>1 DEF AllPassed, AllGoesWell
  <2>. QED  BY <1>1, <1>4, <2>1, <2>2
<1>8. CASE check_tools
  <2>1. pf' = [pf EXCEPT !.pc = "ranges", !.ok = pf.ok \cup {"tools"}] /\ pf.pc = "tools"
    BY <1>8, SoundWorkerHolds, Zenon DEF check_tools, Observe, Judge, Smooth
  <2>2. AllPassed'  BY <1>1, <2>1 DEF AllPassed, AllGoesWell
  <2>. QED  BY <1>1, <1>4, <2>1, <2>2
<1>9. CASE check_subordinate_ranges
  <2>1. pf' = [pf EXCEPT !.pc = "scratch", !.ok = pf.ok \cup {"ranges"}] /\ pf.pc = "ranges"
    BY <1>9, SoundWorkerHolds, Zenon DEF check_subordinate_ranges, Observe, Judge, Smooth
  <2>2. AllPassed'  BY <1>1, <2>1 DEF AllPassed, AllGoesWell
  <2>. QED  BY <1>1, <1>4, <2>1, <2>2
<1>10. CASE check_architecture
  <2>1. pf' = [pf EXCEPT !.pc = "probe", !.ok = pf.ok \cup {"architecture"}] /\ pf.pc = "architecture"
    BY <1>10, SoundWorkerHolds, Zenon DEF check_architecture, Observe, Judge, Smooth
  <2>2. AllPassed'  BY <1>1, <2>1 DEF AllPassed, AllGoesWell
  <2>. QED  BY <1>1, <1>4, <2>1, <2>2
<1>11. CASE check_probe_sysroot
  <2>1. pf' = [pf EXCEPT !.pc = "paths", !.ok = pf.ok \cup {"probe"}] /\ pf.pc = "probe"
    BY <1>11, SoundWorkerHolds, Zenon DEF check_probe_sysroot, Observe, Judge, Smooth
  <2>2. AllPassed'  BY <1>1, <2>1 DEF AllPassed, AllGoesWell
  <2>. QED  BY <1>1, <1>4, <2>1, <2>2
<1>12. CASE check_probe_separation
  <2>1. pf' = [pf EXCEPT !.pc = "decide", !.ok = pf.ok \cup {"paths"}] /\ pf.pc = "paths"
    BY <1>12, SoundWorkerHolds, Zenon DEF check_probe_separation, Judge, Smooth, AllPassed, AllGoesWell
  <2>2. AllPassed'  BY <1>1, <2>1 DEF AllPassed, AllGoesWell
  <2>. QED  BY <1>1, <1>4, <2>1, <2>2
<1>13. CASE check_scratch
  <2>1. pf' = [pf EXCEPT !.pc = "operations"] /\ pf.pc = "scratch"
    BY <1>13, <1>1, <1>3, SoundWorkerHolds DEF check_scratch, Move, Smooth, ScratchHolds
  <2>2. AllPassed'  BY <1>1, <2>1 DEF AllPassed, AllGoesWell
  <2>. QED  BY <1>1, <1>4, <2>1, <2>2
<1>14. CASE ScratchOperations
  <2>1. pf' = [pf EXCEPT !.pc = "operated"] /\ pf.pc = "operations"
    BY <1>14, <1>1, <1>3, SoundWorkerHolds DEF ScratchOperations, Move, Smooth
  <2>2. AllPassed'  BY <1>1, <2>1 DEF AllPassed, AllGoesWell
  <2>. QED  BY <1>1, <1>4, <2>1, <2>2
<1>15. CASE ScratchCleanup
  <2>1. pf' = [pf EXCEPT !.pc = "architecture", !.ok = pf.ok \cup {"scratch"}] /\ pf.pc = "operated"
    BY <1>15, <1>1, <1>3 DEF ScratchCleanup, Judge
  <2>2. AllPassed'  BY <1>1, <2>1 DEF AllPassed, AllGoesWell
  <2>. QED  BY <1>1, <1>4, <2>1, <2>2
<1>16. CASE Decide
  <2>1. pf' = [pf EXCEPT !.pc = "mkdtemp"] /\ pf.pc = "decide"
    BY <1>16 DEF Decide, Move, AllPassed, AllGoesWell, Prerequisites
  <2>2. AllPassed'  BY <1>1, <2>1 DEF AllPassed, AllGoesWell
  <2>. QED  BY <1>1, <1>4, <2>1, <2>2
<1>17. CASE MakeWork
  <2>1. pf' = [pf EXCEPT !.pc = "copy"] /\ pf.pc = "mkdtemp"
    BY <1>17, <1>1, <1>3 DEF MakeWork, Move
  <2>2. AllPassed'  BY <1>1, <2>1 DEF AllPassed, AllGoesWell
  <2>. QED  BY <1>1, <1>4, <2>1, <2>2
<1>18. CASE CopyRoot
  <2>1. pf' = [pf EXCEPT !.pc = "enter"] /\ pf.pc = "copy"
    BY <1>18, <1>1, <1>3 DEF CopyRoot, Move
  <2>2. AllPassed'  BY <1>1, <2>1 DEF AllPassed, AllGoesWell
  <2>. QED  BY <1>1, <1>4, <2>1, <2>2
<1>19. CASE RunIsolated
  <2>1. pf' = [pf EXCEPT !.pc = "sandbox"] /\ pf.pc = "enter"
    BY <1>19 DEF RunIsolated, Move
  <2>2. AllPassed'  BY <1>1, <2>1 DEF AllPassed, AllGoesWell
  <2>3. SandboxRuns'
    <3>1. ~facts.ships_build /\ facts.launcher = "stand-in"  BY SoundWorkerHolds DEF Smooth
    <3>. QED  BY <1>19, <3>1 DEF RunIsolated, Begin, SandboxRuns, At, None
  <2>. QED  BY <1>1, <1>2, <2>1, <2>2, <2>3 DEF AllGoesWell
<1>20. CASE AfterSandbox
  <2>1. pf' = [pf EXCEPT !.pc = "record"] /\ pf.pc = "sandbox" /\ Proved
    BY <1>20, <1>1 DEF AfterSandbox, Move, Returned, AllGoesWell, SandboxRuns, At
  <2>2. AllPassed'  BY <1>1, <2>1 DEF AllPassed, AllGoesWell
  <2>3. Proved'  BY <1>20, <2>1, ProofStays DEF AfterSandbox
  <2>. QED  BY <1>1, <1>2, <2>1, <2>2, <2>3 DEF AllGoesWell
<1>21. CASE _record_inside_results
  <2>1. pf' = [pf EXCEPT !.pc = "owners", !.fails = {}] /\ pf.pc = "record" /\ Proved
    BY <1>21, <1>1 DEF _record_inside_results, AllGoesWell, Proved
  <2>2. AllPassed'  BY <1>1, <2>1 DEF AllPassed, AllGoesWell
  <2>3. Proved'  BY <1>21, <2>1, ProofStays DEF _record_inside_results
  <2>. QED  BY <1>1, <1>2, <2>1, <2>2, <2>3 DEF AllGoesWell
<1>22. CASE _check_external_owner
  <2>1. pf' = [pf EXCEPT !.pc = "finally"] /\ pf.pc = "owners"
    BY <1>22 DEF _check_external_owner, Move, AllGoesWell, Proved
  <2>2. AllPassed'  BY <1>1, <2>1 DEF AllPassed, AllGoesWell
  <2>. QED  BY <1>1, <1>4, <2>1, <2>2
<1>23. CASE RemoveTree
  <2>1. pf' = [pf EXCEPT !.pc = "removing"] /\ pf.pc = "finally"
    BY <1>23 DEF RemoveTree, Move
  <2>2. AllPassed'  BY <1>1, <2>1 DEF AllPassed, AllGoesWell
  <2>3. RemovalRuns'  BY <1>23 DEF RemoveTree, Begin, RemovalRuns, At, None
  <2>. QED  BY <1>1, <1>2, <2>1, <2>2, <2>3 DEF AllGoesWell
<1>24. CASE AfterRemove
  <2>1. pf' = [pf EXCEPT !.pc = "finish"] /\ pf.pc = "removing"
    BY <1>24, <1>1 DEF AfterRemove, Move, Returned, AllGoesWell, RemovalRuns, At
  <2>2. AllPassed'  BY <1>1, <2>1 DEF AllPassed, AllGoesWell
  <2>. QED  BY <1>1, <1>4, <2>1, <2>2
<1>25. CASE Rmtree
  BY <1>25 DEF Rmtree, AllGoesWell
<1>26. CASE Finish
  <2>1. pf' = [pf EXCEPT !.pc = "over", !.fails = {}, !.exit = "0"] /\ pf.pc = "finish"
    BY <1>26, <1>1 DEF Finish, Exits
  <2>2. AllPassed'  BY <1>1, <2>1 DEF AllPassed, AllGoesWell
  <2>. QED  BY <1>1, <1>2, <2>1, <2>2 DEF AllGoesWell
<1>. QED
  BY <1>5, <1>6, <1>7, <1>8, <1>9, <1>10, <1>11, <1>12, <1>13, <1>14, <1>15, <1>16,
     <1>17, <1>18, <1>19, <1>20, <1>21, <1>22, <1>23, <1>24, <1>25, <1>26 DEF
     PreflightStep

LEMMA SmoothKept ==
  LauncherInv /\ PreflightInv /\ RemovalInShell /\ SmoothInv /\ [PNext]_allvars => SmoothInv'
<1>. SUFFICES ASSUME LauncherInv, PreflightInv, RemovalInShell, SmoothInv, [PNext]_allvars
              PROVE  SmoothInv'
  OBVIOUS
<1>1. /\ UNCHANGED <<facts, host>> /\ faults' \in Nat /\ faults <= faults' /\ faults \in Nat
      /\ ~pf'.hitch => ~pf.hitch
      /\ pf'.pc = "none" <=> pf.pc = "none"
      /\ Crash \/ InterruptLauncher \/ Interrupt \/ Killed => faults' > 0
  BY TroubleStays DEF SmoothInv
<1>2. SUFFICES ASSUME Smooth' PROVE AllGoesWell'
  BY <1>1 DEF SmoothInv
<1>3. /\ faults' = 0 /\ faults = 0 /\ ~pf'.hitch /\ facts.launcher = "stand-in"
      /\ Sound' /\ pf.pc # "none"
  BY <1>1, <1>2 DEF Smooth, Turn
<1>4. Sound
  BY <1>1, <1>3 DEF Sound, Holds
<1>5. Smooth /\ AllGoesWell /\ facts \in Facts
  BY <1>1, <1>2, <1>3, <1>4 DEF Smooth, SmoothInv, Turn, PreflightInv, PreflightType
<1>6. host = [tools |-> Tools, subids |-> TRUE] /\ HostOf' = HostOf
  <2>1. HostOf' = HostOf
    BY <1>1 DEF HostOf, OnPath, subid_mapping_available, ranged
  <2>. QED  BY <2>1, <1>4, <1>5, SoundWorkerHolds DEF AllGoesWell
<1>7. pf = [pc |-> pf.pc, ok |-> pf.ok, fails |-> pf.fails, raised |-> pf.raised,
            hitch |-> pf.hitch, exit |-> pf.exit]
  BY DEF PreflightInv, PreflightType
<1>8. CASE PreflightStep
  BY <1>1, <1>3, <1>5, <1>8, GoesWellOn
<1>9. CASE LauncherStep
  <2>1. DriverStep /\ UNCHANGED <<pf, facts, tree, results, owners>>
    BY <1>9 DEF LauncherStep, pvars
  <2>2. Turn("sandbox") => SandboxRuns'
    BY <2>1, <1>3, <1>5, <1>6, SandboxGoesOn DEF AllGoesWell
  <2>3. Turn("removing") => RemovalRuns'
    BY <2>1, <1>3, <1>5, <1>6, RemovalGoesOn DEF AllGoesWell
  <2>4. Proved' <=> Proved
    BY <2>1, ProofStays
  <2>. QED  BY <1>1, <1>5, <1>6, <2>1, <2>2, <2>3, <2>4 DEF AllGoesWell, AllPassed, Turn
<1>10. CASE HolderStep \/ inside_probe
  <2>1. /\ pf'.pc = pf.pc /\ pf'.ok = pf.ok /\ pf'.fails = pf.fails
        /\ pf'.raised = pf.raised /\ pf'.exit = pf.exit
    BY <1>7, <1>10 DEF HolderStep, inside_probe
  <2>2. Turn("sandbox") => SandboxRuns'
    BY <1>1, <1>3, <1>4, <1>5, <1>10, SandboxAnswers DEF AllGoesWell
  <2>3. Turn("removing") => RemovalRuns'
    BY <1>3, <1>5, <1>10, RemovalAnswers DEF AllGoesWell
  <2>4. ASSUME pf.pc \in {"record", "owners"} PROVE Proved'
    <3>1. Proved  BY <1>5, <2>4 DEF AllGoesWell
    <3>2. driver.pc = "over" /\ driver.mode = "bwrap"
      BY <1>5, <2>4 DEF AllGoesWell, PreflightInv, SandboxReturned, Flawless
    <3>3. command # "running"
      BY <3>2 DEF LauncherInv, HeldUnderBwrap, At
    <3>4. UNCHANGED <<results, owners>>
      BY <1>10, <3>3 DEF HolderStep, inside_probe, CommandEnds
    <3>. QED  BY <1>1, <3>1, <3>4, ProofStays
  <2>. QED  BY <1>1, <1>5, <1>6, <2>1, <2>2, <2>3, <2>4 DEF AllGoesWell, AllPassed, Turn
<1>11. CASE Crash \/ InterruptLauncher \/ Interrupt \/ Killed
  BY <1>1, <1>3, <1>11
<1>12. CASE UNCHANGED allvars
  <2>1. UNCHANGED <<pf, facts, host, tree, results, owners, call, driver, shell, command,
                    readyW, ready, goR, goW, go>>
    BY <1>12 DEF allvars, vars, pvars
  <2>2. Proved' <=> Proved
    BY <2>1, ProofStays
  <2>3. Turn("sandbox") /\ SandboxRuns => SandboxRuns'
    BY <2>1, <2>2 DEF SandboxRuns, Unanswered, Blocked, At
  <2>4. Turn("removing") /\ RemovalRuns => RemovalRuns'
    BY <2>1 DEF RemovalRuns, Unanswered, Blocked, At
  <2>. QED  BY <1>1, <1>5, <1>6, <2>1, <2>2, <2>3, <2>4 DEF AllGoesWell, AllPassed, Turn
<1>. QED  BY <1>8, <1>9, <1>10, <1>11, <1>12 DEF PNext

LEMMA SmoothInit == PInit => SmoothInv
<1>. SUFFICES ASSUME PInit PROVE SmoothInv  OBVIOUS
<1>1. \/ pf = Idle /\ faults = 0
      \/ pf = [Idle EXCEPT !.pc = "arguments"] /\ host = HostOf /\ faults = 0
  BY Zenon DEF PInit, Init
<1>2. /\ faults = 0
      /\ pf.pc # "none" => /\ pf.pc = "arguments" /\ pf.raised = "no" /\ pf.fails = {}
                           /\ host = HostOf
  BY <1>1 DEF Idle
<1>. QED  BY <1>1, <1>2 DEF SmoothInv, Smooth, AllGoesWell, AllPassed, Turn

(* No false alarm: a worker that meets every requirement passes, whatever the    *)
(* order in which the driver, the shell and the probe take their steps, when     *)
(* nothing fails, dies or is interrupted and the launcher takes the host's paths *)
(* for the probe. (run_preflight, run_sandbox_probe, _check_external_owner)       *)
THEOREM SoundWorkersPass == PSpec => []SoundWorkerPasses
<1>1. ASSUME SmoothInv PROVE SoundWorkerPasses
  BY <1>1 DEF SmoothInv, Smooth, AllGoesWell, SoundWorkerPasses, Turn
<1>2. PSpec => []SmoothInv
  BY Invariance, UnsaidHolds, SmoothInit, SmoothKept, PTL DEF PSpec
<1>. QED  BY <1>1, <1>2, PTL
=============================================================================
