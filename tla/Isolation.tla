------------------------------ MODULE Isolation ------------------------------
(* tools/_isolation.py: a driver enters a buildroot through a user namespace    *)
(* that somebody outside it has to map.  The driver starts a shell under         *)
(* `unshare`; the shell announces itself on one pipe and blocks on the other     *)
(* until the driver has had newuidmap and newgidmap install both maps.  Under    *)
(* bwrap the shell only holds the namespace open while bubblewrap runs the       *)
(* command in it; under unshare, and in remove_tree, the shell goes on to run    *)
(* the command itself.  Either process may die at any moment.                    *)
(*                                                                              *)
(* A pipe is who holds its ends and the byte in it: a read returns the byte, or  *)
(* nothing once no writer is left; a write fails once no reader is left.  The    *)
(* shell stands for `unshare` and the shell under it.                            *)
EXTENDS Naturals, FiniteSets

CONSTANTS Calls,        \* what the driver may be called with
          Hosts,        \* facts of the hosts it may run on
          MaxFaults     \* bound: helpers that fail, kills, interrupts

Ids == {"uid", "gid"}
Tools == {"bwrap", "unshare"}
None == "none"
Call == [op : {"run", "remove"}, isolation : {"auto", "bwrap", "unshare", "none", "other"},
         sysroot : BOOLEAN,        \* a buildroot was given (for remove: the path exists)
         shadows : BOOLEAN,        \* the buildroot ships a non-empty /build
         leaks   : BOOLEAN]        \* the command or env names the host work area
Host == [tools : SUBSET Tools,
         subids : BOOLEAN]         \* subid_mapping_available

ASSUME IsolationAssumption ==
  Calls \subseteq Call /\ Hosts \subseteq Host /\ MaxFaults \in Nat

VARIABLES call, host,
          driver,     \* pc, the mode resolved, the result
          shell,      \* the process under unshare
          maps,       \* the id maps installed in its namespace
          command,    \* the command run in the buildroot
          readyW, ready,        \* ready pipe: holders of the write end, the byte
          goR, goW, go,         \* go (hold) pipe: holders of each end, the byte
          faults

vars == <<call, host, driver, shell, maps, command, readyW, ready, goR, goW, go, faults>>
Pipes == <<readyW, ready, goR, goW, go>>
Given == <<call, host>>

Init ==
  /\ call \in Calls /\ host \in Hosts
  /\ driver = [pc |-> "start", mode |-> None, result |-> None]
  /\ shell = "none"
  /\ maps = {}
  /\ command = None
  /\ readyW = {} /\ ready = FALSE
  /\ goR = {} /\ goW = {} /\ go = FALSE
  /\ faults = 0

At(pc) == driver.pc = pc
Goto(pc) == driver' = [driver EXCEPT !.pc = pc]
Gone == {"none", "exited ok", "exited bad", "reaped"}       \* shells that run no more
ShellLives == shell \notin Gone
Over == {"over", "killed"}
End(result) == driver' = [driver EXCEPT !.pc = "over", !.result = result]
Sandboxed == driver.mode \in {"bwrap", "unshare", "remove"}

(* An exception: bwrap's finally reaps the holder, the other two only close. *)
Raise(why) == driver' = [driver EXCEPT !.pc = "close", !.result = why]
Faulty == faults < MaxFaults /\ faults' = faults + 1

-----------------------------------------------------------------------------
(* resolve_isolation, run_isolated and remove_tree up to the first process. *)
resolve_isolation ==
  IF call.isolation # "auto" THEN call.isolation
  ELSE IF "bwrap" \in host.tools THEN "bwrap"
  ELSE IF "unshare" \in host.tools THEN "unshare" ELSE "refused"

Start ==
  /\ At("start")
  /\ \/ /\ call.op = "remove"
        /\ \/ ~call.sysroot /\ End("ok")
           \/ call.sysroot /\ ~host.subids /\ End("not tried")
           \/ call.sysroot /\ host.subids /\ "unshare" \notin host.tools /\ End("refused")
           \/ /\ call.sysroot /\ host.subids /\ "unshare" \in host.tools
              /\ driver' = [driver EXCEPT !.mode = "remove", !.pc = "pipes"]
     \/ /\ call.op = "run"
        /\ driver' = [driver EXCEPT !.mode = resolve_isolation, !.pc = "admit"]
  /\ UNCHANGED <<Given, shell, maps, command, Pipes, faults>>

(* Nothing names the host work area, and nothing of the buildroot is hidden. *)
Admitted == /\ driver.mode \in {"bwrap", "unshare"}
            /\ call.sysroot /\ ~call.shadows /\ ~call.leaks
            /\ driver.mode \in host.tools
            /\ driver.mode = "bwrap" => host.subids /\ "unshare" \in host.tools
Admit ==
  /\ At("admit")
  /\ \/ driver.mode = "none" /\ Goto("command")
     \/ Admitted /\ (driver.mode = "bwrap" \/ host.subids) /\ Goto("pipes")
     \/ /\ Admitted /\ driver.mode = "unshare" /\ ~host.subids      \* one id, no handshake
        /\ driver' = [driver EXCEPT !.mode = "degraded", !.pc = "command"]
     \/ driver.mode # "none" /\ ~Admitted /\ End("refused")
  /\ UNCHANGED <<Given, shell, maps, command, Pipes, faults>>

MakePipes ==
  /\ At("pipes")
  /\ readyW' = {"driver"} /\ goR' = {"driver"} /\ goW' = {"driver"}
  /\ Goto("spawn")
  /\ UNCHANGED <<Given, shell, maps, command, ready, go, faults>>

(* The shell inherits the two ends it was passed and no other. *)
Spawn ==
  /\ At("spawn")
  /\ shell' = "starting"
  /\ readyW' = readyW \cup {"shell"} /\ goR' = goR \cup {"shell"}
  /\ Goto("closeTheirs")
  /\ UNCHANGED <<Given, maps, command, ready, goW, go, faults>>

CloseTheirs_but_ready ==
  /\ At("closeTheirs")
  /\ goR' = goR \ {"driver"}
  /\ Goto("read")
  /\ UNCHANGED <<Given, shell, maps, command, readyW, ready, goW, go, faults>>

CloseTheirs ==
  /\ At("closeTheirs")
  /\ readyW' = readyW \ {"driver"} /\ goR' = goR \ {"driver"}
  /\ Goto("read")
  /\ UNCHANGED <<Given, shell, maps, command, ready, goW, go, faults>>

(* os.read: the byte, or nothing when the last writer is gone.  Under bwrap an   *)
(* empty read is the shell's failure; in the other two the driver goes on.       *)
ReadReady ==
  /\ At("read")
  /\ \/ ready /\ ready' = FALSE /\ Goto("map")
     \/ /\ ~ready /\ readyW = {}
        /\ UNCHANGED ready
        /\ driver' = [driver EXCEPT
                        !.pc = IF driver.mode = "bwrap" THEN "reap" ELSE "go",
                        !.result = IF driver.mode = "bwrap" THEN "status" ELSE None]
  /\ UNCHANGED <<Given, shell, maps, command, readyW, goR, goW, go, faults>>

(* newuidmap, then newgidmap: each fails on a process that is gone. *)
MapIds ==
  /\ At("map")
  /\ \/ /\ ShellLives
        /\ maps' = maps \cup {IF "uid" \in maps THEN "gid" ELSE "uid"}
        /\ Goto(IF "uid" \notin maps THEN "map"
                ELSE IF driver.mode = "bwrap" THEN "open" ELSE "go")
        /\ UNCHANGED faults
     \/ /\ IF ShellLives THEN Faulty ELSE UNCHANGED faults
        /\ Raise("error")
        /\ UNCHANGED maps
  /\ UNCHANGED <<Given, shell, command, Pipes>>

OpenNamespace ==
  /\ At("open")
  /\ IF ShellLives THEN Goto("command") ELSE Raise("error")
  /\ UNCHANGED <<Given, shell, maps, command, Pipes, faults>>

(* os.write: EPIPE when the shell's end is gone. *)
WriteGo ==
  /\ At("go")
  /\ \/ goR # {} /\ go' = TRUE /\ Goto("close")
     \/ goR = {} /\ Raise("broken pipe") /\ UNCHANGED go
  /\ UNCHANGED <<Given, shell, maps, command, readyW, ready, goR, goW, faults>>

(* Under bwrap, and without a sandbox or with one id, the driver runs the        *)
(* command as a process of its own and waits.                                    *)
RunCommand ==
  /\ At("command")
  /\ command' = "running"
  /\ Goto("waitCommand")
  /\ UNCHANGED <<Given, shell, maps, Pipes, faults>>

WaitCommand ==
  /\ At("waitCommand") /\ command \in {"ok", "bad"}
  /\ LET result == IF command = "ok" THEN "ok" ELSE "status"
     IN  IF driver.mode = "bwrap" THEN Raise(result) ELSE End(result)
  /\ UNCHANGED <<Given, shell, maps, command, Pipes, faults>>

(* The finally clauses. *)
Close ==
  /\ At("close")
  /\ readyW' = readyW \ {"driver"} /\ goR' = goR \ {"driver"} /\ goW' = goW \ {"driver"}
  /\ IF driver.mode = "bwrap" THEN Goto("terminate")
     ELSE IF driver.result # None THEN End(driver.result) ELSE Goto("wait")
  /\ UNCHANGED <<Given, shell, maps, command, ready, go, faults>>

Exit(status) == IF status THEN "exited ok" ELSE "exited bad"
Left == /\ readyW' = readyW \ {"shell"}
        /\ goR' = goR \ {"shell"}
        /\ goW' = goW \ {"shell"}

(* child.wait of _run_unshare and remove_tree: the command's status is the shell's. *)
Wait ==
  /\ At("wait") /\ shell \in Gone
  /\ shell' = "reaped"
  /\ End(IF shell = "exited ok" THEN "ok"
         ELSE IF driver.mode = "remove" THEN "not removed" ELSE "status")
  /\ UNCHANGED <<Given, maps, command, Pipes, faults>>

(* bwrap's own empty read: wait, then raise. *)
ReapDead ==
  /\ At("reap") /\ shell \in Gone
  /\ shell' = "reaped"
  /\ Goto("close")
  /\ UNCHANGED <<Given, maps, command, Pipes, faults>>

(* _reap_namespace_holder: terminate, five seconds, kill, wait. *)
Terminate ==
  /\ At("terminate")
  /\ shell' = IF ShellLives THEN "terminated" ELSE shell
  /\ Goto(IF shell = "none" THEN "over" ELSE "wait5")
  /\ UNCHANGED <<Given, maps, command, Pipes, faults>>

Wait5 ==
  /\ At("wait5")
  /\ \/ shell \in Gone /\ shell' = "reaped" /\ Goto("over")
     \/ shell \notin Gone /\ Goto("killHolder") /\ UNCHANGED shell
  /\ UNCHANGED <<Given, maps, command, Pipes, faults>>

KillHolder ==
  /\ At("killHolder")
  /\ shell' = "reaped"
  /\ Left
  /\ Goto("over")
  /\ UNCHANGED <<Given, maps, command, ready, go, faults>>

-----------------------------------------------------------------------------
(* The shell.  Any command of a `set -e` script that fails ends it. *)
Reading == driver.pc \in {"closeTheirs", "read"}       \* the driver's read end is open
Announce ==
  /\ shell = "starting"
  /\ \/ Reading /\ shell' = "blocked" /\ ready' = TRUE /\ UNCHANGED <<readyW, goR, goW>>
     \/ ~Reading /\ shell' = "exited bad" /\ Left /\ UNCHANGED ready
  /\ UNCHANGED <<Given, driver, maps, command, go, faults>>

ReadGo_unchecked ==              \* the script without `set -e`
  /\ shell = "blocked"
  /\ go \/ goW = {}
  /\ go' = FALSE /\ shell' = "entering"
  /\ UNCHANGED <<Given, driver, maps, command, readyW, ready, goR, goW, faults>>

ReadGo ==
  /\ shell = "blocked"
  /\ \/ go /\ go' = FALSE /\ shell' = "entering" /\ UNCHANGED <<readyW, goR, goW>>
     \/ ~go /\ goW = {} /\ shell' = "exited bad" /\ Left /\ UNCHANGED go
  /\ UNCHANGED <<Given, driver, maps, command, ready, faults>>

(* The mounts and the chroot, then exec: the shell is the command. *)
Enter ==
  /\ shell = "entering"
  /\ \/ shell' = "running" /\ command' = "running" /\ UNCHANGED <<readyW, goR, goW>>
     \/ shell' = "exited bad" /\ Left /\ UNCHANGED command
  /\ UNCHANGED <<Given, driver, maps, ready, go, faults>>

CommandEnds ==
  /\ command = "running"
  /\ command' \in {"ok", "bad"}
  /\ IF shell = "running" THEN shell' = Exit(command' = "ok") /\ Left
     ELSE UNCHANGED <<shell, readyW, goR, goW>>
  /\ UNCHANGED <<Given, driver, maps, ready, go, faults>>

ObeyTerm ==
  /\ shell = "terminated"
  /\ shell' = "exited bad" /\ Left
  /\ UNCHANGED <<Given, driver, maps, command, ready, go, faults>>

-----------------------------------------------------------------------------
(* unshare(2) is refused, or something kills the shell: the command dies with it *)
(* when it is the shell; bubblewrap keeps the namespace it has joined.           *)
ShellDies ==
  /\ ShellLives /\ Faulty
  /\ shell' = "exited bad" /\ Left
  /\ command' = IF shell = "running" THEN "bad" ELSE command
  /\ UNCHANGED <<Given, driver, maps, ready, go>>

(* The driver is killed: its ends close, and --die-with-parent takes bubblewrap. *)
DriverKilled ==
  /\ ~(driver.pc \in Over) /\ Faulty
  /\ Goto("killed")
  /\ readyW' = readyW \ {"driver"} /\ goR' = goR \ {"driver"} /\ goW' = goW \ {"driver"}
  /\ command' = IF driver.mode = "bwrap" /\ command = "running" THEN "bad" ELSE command
  /\ UNCHANGED <<Given, shell, maps, ready, go>>

(* An exception from outside: bwrap's run() kills the command and its finally    *)
(* takes the rest; the other two have no finally around their wait.  While Popen *)
(* has not returned, or in a finally, nobody takes the rest ("cut"): the ends    *)
(* close as the program ends with it.                                           *)
Cut ==
  /\ driver.pc \in {"spawn", "close", "terminate", "wait5", "killHolder"}
  /\ End("cut")
  /\ shell' \in (IF At("spawn") THEN {"none", "starting"} ELSE {shell})
  /\ LET inherited == IF shell' # shell THEN {"shell"} ELSE {}
     IN  /\ readyW' = (readyW \ {"driver"}) \cup inherited
         /\ goR' = (goR \ {"driver"}) \cup inherited
         /\ goW' = goW \ {"driver"}
Interrupted ==
  /\ Sandboxed /\ Faulty
  /\ \/ /\ driver.pc \in {"closeTheirs", "read", "reap", "map", "open", "go", "command", "waitCommand"}
        /\ Raise("error") /\ UNCHANGED <<shell, readyW, goR, goW>>
     \/ At("wait") /\ End("error") /\ UNCHANGED <<shell, readyW, goR, goW>>
     \/ Cut
  /\ command' = IF driver.mode = "bwrap" /\ command = "running" THEN "bad" ELSE command
  /\ UNCHANGED <<Given, maps, ready, go>>

DriverStep ==
  \/ Start \/ Admit \/ MakePipes \/ Spawn \/ CloseTheirs \/ ReadReady \/ MapIds
  \/ OpenNamespace \/ WriteGo \/ RunCommand \/ WaitCommand \/ Close \/ Wait
  \/ ReapDead \/ Terminate \/ Wait5 \/ KillHolder
ShellStep == Announce \/ ReadGo \/ Enter \/ ObeyTerm

Next == \/ DriverStep \/ ShellStep \/ CommandEnds
        \/ ShellDies \/ DriverKilled \/ Interrupted

(* The driver, the shell and the command run on; a command ends by itself. *)
Spec == Init /\ [][Next]_vars
             /\ WF_vars(DriverStep) /\ WF_vars(ShellStep) /\ WF_vars(CommandEnds)

-----------------------------------------------------------------------------
(* Nothing is done in a namespace before both of its maps are installed: the     *)
(* shell neither mounts nor becomes the command, and bubblewrap does not join,   *)
(* whatever failed on the way and whoever died; as root with one id mapped an    *)
(* rpm payload would unpack with the wrong owners.                              *)
MappedBeforeEntry ==
  /\ shell \in {"entering", "running"} => maps = Ids
  /\ driver.mode = "bwrap" /\ command # None => maps = Ids

(* When a call under bwrap is over, by success, failure or exception, its        *)
(* command has ended and its namespace holder has been waited for: the action    *)
(* leaves no process behind.  An exception raised while Popen returns or in the  *)
(* finally itself may leave the holder (_namespace_holder has one finally and    *)
(* nothing around it); the command has ended even then.                         *)
NothingOutlives ==
  At("over") /\ driver.mode = "bwrap" =>
    /\ command # "running"
    /\ shell \in {"none", "reaped"} \/ driver.result = "cut"
=============================================================================
