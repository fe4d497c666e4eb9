----------------------------- MODULE SmokeTest -----------------------------
(* The lifecycle of infra/remote-execution/scripts/smoke-test.sh: a harness     *)
(* publishes a .buckconfig.local in two client checkouts, runs buck in them,    *)
(* and on the way out kills the daemons it may have started and removes the     *)
(* two files.  Several harnesses may be pointed at the same checkouts, an       *)
(* operator may create a .buckconfig.local of his own, and a signal may arrive  *)
(* between any two commands of the script.                                      *)
(*                                                                              *)
(* A file is its inode: `ln` gives the temporary file a second name, and the    *)
(* script recognises its own file by device and inode.  An inode without a      *)
(* name is free, and the next file created takes the least free one.            *)
EXTENDS Naturals, Sequences, FiniteSets

CONSTANTS Harnesses,     \* processes running the script
          Clients,       \* checkouts
          Plan,          \* Plan[h][s]: the checkout harness h was given for side s
          Stages,        \* Stages[h]: values of --stage h may be started with
          Reused,        \* harnesses whose --event-dir was used by an earlier run
          Inodes,        \* file identities
          MaxSignals,    \* bound: signals delivered, over all harnesses
          MaxUserFiles   \* bound: files an operator creates

Sides == {"a", "b"}
StageNames == {"readiness", "cache", "execution", "host-provenance"}
None == "none"
User == "user"
NoFile == 0       \* the name does not exist

ASSUME SmokeAssumption ==
  /\ Plan \in [Harnesses -> [Sides -> Clients]]
  /\ \A h \in Harnesses : Plan[h]["a"] # Plan[h]["b"] /\ Stages[h] \subseteq StageNames
  /\ Inodes \subseteq Nat \ {NoFile}
  /\ {MaxSignals, MaxUserFiles} \subseteq Nat
  /\ None \notin Harnesses /\ User \notin Harnesses

VARIABLES run,       \* run[h]: one invocation of the script
          config,    \* config[c]: the inode named .buckconfig.local in checkout c
          by,        \* by[i]: who wrote the file inode i last was
          daemons,   \* <<h, s>>: a daemon in h's isolation directory of side s
          buckout,   \* checkouts that hold a buck-out entry
          signals, userFiles

vars == <<run, config, by, daemons, buckout, signals, userFiles>>

-----------------------------------------------------------------------------
(* Where the commands of a stage run, in order: the side whose buck is called,  *)
(* None for the readiness helper.  Commands that follow each other on one side  *)
(* (audit, build, the three reads of the event log) are one entry.              *)
Commands(stage) ==
  CASE stage = "readiness"       -> <<None>>
    [] stage = "cache"           -> <<"a", "b", "a", "b">>
    [] stage = "execution"       -> <<"a">>
    [] stage = "host-provenance" -> <<"a", "b">>

NeedsClean(stage) ==
  CASE stage = "readiness" -> {}
    [] stage = "execution" -> {"a"}
    [] OTHER               -> Sides

Nowhere == [s \in Sides |-> NoFile]
Invocation(stage, old) ==
  [pc |-> "absent", side |-> "a", stage |-> stage, at |-> 1,
   temp      |-> Nowhere,                   \* the temporary file on disk
   known     |-> Nowhere,                   \* client_X_config_temp
   identity  |-> Nowhere,                   \* client_X_config_identity
   published |-> {},                        \* client_X_config_published
   touched   |-> {},                        \* client_X_daemon_touched
   logs      |-> old,                       \* cleanup-client-X.log files already there
   child     |-> "none",                    \* the background command
   pid       |-> FALSE,                     \* active_command_pid names it
   passing   |-> TRUE,                      \* the exit status is still 0
   failed    |-> FALSE,                     \* a step of the cleanup failed
   unlucky   |-> FALSE]                     \* a signal landed where no handler covers it

Init == /\ \E stage \in [Harnesses -> UNION {Stages[h] : h \in Harnesses}] :
             /\ \A h \in Harnesses : stage[h] \in Stages[h]
             /\ run = [h \in Harnesses |-> Invocation(stage[h], IF h \in Reused THEN {"a"} ELSE {})]
        /\ config = [c \in Clients |-> NoFile]
        /\ by = [i \in Inodes |-> None]
        /\ daemons = {}
        /\ buckout = {}
        /\ signals = 0
        /\ userFiles = 0

client(h) == Plan[h][run[h].side]
InUse == ({config[c] : c \in Clients} \cup UNION {{run[h].temp[s] : s \in Sides} : h \in Harnesses}) \ {NoFile}
Free == Inodes \ InUse
Least(S) == CHOOSE i \in S : \A j \in S : i <= j
CommandSide(h) == Commands(run[h].stage)[run[h].at]
Ended(h) == run[h].pc = "ended"

At(h, pc) == run[h].pc = pc
Goto(h, pc) == run' = [run EXCEPT ![h].pc = pc]
(* The process is gone, its shell variables with it; what is on disk, the       *)
(* command it may have left running and its exit status remain.                 *)
Over(r) == [r EXCEPT
              !.pc = "ended", !.side = "a", !.known = Nowhere, !.identity = Nowhere,
              !.published = {}, !.touched = {}, !.logs = {}, !.pid = FALSE,
              !.at = IF r.child = "none" THEN 1 ELSE r.at]
Exit(h) == run' = [run EXCEPT ![h].pc = "exit"]
Fail(h) == run' = [run EXCEPT ![h].pc = "exit", ![h].passing = FALSE]
Disk == <<config, by, daemons, buckout>>
Outside == <<signals, userFiles>>

-----------------------------------------------------------------------------
(* Both checkouts are looked at before the traps are set, so a refusal leaves   *)
(* nothing to clean up and cleans nothing up.                                   *)
require_config_absent(h) ==
  /\ At(h, "absent")
  /\ LET r == run[h]
     IN  run' = [run EXCEPT ![h] =
           IF config[client(h)] # NoFile THEN Over([r EXCEPT !.passing = FALSE])
           ELSE IF r.side = "a" THEN [r EXCEPT !.side = "b"]
           ELSE [r EXCEPT !.side = "a", !.pc = "mktemp"]]
  /\ UNCHANGED <<Disk, Outside>>

(* The steps of install_client_config, each a command a signal may come after. *)
MakeTemp(h) ==
  /\ At(h, "mktemp") /\ Free # {}
  /\ LET i == Least(Free)
     IN  /\ run' = [run EXCEPT ![h].pc = "name", ![h].temp[run[h].side] = i]
         /\ by' = [by EXCEPT ![i] = h]
  /\ UNCHANGED <<config, daemons, buckout, Outside>>

NameTemp(h) ==
  /\ At(h, "name")
  /\ run' = [run EXCEPT ![h].pc = "stat", ![h].known[run[h].side] = run[h].temp[run[h].side]]
  /\ UNCHANGED <<Disk, Outside>>

Identify(h) ==
  /\ At(h, "stat")
  /\ run' = [run EXCEPT ![h].pc = "ln", ![h].identity[run[h].side] = run[h].known[run[h].side]]
  /\ UNCHANGED <<Disk, Outside>>

Link_force(h) ==                 \* mutant: ln -f
  /\ At(h, "ln")
  /\ config' = [config EXCEPT ![client(h)] = run[h].known[run[h].side]]
  /\ Goto(h, "flag")
  /\ UNCHANGED <<by, daemons, buckout, Outside>>

Link(h) ==
  /\ At(h, "ln")
  /\ IF config[client(h)] = NoFile
     THEN /\ config' = [config EXCEPT ![client(h)] = run[h].known[run[h].side]]
          /\ Goto(h, "flag")
     ELSE Fail(h) /\ UNCHANGED config
  /\ UNCHANGED <<by, daemons, buckout, Outside>>

Flag(h) ==
  /\ At(h, "flag")
  /\ run' = [run EXCEPT ![h].pc = "rm", ![h].published = run[h].published \cup {run[h].side}]
  /\ UNCHANGED <<Disk, Outside>>

RemoveTemp(h) ==
  /\ At(h, "rm")
  /\ run' = [run EXCEPT ![h].temp[run[h].side] = NoFile, ![h].known[run[h].side] = NoFile,
                        ![h].side = "b",
                        ![h].pc = IF run[h].side = "a" THEN "mktemp" ELSE "prepare"]
  /\ UNCHANGED <<Disk, Outside>>

(* Under `set -e` a command of the installation that fails ends the script. *)
InstallFails(h) ==
  /\ run[h].pc \in {"mktemp", "stat", "rm"}
  /\ Fail(h)
  /\ UNCHANGED <<Disk, Outside>>

-----------------------------------------------------------------------------
(* Both bucks answer --version and are the same version, and the checkouts the  *)
(* stage uses hold no buck-out.                                                 *)
Prepare(h) ==
  /\ At(h, "prepare")
  /\ \/ Fail(h)
     \/ IF \E s \in NeedsClean(run[h].stage) : Plan[h][s] \in buckout
        THEN Fail(h)
        ELSE Goto(h, "launch")
  /\ UNCHANGED <<Disk, Outside>>

(* run_buck_capture: the daemon is marked before the command is started, so     *)
(* that a command stopped half way is still cleaned up after.                   *)
Launch(h) ==
  /\ At(h, "launch")
  /\ LET stage == run[h].stage
         s == Commands(stage)[run[h].at]
     IN  IF run[h].at > Len(Commands(stage)) THEN Exit(h)
         ELSE run' = [run EXCEPT ![h].pc = "forked", ![h].child = "starting",
                                 ![h].touched = run[h].touched \cup ({s} \ {None})]
  /\ UNCHANGED <<Disk, Outside>>

(* reserve_output: a command whose output an earlier run left is not started,   *)
(* though its client counts as touched by then.                                 *)
OutputExists(h) ==
  /\ At(h, "launch") /\ run[h].at <= Len(Commands(run[h].stage)) /\ run[h].logs # {}
  /\ run' = [run EXCEPT ![h].pc = "exit", ![h].passing = FALSE,
                        ![h].touched = run[h].touched \cup ({CommandSide(h)} \ {None})]
  /\ UNCHANGED <<Disk, Outside>>

RecordPid_never(h) ==            \* mutant: active_command_pid is not set
  /\ At(h, "forked") /\ Goto(h, "wait") /\ UNCHANGED <<Disk, Outside>>

RecordPid(h) ==
  /\ At(h, "forked")
  /\ run' = [run EXCEPT ![h].pc = "wait", ![h].pid = TRUE]
  /\ UNCHANGED <<Disk, Outside>>

(* The command itself: a buck command connects to the daemon of its isolation   *)
(* directory and starts one when there is none.                                 *)
Connect(h) ==
  /\ run[h].child = "starting"
  /\ run' = [run EXCEPT ![h].child = "running"]
  /\ IF CommandSide(h) # None
     THEN /\ daemons' = daemons \cup {<<h, CommandSide(h)>>}
          /\ buckout' = buckout \cup {Plan[h][CommandSide(h)]}
     ELSE UNCHANGED <<daemons, buckout>>
  /\ UNCHANGED <<config, by, Outside>>

Finish(h) ==
  /\ run[h].child = "running"
  /\ \E result \in {"passed", "failed"} : run' = [run EXCEPT ![h].child = result]
  /\ UNCHANGED <<Disk, Outside>>

(* wait returns, and the checks of what the command wrote hold. *)
Wait(h) ==
  /\ At(h, "wait") /\ run[h].child = "passed"
  /\ run' = [run EXCEPT ![h].pc = "launch", ![h].at = run[h].at + 1, ![h].child = "none", ![h].pid = FALSE]
  /\ UNCHANGED <<Disk, Outside>>

Stopped(h) == run' = [run EXCEPT ![h].pc = "exit", ![h].passing = FALSE, ![h].child = "none", ![h].pid = FALSE]
CommandFails(h) ==
  /\ At(h, "wait") /\ run[h].child = "failed"
  /\ Stopped(h)
  /\ UNCHANGED <<Disk, Outside>>

(* Its exit status was 0, but the audited settings, the counts of local, remote *)
(* and cached actions or the executor in its log are not what the stage is for. *)
EvidenceRejected(h) ==
  /\ At(h, "wait") /\ run[h].child = "passed"
  /\ Stopped(h)
  /\ UNCHANGED <<Disk, Outside>>

-----------------------------------------------------------------------------
(* on_exit: until it has replaced the handlers, a signal still runs on_signal,  *)
(* whose exit does not come back here.                                          *)
OnExit(h) ==
  /\ At(h, "exit")
  /\ run' = [run EXCEPT ![h].pc = "kill", ![h].side = "a"]
  /\ UNCHANGED <<Disk, Outside>>

Failing(r) == [r EXCEPT !.failed = TRUE, !.passing = FALSE]
AfterKill(r) == IF r.side = "a" THEN [r EXCEPT !.side = "b"]
                ELSE [r EXCEPT !.side = "a", !.pc = "unconfigure"]
AfterRemoval(r) == IF r.side = "a" THEN [r EXCEPT !.side = "b"] ELSE Over(r)

(* cleanup_client: buck2 kill, unless no buck command ran in this client. The   *)
(* log it writes must not exist: a directory used before keeps its daemons.     *)
(* Killing a daemon ends the command connected to it.                           *)
cleanup_client(h) ==
  /\ At(h, "kill")
  /\ LET r == run[h]
         killed == [r EXCEPT !.child = IF r.child = "running" /\ CommandSide(h) = r.side
                                       THEN "none" ELSE r.child]
     IN  \/ /\ r.side \in r.touched /\ r.side \notin r.logs
            /\ daemons' = daemons \ {<<h, r.side>>}
            /\ run' = [run EXCEPT ![h] = AfterKill(killed)]
         \/ /\ r.side \in r.touched
            /\ run' = [run EXCEPT ![h] = AfterKill(Failing(r))]
            /\ UNCHANGED daemons
         \/ /\ r.side \notin r.touched
            /\ run' = [run EXCEPT ![h] = AfterKill(r)]
            /\ UNCHANGED daemons
  /\ UNCHANGED <<config, by, buckout, Outside>>

(* cleanup_client_config: the file under the name is removed only when it is    *)
(* the inode this run recorded; the temporary file by the name it was given.    *)
(* Either removal may fail: the file stays and the run fails.                   *)
Mine_anything(h) == config[client(h)] # NoFile      \* mutant: no identity check
Mine(h) == /\ run[h].identity[run[h].side] # NoFile
           /\ config[client(h)] = run[h].identity[run[h].side]
cleanup_client_config(h) ==
  /\ At(h, "unconfigure")
  /\ LET r == run[h]
         present == config[client(h)] # NoFile
         refused == (present /\ ~Mine(h)) \/ (~present /\ r.side \in r.published)
         left == [r EXCEPT !.temp[r.side] = IF r.known[r.side] # NoFile THEN NoFile
                                            ELSE r.temp[r.side]]
     IN  \E k \in {left, r} :
         \/ /\ config' = [config EXCEPT ![client(h)] = IF Mine(h) THEN NoFile ELSE @]
            /\ run' = [run EXCEPT ![h] =
                         AfterRemoval(IF refused \/ k # left THEN Failing(k) ELSE k)]
         \/ /\ present /\ Mine(h)
            /\ run' = [run EXCEPT ![h] = AfterRemoval(Failing(k))]
            /\ UNCHANGED config
  /\ by' = [i \in Inodes |-> IF i \in InUse' THEN by[i] ELSE None]
  /\ UNCHANGED <<daemons, buckout, Outside>>

-----------------------------------------------------------------------------
(* HUP, INT or TERM.  Before the traps are set it ends the script at once.      *)
(* on_signal stops the command it knows of and exits; on_exit follows unless    *)
(* it has already begun.  Once on_exit has replaced the handlers nothing        *)
(* happens.  A temporary file not yet named and a command whose process id is   *)
(* not yet stored are out of the handlers' sight.                               *)
on_signal(h) ==
  /\ signals < MaxSignals
  /\ run[h].pc \notin {"kill", "unconfigure", "ended"}
  /\ LET r == run[h]
         stopped == [r EXCEPT !.passing = FALSE, !.pc = "exit",
                       !.unlucky = r.unlucky \/ r.pc \in {"name", "forked", "exit"},
                       !.child = IF r.pid THEN "none" ELSE r.child,
                       !.pid = FALSE]
     IN  run' = [run EXCEPT ![h] = IF r.pc \in {"absent", "exit"} THEN Over(stopped) ELSE stopped]
  /\ signals' = signals + 1
  /\ UNCHANGED <<Disk, userFiles>>

(* SIGKILL, or a machine that stops: no handler runs. *)
Killed(h) ==
  /\ signals < MaxSignals /\ ~Ended(h)
  /\ run' = [run EXCEPT ![h] = Over([run[h] EXCEPT !.passing = FALSE, !.unlucky = TRUE])]
  /\ signals' = signals + 1
  /\ UNCHANGED <<Disk, userFiles>>

(* An operator writes his own file where there is none. *)
UserCreates(c) ==
  /\ userFiles < MaxUserFiles /\ config[c] = NoFile /\ Free # {}
  /\ config' = [config EXCEPT ![c] = Least(Free)]
  /\ by' = [by EXCEPT ![Least(Free)] = User]
  /\ userFiles' = userFiles + 1
  /\ UNCHANGED <<run, daemons, buckout, signals>>

Step(h) == \/ require_config_absent(h) \/ MakeTemp(h) \/ NameTemp(h) \/ Identify(h)
           \/ Link(h) \/ Flag(h) \/ RemoveTemp(h) \/ InstallFails(h)
           \/ Prepare(h) \/ Launch(h) \/ OutputExists(h) \/ RecordPid(h) \/ Wait(h)
           \/ CommandFails(h) \/ EvidenceRejected(h)
           \/ OnExit(h) \/ cleanup_client(h) \/ cleanup_client_config(h)
Command(h) == Connect(h) \/ Finish(h)
AllEnded == (\A h \in Harnesses : Ended(h)) /\ UNCHANGED vars

Next == \/ \E h \in Harnesses : Step(h) \/ Command(h) \/ on_signal(h) \/ Killed(h)
        \/ \E c \in Clients : UserCreates(c)
        \/ AllEnded

Spec == Init /\ [][Next]_vars

-----------------------------------------------------------------------------
Run == [pc : {"absent", "mktemp", "name", "stat", "ln", "flag", "rm", "prepare",
              "launch", "forked", "wait", "exit", "kill", "unconfigure", "ended"},
        side : Sides, stage : StageNames, at : Nat \ {0},
        temp : [Sides -> Inodes \cup {NoFile}], known : [Sides -> Inodes \cup {NoFile}],
        identity : [Sides -> Inodes \cup {NoFile}],
        published : SUBSET Sides, touched : SUBSET Sides, logs : SUBSET Sides,
        child : {"none", "starting", "running", "passed", "failed"},
        pid : BOOLEAN, passing : BOOLEAN, failed : BOOLEAN, unlucky : BOOLEAN]

(* A harness knows only files and sides it made, and knows its file before it   *)
(* publishes it (install_client_config records the identity before `ln`).       *)
TypeOK ==
  /\ run \in [Harnesses -> Run]
  /\ config \in [Clients -> Inodes \cup {NoFile}]
  /\ by \in [Inodes -> Harnesses \cup {User, None}]
  /\ daemons \subseteq Harnesses \X Sides
  /\ buckout \subseteq Clients
  /\ signals \in 0..MaxSignals /\ userFiles \in 0..MaxUserFiles
  /\ \A h \in Harnesses, s \in Sides :
       /\ run[h].temp[s] # NoFile => by[run[h].temp[s]] = h
       /\ s \in run[h].published => run[h].identity[s] # NoFile
       /\ <<h, s>> \in daemons /\ ~Ended(h) => s \in run[h].touched

(* Why a file is removed only by its writer: until its cleanup is done, a run's *)
(* file keeps its inode in use, under the temporary name or the published one.  *)
Cleaned(r, s) == r.pc = "unconfigure" /\ s = "a" /\ r.side = "b"
Owns(h, r, cfg, b) ==
  /\ \A s \in Sides : r.temp[s] # NoFile => b[r.temp[s]] = h
  /\ \A s \in Sides : r.identity[s] # NoFile /\ ~Cleaned(r, s) =>
       b[r.identity[s]] = h /\ r.identity[s] \in {r.temp[s], cfg[Plan[h][s]]}
  /\ r.pc = "absent" => r.identity["a"] = NoFile
  /\ r.pc \in {"absent", "mktemp", "name", "stat"} => r.identity[r.side] = NoFile
  /\ r.pc \in {"absent", "mktemp", "name", "stat", "ln", "flag", "rm"} /\ r.side = "a" =>
       r.identity["b"] = NoFile
  /\ r.pc \in {"name", "stat", "ln"} => r.temp[r.side] # NoFile
  /\ r.pc \in {"stat", "ln"} => r.known[r.side] = r.temp[r.side]
  /\ r.pc = "ln" => r.identity[r.side] = r.temp[r.side]
  /\ r.pc \in {"flag", "rm"} =>
       r.identity[r.side] # NoFile /\ cfg[Plan[h][r.side]] = r.identity[r.side]
  /\ \A s \in r.published : r.identity[s] # NoFile

(* A command that was started runs in a client marked for the cleanup.          *)
Marks(r) ==
  r.child # "none" =>
    /\ r.at \in 1..Len(Commands(r.stage))
    /\ r.pc # "ended" => Commands(r.stage)[r.at] \in r.touched \cup {None}

OwnInv == \A h \in Harnesses : Owns(h, run[h], config, by) /\ Marks(run[h])

(* What a run leaves behind: its file in a checkout, its temporary file, a      *)
(* daemon, or a command that still runs.                                        *)
Leaves(h) ==
  \/ \E s \in Sides : \/ config[Plan[h][s]] # NoFile /\ by[config[Plan[h][s]]] = h
                      \/ run[h].temp[s] # NoFile
                      \/ <<h, s>> \in daemons
  \/ run[h].child # "none"

(* A run that reports success leaves nothing: a failed cleanup turns the status *)
(* (on_exit), and no signal can be lost in a 0.  However else it ends --        *)
(* refused, failed, stopped by a signal -- it leaves nothing either, unless a   *)
(* step of its cleanup reported a failure, or the signal came in one of the     *)
(* three places the handlers do not cover: before the temporary file has a      *)
(* name, before the process id is stored, or while on_exit still has the old    *)
(* handlers.                                                                    *)
LeavesNothing == \A h \in Harnesses :
  Ended(h) /\ (run[h].passing \/ ~(run[h].failed \/ run[h].unlucky)) => ~Leaves(h)

(* While a harness runs buck in a checkout, or has a daemon there, the settings *)
(* in that checkout are the ones this harness wrote, whoever else was pointed   *)
(* at it: a file is published with `ln`, and the daemons are killed before the  *)
(* files are removed.                                                           *)
RunsUnderOwnConfig == \A h \in Harnesses, s \in Sides :
  /\ ~run[h].failed /\ ~run[h].unlucky
  /\ <<h, s>> \in daemons \/ (run[h].child # "none" /\ CommandSide(h) = s)
  => config[Plan[h][s]] # NoFile /\ by[config[Plan[h][s]]] = h

(* No step takes away or replaces a .buckconfig.local, except a run removing    *)
(* the file it wrote itself: not the operator's, not another run's, whether     *)
(* that run is alive, failed, or was killed.                                    *)
RemovesOnlyItsOwn == [][
  \A c \in Clients : config[c] # NoFile /\ config'[c] # config[c] =>
    /\ config'[c] = NoFile
    /\ \E h \in Harnesses : run'[h] # run[h] /\ by[config[c]] = h]_vars

=============================================================================
