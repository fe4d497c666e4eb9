------------------------------ MODULE Preflight ------------------------------
(* infra/remote-execution/scripts/preflight_worker.py, the gate a worker passes *)
(* before it registers, and the launcher it tries out: tools/_isolation.py, here *)
(* the module Isolation, driven step by step.  The same launcher serves an       *)
(* action of the build, which calls it directly (pf.pc = "none").                *)
(*                                                                              *)
(* The checks read the host one after the other and record what fails; a host    *)
(* that passes them all is tried with a real sandbox in a scratch directory,     *)
(* which is removed however that ends.  `facts` is what there is to find.        *)
EXTENDS Isolation

CONSTANTS Facts,        \* the hosts a preflight may run on, and its options
          RequiredTools,
          NeededIds,    \* 65536
          MaxId,        \* the largest id, 2^32 - 2
          Owners        \* the <<uid, gid>> the probe gives to files of its own

ASSUME PreflightAssumption ==
  /\ \A f \in Facts : /\ f.min_inodes \in {0, 1}          \* none asked for, or some
                      /\ {f.uid, f.gid} \subseteq [base : Nat, count : Nat]
  /\ NeededIds \in Nat \ {0}
  /\ Owners \subseteq (1 .. NeededIds) \X (1 .. NeededIds)
  /\ {"bwrap", "unshare", "newuidmap", "newgidmap"} \subseteq RequiredTools

VARIABLES facts,
          pf,           \* pc, the checks that passed and failed, what was raised, whether
                        \* a sandbox or its command failed by itself, the exit
          tree,         \* what the preflight has put under scratch
          results,      \* the probe's own findings, as its file has them
          owners        \* <<uid, gid>> inside -> <<uid, gid>> outside, of the files

pvars == <<facts, pf, tree, results, owners>>
allvars == <<vars, pvars>>

Launcher == <<driver, shell, maps, command, readyW, ready, goR, goW, go>>
NoResults == [there |-> FALSE, failing |-> {}]
NoOwners == [o \in {} |-> o]

(* ranges.uid and ranges.gid are [base, count], a count of 0 for no entry.       *)
WorkerId == [uid |-> facts.worker, gid |-> facts.worker]
OnPath(t) == facts.tools[t] # "missing"
ranged == facts.uid.count > 0 /\ facts.gid.count > 0
subid_mapping_available == ranged /\ OnPath("newuidmap") /\ OnPath("newgidmap")
HostOf == [tools |-> {t \in Tools : OnPath(t)}, subids |-> subid_mapping_available]

Idle == [pc |-> "none", ok |-> {}, fails |-> {}, raised |-> "no",
         hitch |-> FALSE, exit |-> None]
PInit ==
  /\ \/ pf = Idle /\ Init /\ facts = CHOOSE f \in Facts : TRUE
     \/ /\ pf = [Idle EXCEPT !.pc = "arguments"]
        /\ facts \in Facts
        /\ call = [op |-> "remove", isolation |-> "none", sysroot |-> FALSE,
                   shadows |-> FALSE, leaks |-> FALSE]
        /\ host = HostOf /\ faults = 0
        /\ driver = [pc |-> "over", mode |-> None, result |-> None]
        /\ shell = "none" /\ maps = {} /\ command = None
        /\ readyW = {} /\ ready = FALSE /\ goR = {} /\ goW = {} /\ go = FALSE
  /\ tree = {} /\ results = NoResults /\ owners = NoOwners

Turn(pc) == pf.pc = pc
Move(pc) == pf' = [pf EXCEPT !.pc = pc]
Fail(name, pc) == pf' = [pf EXCEPT !.pc = pc, !.fails = pf.fails \cup {name}]
Judge(name, holds, pc) ==
  IF holds THEN pf' = [pf EXCEPT !.pc = pc, !.ok = pf.ok \cup {name}] ELSE Fail(name, pc)
Exits(status, names) ==
  pf' = [pf EXCEPT !.pc = "over", !.fails = pf.fails \cup names, !.exit = status]

-----------------------------------------------------------------------------
(* main and the checks of run_preflight, each made whatever the ones before      *)
(* found. *)
main ==
  /\ Turn("arguments")
  /\ \/ facts.emulated /\ facts.target # "aarch64" /\ Exits("2", {"arguments"})
     \/ /\ ~(facts.emulated /\ facts.target # "aarch64")
        /\ IF facts.launcher = "missing" THEN Exits("1", {"production-launcher"})
           ELSE Move("identity")
  /\ UNCHANGED <<vars, facts, tree, results, owners>>

Observe(pc, holds, next) == /\ Turn(pc) /\ Judge(pc, holds, next)
                            /\ UNCHANGED <<vars, facts, tree, results, owners>>

check_identity == Observe("identity", facts.user = "service", "userns")

check_user_namespace_policy ==
  Observe("userns", facts.userns_max = "on" /\ facts.userns_clone \in {"on", "absent"}, "tools")

(* A tool's features are asked of the tool that was resolved. *)
resolved == {t \in RequiredTools : facts.tools[t] = "safe"}
check_tools == Observe("tools", resolved = RequiredTools /\ facts.features, "ranges")

Holds(range, id) == range.base <= id /\ id < range.base + range.count
ValidRange(range, own) == /\ range.base > 0 /\ range.count >= NeededIds
                          /\ range.base + range.count - 1 <= MaxId
                          /\ ~Holds(range, own)
check_subordinate_ranges ==
  Observe("ranges", /\ subid_mapping_available
                    /\ ValidRange(facts.uid, WorkerId.uid)
                    /\ ValidRange(facts.gid, WorkerId.gid), "scratch")

(* A dynamic inode filesystem must be configured as one, and no other. *)
InodesOK == IF facts.inodes = "dynamic" THEN facts.min_inodes = 0
            ELSE facts.min_inodes # 0 /\ facts.inodes = "enough"
check_scratch ==
  /\ Turn("scratch")
  /\ IF facts.scratch = "usable" /\ facts.bytes /\ InodesOK THEN Move("operations")
     ELSE Fail("scratch", "architecture")
  /\ UNCHANGED <<vars, facts, tree, results, owners>>

(* _check_scratch_operations: create, write, hard link, rename; then rmtree. *)
ScratchOperations ==
  /\ Turn("operations")
  /\ \/ /\ tree' = {"operations"} /\ UNCHANGED faults
        /\ IF facts.hardlinks THEN Move("operated") ELSE Fail("scratch-operations", "operated")
     \/ Faulty /\ tree' \in {{}, {"operations"}} /\ Fail("scratch-operations", "operated")
  /\ UNCHANGED <<Given, Launcher, facts, results, owners>>

ScratchCleanup ==
  /\ Turn("operated")
  /\ LET clean == pf.fails \cap {"scratch-operations"} = {}
         next == IF pf.raised = "no" THEN "architecture" ELSE "finish"
     IN \/ /\ tree' = {} /\ UNCHANGED faults
           /\ IF clean THEN Judge("scratch", TRUE, next) ELSE Move(next)
        \/ tree # {} /\ Faulty /\ UNCHANGED tree /\ Fail("scratch-cleanup", next)
  /\ UNCHANGED <<Given, Launcher, facts, results, owners>>

check_architecture ==
  Observe("architecture", \/ facts.target = facts.native
                          \/ /\ facts.target = "aarch64" /\ facts.native = "x86_64"
                             /\ facts.emulated /\ facts.binfmt, "probe")

check_probe_sysroot ==
  Observe("probe", facts.probe = "usable" /\ facts.probe_machine = facts.target, "paths")

check_probe_separation ==
  /\ Turn("paths")
  /\ IF {"probe", "scratch"} \subseteq pf.ok
     THEN Judge("paths", facts.disjoint, "decide") ELSE Move("decide")
  /\ UNCHANGED <<vars, facts, tree, results, owners>>

Prerequisites == {"identity", "userns", "tools", "ranges", "scratch",
                  "architecture", "probe", "paths"}
Decide ==
  /\ Turn("decide")
  /\ IF Prerequisites \subseteq pf.ok THEN Move("mkdtemp") ELSE Fail("sandbox", "finish")
  /\ UNCHANGED <<vars, facts, tree, results, owners>>

-----------------------------------------------------------------------------
(* run_sandbox_probe.  mkdtemp is outside its try: a failure is internal. *)
MakeWork ==
  /\ Turn("mkdtemp")
  /\ \/ tree' = {"work"} /\ Move("copy") /\ UNCHANGED faults
     \/ Faulty /\ UNCHANGED tree /\ Exits("2", {"internal"})
  /\ UNCHANGED <<Given, Launcher, facts, results, owners>>

CopyRoot ==
  /\ Turn("copy")
  /\ \/ tree' = {"work", "sysroot"} /\ Move("enter") /\ UNCHANGED faults
     \/ Faulty /\ UNCHANGED tree /\ Fail("sandbox", "finally")
  /\ UNCHANGED <<Given, Launcher, facts, results, owners>>

(* A call of the launcher begins.  A holder that a cut left to the call before is *)
(* no longer followed: it goes when the program does.                            *)
Begin(request) ==
  /\ call' = request
  /\ driver' = [pc |-> "start", mode |-> None, result |-> None]
  /\ shell' = "none" /\ maps' = {} /\ command' = None
  /\ readyW' = {} /\ ready' = FALSE /\ goR' = {} /\ goW' = {} /\ go' = FALSE
  /\ UNCHANGED <<host, faults>>

(* The command names the probe script, the result and the work directory by      *)
(* their paths on the host; the launcher of the tests does not mind.             *)
RunIsolated ==
  /\ Turn("enter") /\ Move("sandbox")
  /\ Begin([op |-> "run", isolation |-> "bwrap", sysroot |-> TRUE,
            shadows |-> facts.ships_build, leaks |-> facts.launcher = "production"])
  /\ UNCHANGED <<facts, tree, results, owners>>

Returned == driver.pc = "over"
AfterSandbox ==
  /\ Turn("sandbox") /\ Returned
  /\ IF pf.raised # "no" THEN Move("finally")
     ELSE IF driver.result = "ok" THEN Move("record") ELSE Fail("sandbox", "finally")
  /\ UNCHANGED <<vars, facts, tree, results, owners>>

Record_unread ==          \* Mutation: the launcher's exit status is taken for the findings
  /\ Turn("record") /\ Move("owners")
  /\ UNCHANGED <<vars, facts, tree, results, owners>>
_record_inside_results ==
  /\ Turn("record")
  /\ IF results.there
     THEN pf' = [pf EXCEPT !.pc = "owners", !.fails = pf.fails \cup results.failing]
     ELSE Fail("sandbox", "finally")
  /\ UNCHANGED <<vars, facts, tree, results, owners>>

(* Where the probe's ids come out: its 0 is the worker, its n the n-th of the    *)
(* range.                                                                       *)
expected_by_base(o) == <<facts.uid.base + o[1], facts.gid.base + o[2]>>   \* Mutation: off by one
expected(o) == <<facts.uid.base + o[1] - 1, facts.gid.base + o[2] - 1>>
_check_external_owner ==
  /\ Turn("owners")
  /\ IF \A o \in Owners : o \in DOMAIN owners /\ owners[o] = expected(o)
     THEN Move("finally") ELSE Fail("ownership-map", "finally")
  /\ UNCHANGED <<vars, facts, tree, results, owners>>

RemoveTree ==
  /\ Turn("finally") /\ Move("removing")
  /\ Begin([op |-> "remove", isolation |-> "none", sysroot |-> TRUE,
            shadows |-> FALSE, leaks |-> FALSE])
  /\ UNCHANGED <<facts, tree, results, owners>>

AfterRemove_trusting ==   \* what remove_tree returned is not looked at
  /\ Turn("removing") /\ Returned
  /\ IF pf.raised = "finally" THEN Exits("1", {"interrupted"}) ELSE Move("finish")
  /\ UNCHANGED <<vars, facts, tree, results, owners>>

(* An interrupt in the finally leaves it; anything else is reported. *)
AfterRemove ==
  /\ Turn("removing") /\ Returned
  /\ IF pf.raised = "finally" THEN Exits("1", {"interrupted"})
     ELSE IF driver.result = "ok" /\ tree = {} THEN Move("finish") ELSE Fail("cleanup", "rmtree")
  /\ UNCHANGED <<vars, facts, tree, results, owners>>

Rmtree ==
  /\ Turn("rmtree") /\ Move("finish")
  /\ \/ tree' = {} /\ UNCHANGED faults
     \/ Faulty /\ UNCHANGED tree
  /\ UNCHANGED <<Given, Launcher, facts, results, owners>>

Finish ==
  /\ Turn("finish")
  /\ IF pf.raised # "no" THEN Exits("1", {"interrupted"})
     ELSE Exits(IF pf.fails = {} THEN "0" ELSE "1", {})
  /\ UNCHANGED <<vars, facts, tree, results, owners>>

PreflightStep ==
  \/ main \/ check_identity \/ check_user_namespace_policy \/ check_tools
  \/ check_subordinate_ranges \/ check_scratch \/ ScratchOperations \/ ScratchCleanup
  \/ check_architecture \/ check_probe_sysroot \/ check_probe_separation \/ Decide
  \/ MakeWork \/ CopyRoot \/ RunIsolated \/ AfterSandbox \/ _record_inside_results
  \/ _check_external_owner \/ RemoveTree \/ AfterRemove \/ Rmtree \/ Finish

-----------------------------------------------------------------------------
(* The launcher at work, for the preflight or for an action of the build. *)
InLauncher == pf.pc \in {"none", "sandbox", "removing"}
LauncherStep == InLauncher /\ DriverStep /\ UNCHANGED pvars
HolderStep ==
  /\ ShellStep
  /\ pf' = [pf EXCEPT !.hitch = pf.hitch \/ (shell = "entering" /\ shell' = "exited bad")]
  /\ UNCHANGED <<facts, tree, results, owners>>

(* The id outside of an id inside; an unmapped one cannot be given away. *)
Outside(range, own, id) == IF id = 0 THEN own ELSE range.base + id - 1
Mapped(o) == o[1] <= facts.uid.count /\ o[2] <= facts.gid.count

(* The command of the sandbox ends.  inside_probe writes what it found, its own  *)
(* failures included, and exits 0; rm -rf removes the tree.                      *)
inside_probe ==
  /\ CommandEnds
  /\ IF pf.pc = "none" THEN UNCHANGED <<tree, results, owners>>
     ELSE CASE call.op = "run" /\ command' = "ok" ->
                 /\ results' = [there |-> TRUE, failing |-> facts.inside
                                  \cup {"ownership" : o \in {p \in Owners : ~Mapped(p)}}]
                 /\ owners' = [o \in {p \in Owners : Mapped(p)} |->
                                 <<Outside(facts.uid, WorkerId.uid, o[1]),
                                   Outside(facts.gid, WorkerId.gid, o[2])>>]
                 /\ UNCHANGED tree
            [] call.op = "remove" /\ command' = "ok" ->
                 tree' = {} /\ UNCHANGED <<results, owners>>
            [] OTHER -> UNCHANGED <<tree, results, owners>>
  /\ pf' = [pf EXCEPT !.hitch = pf.hitch \/ command' = "bad"]
  /\ UNCHANGED facts

(* KeyboardInterrupt, in the launcher and elsewhere. *)
InterruptLauncher ==
  /\ InLauncher /\ Interrupted
  /\ pf' = [pf EXCEPT !.raised = IF Turn("removing") THEN "finally" ELSE "body"]
  /\ UNCHANGED <<facts, tree, results, owners>>

Interruptible == ~InLauncher /\ ~(pf.pc \in {"arguments", "over", "killed"})
Interrupt ==
  /\ Interruptible /\ Faulty
  /\ CASE pf.pc \in {"copy", "enter", "record", "owners"} ->
            pf' = [pf EXCEPT !.pc = "finally", !.raised = "body"]
       [] pf.pc = "operations" ->
            pf' = [pf EXCEPT !.pc = "operated", !.raised = "body"]
       [] OTHER -> Exits("1", {"interrupted"})
  /\ tree' \in {tree} \cup (IF Turn("operations") THEN {{"operations"}} ELSE {})
  /\ UNCHANGED <<Given, Launcher, facts, results, owners>>

(* SIGKILL, or a SIGTERM nobody handles. *)
Killed ==
  /\ pf.pc \notin {"over", "killed"}
  /\ \/ InLauncher /\ DriverKilled
     \/ ~InLauncher /\ Faulty /\ UNCHANGED <<Given, Launcher>>
  /\ Move(IF Turn("none") THEN "none" ELSE "killed")
  /\ UNCHANGED <<facts, tree, results, owners>>

Crash == ShellDies /\ UNCHANGED pvars

PNext == \/ PreflightStep \/ LauncherStep \/ HolderStep \/ inside_probe
         \/ Crash \/ InterruptLauncher \/ Interrupt \/ Killed

PSpec == PInit /\ [][PNext]_allvars
               /\ WF_allvars(PreflightStep) /\ WF_allvars(LauncherStep)
               /\ WF_allvars(HolderStep) /\ WF_allvars(inside_probe)

-----------------------------------------------------------------------------
(* What the deployment documentation asks of a worker, as facts of the host. *)
Sound ==
  /\ facts.user = "service" /\ facts.userns_max = "on" /\ facts.userns_clone \in {"on", "absent"}
  /\ \A t \in RequiredTools : facts.tools[t] = "safe"
  /\ facts.features
  /\ \A r \in {facts.uid, facts.gid} :
        r.base > 0 /\ r.count >= NeededIds /\ r.base + r.count - 1 <= MaxId /\ ~Holds(r, facts.worker)
  /\ facts.scratch = "usable" /\ facts.bytes /\ facts.hardlinks /\ facts.disjoint
  /\ <<facts.inodes, facts.min_inodes>> \in {<<"enough", 1>>, <<"dynamic", 0>>}
  /\ \/ facts.target = facts.native
     \/ /\ facts.emulated /\ facts.binfmt
        /\ facts.target = "aarch64" /\ facts.native = "x86_64"
  /\ facts.probe = "usable" /\ facts.probe_machine = facts.target /\ ~facts.ships_build
  /\ facts.inside = {}

(* A worker that registers has met every requirement, and has proved it in a     *)
(* sandbox: ids 1 and up came out as the subordinate ids they stand for.         *)
(* Whatever failed on the way, nothing but this is a pass. (run_preflight)        *)
PassProves ==
  pf.exit = "0" => /\ Sound
                   /\ results.there /\ results.failing = {}
                   /\ \A o \in Owners : /\ owners[o][1] \in facts.uid.base .. facts.uid.base + facts.uid.count - 1
                                        /\ owners[o][2] \in facts.gid.base .. facts.gid.base + facts.gid.count - 1

(* No false alarm: a worker that meets the requirements passes when nothing goes *)
(* wrong, with the launcher the tests use. (run_preflight, _check_external_owner) *)
SoundWorkerPasses ==
  pf.pc = "over" /\ Sound /\ faults = 0 /\ ~pf.hitch /\ facts.launcher = "stand-in"
  /\ (facts.emulated => facts.target = "aarch64") => pf.exit = "0"

(* A preflight leaves nothing under scratch and no process behind, unless it      *)
(* says so: a failed cleanup or an interrupt is among what it reports.  Nor does *)
(* a call under bwrap that is over, whatever failed in it before its own cleanup. *)
(* (run_sandbox_probe's finally, _check_scratch_operations, _run_unshare)         *)
LeavesNothingUnsaid ==
  /\ pf.pc = "over" =>
       /\ tree = {} \/ pf.fails \cap {"cleanup", "scratch-cleanup", "interrupted"} # {}
       /\ pf.exit = "0" => ~ShellLives /\ command # "running"
  /\ NothingOutlives

(* A preflight ends, and so does a call of the launcher, with every process it   *)
(* started: no side waits for a byte that nobody is left to write.               *)
EverythingEnds == <>[](/\ pf.pc \in {"none", "over", "killed"}
               /\ driver.pc \in Over /\ ~ShellLives /\ command # "running")

(* "Namespace preflight proves multi-ID ownership and isolated loopback on every *)
(* worker": one that meets the requirements can pass. *)
ProvesEveryWorker == pf.pc = "over" /\ Sound /\ faults = 0 /\ ~pf.hitch => pf.exit = "0"
=============================================================================
