--------------------------- MODULE DeploymentCheck ---------------------------
(* infra/remote-execution/scripts/check_deployment.py, the stage-zero admission  *)
(* check: every check is made whatever the ones before it found, each adds its   *)
(* record, and the last record is the verdict.  `facts` is the deployment and    *)
(* the options.  Three things move while the program runs: the clock with the    *)
(* workers, the evidence that a collector writes about them, and the processes   *)
(* of the user whose inotify use is counted.  dc.pc = "none" when it is not run. *)
EXTENDS Readiness

CONSTANTS Sites,      \* deployments with their options, each with its service
          BaseInstances, PerDaemon,   \* 32 instances, and 4 for each daemon
          BaseWatches, MinQueue,      \* 65536 both
          MaxInterval,                \* 60000 ms
          Ahead,                      \* 30 s that evidence may lie in the future
          MaxNow

VARIABLES facts,
          dc,         \* pc, report, evidence read, when it was judged, exit
          now, connected,
          past,       \* for each moment, the workers that were connected
          file,       \* the evidence file: at which moment, who was connected
          procs,      \* process -> owner, whether it can be inspected, its descriptors
          scan        \* read_inotify_usage at work; kept and seen are what was there

world == <<now, connected, past, file, procs>>
dvars == <<facts, dc, world, scan>>
Architectures == {"x86_64", "aarch64"}
NotInotify == -1

NoScan == [todo |-> {}, pid |-> 0, fds |-> {}, fd |-> 0, instances |-> 0, watches |-> 0,
           hidden |-> {}, raised |-> FALSE, kept |-> {}, seen |-> {}, events |-> 0]
Off == [pc |-> "none", report |-> <<>>, evidence |-> [ok |-> FALSE, at |-> 0, workers |-> {}],
        judged |-> 0, exit |-> "none"]
DInit ==
  /\ \E s \in Sites : facts = s.facts /\ svc = s.svc
  /\ dc = [Off EXCEPT !.pc = "arguments"]
  /\ now = 0 /\ connected = facts.connected /\ past = <<facts.connected>>
  /\ file = [at |-> 0, workers |-> facts.connected]
  /\ procs = facts.procs /\ scan = NoScan

AtCheck(pc) == dc.pc = pc
Records(results) == dc.report \o [i \in DOMAIN results |->
                      <<results[i][1], IF results[i][2] THEN "PASS" ELSE "FAIL">>]
Reported(results, next) == [dc EXCEPT !.pc = next, !.report = Records(results)]
Observe(check, holds, next) == /\ AtCheck(check)
                               /\ dc' = Reported(<<<<check, holds>>>>, next)
                               /\ UNCHANGED <<facts, world, scan>>

-----------------------------------------------------------------------------
(* Arguments; the defaults come from the environment, so that both sources of    *)
(* evidence can be there. *)
require_arguments ==
  /\ AtCheck("arguments")
  /\ dc' = IF facts.complete /\ facts.sources # {} /\ facts.max_age > 0 /\ facts.min_inodes >= 0
           THEN [dc EXCEPT !.pc = "nativelink.health"]
           ELSE [dc EXCEPT !.pc = "over", !.exit = "2"]
  /\ UNCHANGED <<facts, world, scan>>

(* The gRPC client: its template, its executable, its exit and its output.       *)
GrpcJson == facts.client \in {"camelCase", "snake_case", "chatty", "numbers"} /\ svc.up
check_grpc_health ==
  Observe("nativelink.health", GrpcJson /\ facts.health = "SERVING", "reapi.capabilities")

(* Digest functions are looked for by name, wherever they are in the object.     *)
Named == facts.client # "numbers"
check_deployed_capabilities ==
  LET c == svc.caps
  IN  Observe("reapi.capabilities",
        /\ GrpcJson /\ Named /\ SHA256 \in ToSet(c.cache)
        /\ facts.cache_only \/ (c.exec /\ SHA256 \in {c.digest} \cup ToSet(c.digests)),
        "mountinfo")

-----------------------------------------------------------------------------
(* Storage.  A path is a sequence of names; facts.mounts lists the mounts in the *)
(* order they were made, as mountinfo does. *)
Covering(path) == {i \in DOMAIN facts.mounts : IsPrefix(facts.mounts[i].point, path)}
Depth(i) == Len(facts.mounts[i].point)
(* The longest mount point, the first of several.  0 for none. *)
find_mount(path) ==
  LET longest == {i \in Covering(path) : \A j \in Covering(path) : Depth(j) <= Depth(i)}
  IN  IF longest = {} THEN 0 ELSE Min(longest)

(* A mount point that is not UTF-8 is a ValueError, which nothing catches here.   *)
ReadMounts ==
  /\ AtCheck("mountinfo")
  /\ dc' = CASE facts.mountinfo = "readable" -> [dc EXCEPT !.pc = "storage.identity"]
             [] facts.mountinfo = "foreign bytes" -> [dc EXCEPT !.pc = "over", !.exit = "traceback"]
             [] OTHER -> Reported(<<<<"storage.identity", FALSE>>, <<"storage.writable", FALSE>>>>,
                                  "storage.watermarks")
  /\ UNCHANGED <<facts, world, scan>>

Present(names) == names \cap facts.absent = {}
check_storage_identity ==
  LET m == facts.mounts[find_mount(facts.cas)]
  IN  Observe("storage.identity",
        /\ Present({"cas", "ac", "mount"})
        /\ facts.cas # facts.ac
        /\ 0 < find_mount(facts.cas) /\ find_mount(facts.cas) = find_mount(facts.ac)
        /\ m.point = facts.mount /\ m.source = facts.source /\ m.fs = facts.fs
        /\ m.fs # "tmpfs",
        "storage.writable")

Mounted(path) == IF Covering(path) = {} THEN 0 ELSE Max(Covering(path))   \* what the kernel resolves to
check_storage_writable ==
  Observe("storage.writable",
    /\ Present({"cas", "ac"})
    /\ \A path \in {facts.cas, facts.ac} :
         /\ path \in facts.writable
         /\ LET real == facts.mounts[Mounted(path)]
                m == facts.mounts[find_mount(path)]
            IN  /\ Mounted(path) > 0
                /\ real.rw /\ real.super_rw
                /\ m.rw \/ m.super_rw,
    "storage.watermarks")

check_watermarks ==
  Observe("storage.watermarks",
    \A w \in {facts.cas_marks, facts.ac_marks} : 0 < w.low /\ w.low < w.high, "storage.capacity")

check_storage_capacity ==
  LET d == facts.disk
  IN  Observe("storage.capacity",
        /\ Present({"mount"})
        /\ d.total >= facts.cas_marks.high + facts.ac_marks.high + facts.reserve
        /\ d.available >= facts.reserve
        /\ IF d.inodes = "dynamic" THEN facts.min_inodes = 0
           ELSE d.free_inodes >= facts.min_inodes,
        "workers.load")

-----------------------------------------------------------------------------
(* Evidence: what a collector wrote, or what a command prints now. *)
load_worker_evidence ==
  /\ AtCheck("workers.load")
  /\ dc' = [dc EXCEPT !.pc = "workers.evidence", !.evidence =
              CASE facts.sources = {"file"} -> [ok |-> Present({"evidence"}), at |-> file.at + facts.skew,
                                                workers |-> file.workers]
                [] facts.sources = {"command"} -> [ok |-> facts.command = "ok", at |-> now + facts.skew,
                                                   workers |-> connected]
                [] OTHER -> [ok |-> FALSE, at |-> 0, workers |-> {}]]
  /\ UNCHANGED <<facts, world, scan>>

(* NaN is neither ahead nor old. *)
Timely == \/ /\ facts.stamp \in {"number", "ISO 8601"}
             /\ now - dc.evidence.at >= -Ahead
             /\ now - dc.evidence.at <= facts.max_age
          \/ facts.stamp = "NaN"

Admissible(w) == w.keys = "exact" /\ w.os = {"linux"} /\ \E a \in Architectures : w.arch = {a}
Listed == {i \in DOMAIN facts.workers : facts.workers[i].name \in dc.evidence.workers}
ValidRecords ==
  /\ facts.stamp # "no workers"
  /\ \A i, j \in DOMAIN facts.workers : facts.workers[i].name = facts.workers[j].name => i = j
  /\ \A i \in DOMAIN facts.workers : facts.workers[i].name # ""
  /\ \A i \in Listed : Admissible(facts.workers[i])

validate_worker_evidence ==
  /\ AtCheck("workers.evidence")
  /\ LET valid == dc.evidence.ok /\ Timely /\ ValidRecords
         ready(a) == valid /\ \E i \in Listed : facts.workers[i].arch = {a}
     IN  dc' = [Reported(<<<<"workers.evidence", valid>>, <<"workers.x86_64", ready("x86_64")>>,
                           <<"workers.aarch64", ready("aarch64")>>>>, "otlp.config")
                  EXCEPT !.judged = now]
  /\ UNCHANGED <<facts, world, scan>>

-----------------------------------------------------------------------------
endpoint_ok(url) == url.scheme \in {"http", "grpc"} /\ url.host /\ ~url.login /\ url.port >= 0
check_otlp_config ==
  Observe("otlp.config", endpoint_ok(facts.otel) /\ facts.interval \in 1..MaxInterval, "otlp.collector")
check_tcp_reachability ==
  Observe("otlp.collector", endpoint_ok(facts.otel) /\ facts.otel.port > 0 /\ facts.collector,
          "otlp.collector_health")
(* A redirect is not followed and is not a success.  A blank in the URL and an    *)
(* answer that is not HTTP are HTTPExceptions, which nothing catches.            *)
NotHttp == -1
check_http_health ==
  LET url == facts.health_url
      asked == url.scheme = "http" /\ url.host /\ ~url.login /\ url.port >= 0
  IN  /\ AtCheck("otlp.collector_health")
      /\ dc' = IF asked /\ (url.blank \/ facts.http = NotHttp)
               THEN [dc EXCEPT !.pc = "over", !.exit = "traceback"]
               ELSE Reported(<<<<"otlp.collector_health", asked /\ facts.http \in 200..299>>>>,
                             "client.list")
      /\ UNCHANGED <<facts, world, scan>>

-----------------------------------------------------------------------------
(* read_inotify_usage: the processes are listed, then visited one by one, then   *)
(* their descriptors; each may be gone by then. *)
Mine(p) == procs[p].owner = "user"
Held(state) == {<<p, f>> \in (DOMAIN state) \X (1..3) :
                  /\ state[p].owner = "user" /\ f \in DOMAIN state[p].fds
                  /\ state[p].fds[f] # NotInotify}
Uses(state) == {<<pf[1], pf[2], state[pf[1]].fds[pf[2]]>> : pf \in Held(state)}

InotifyChecks == <<"client.inotify.visibility", "client.inotify.instances",
                   "client.inotify.watches", "client.inotify.queue">>
Denied == Reported([i \in 1..4 |-> <<InotifyChecks[i], FALSE>>], "stage-zero")

ListProcesses ==
  /\ AtCheck("client.list")
  /\ IF facts.nested THEN dc' = Denied /\ UNCHANGED scan
     ELSE /\ dc' = [dc EXCEPT !.pc = "client.scan"]
          /\ scan' = [scan EXCEPT !.todo = DOMAIN procs, !.kept = Uses(procs), !.seen = Uses(procs)]
  /\ UNCHANGED <<facts, world>>

Scanning == AtCheck("client.scan") /\ UNCHANGED <<facts, world>>
Gone(p) == p \notin DOMAIN procs

VisitProcess ==
  /\ Scanning /\ scan.pid = 0 /\ UNCHANGED dc
  /\ \E p \in scan.todo :
       scan' = CASE Gone(p) \/ (~Gone(p) /\ ~Mine(p)) -> [scan EXCEPT !.todo = scan.todo \ {p}]
                 [] ~Gone(p) /\ Mine(p) /\ ~procs[p].readable ->
                      [scan EXCEPT !.todo = scan.todo \ {p}, !.hidden = scan.hidden \cup {p}]
                 [] OTHER -> [scan EXCEPT !.todo = scan.todo \ {p}, !.pid = p, !.fds = DOMAIN procs[p].fds]

HasDescriptor(p, f) == ~Gone(p) /\ f \in DOMAIN procs[p].fds
Hide == [scan EXCEPT !.hidden = scan.hidden \cup {scan.pid}, !.pid = 0, !.fds = {}, !.fd = 0]
ReadDescriptor ==
  /\ Scanning /\ scan.pid # 0 /\ scan.fd = 0 /\ scan.fds # {} /\ UNCHANGED dc
  /\ LET f == Min(scan.fds)
         after == [scan EXCEPT !.fds = scan.fds \ {f}]
     IN  scan' = IF ~HasDescriptor(scan.pid, f) THEN after
                 ELSE IF ~procs[scan.pid].readable THEN Hide
                 ELSE IF procs[scan.pid].fds[f] = NotInotify THEN after
                 ELSE [after EXCEPT !.fd = f, !.instances = scan.instances + 1]

(* fdinfo.  A process that ends as it is opened gives ESRCH, which is not caught  *)
(* until main.                                                                   *)
ReadWatches ==
  /\ Scanning /\ scan.fd # 0
  /\ \/ /\ UNCHANGED dc
        /\ LET after == [scan EXCEPT !.fd = 0]
           IN  scan' = IF ~HasDescriptor(scan.pid, scan.fd) THEN after
                       ELSE IF ~procs[scan.pid].readable THEN Hide
                       ELSE IF procs[scan.pid].fds[scan.fd] = NotInotify THEN after
                       ELSE [after EXCEPT !.watches = scan.watches + procs[scan.pid].fds[scan.fd]]
     \/ /\ Gone(scan.pid)
        /\ dc' = Denied /\ scan' = [scan EXCEPT !.raised = TRUE, !.fd = 0]

LeaveProcess ==
  /\ Scanning /\ scan.pid # 0 /\ scan.fd = 0 /\ scan.fds = {} /\ UNCHANGED dc
  /\ scan' = [scan EXCEPT !.pid = 0]

(* Directories, walked without those that are ignored or links, or below one.    *)
Entered(d) == d.name \notin facts.ignored /\ ~d.link
repository_directory_count ==
  1 + Cardinality({path \in facts.tree : \A i \in DOMAIN path : Entered(path[i])})

inotify_snapshot_blind ==     \* Mutation: processes that cannot be inspected are passed over
  /\ Scanning /\ scan.pid = 0 /\ scan.todo = {} /\ UNCHANGED scan
  /\ LET n == facts.daemons
     IN  dc' = Reported(<<<<InotifyChecks[1], TRUE>>,
           <<InotifyChecks[2], facts.instances - scan.instances >= BaseInstances + PerDaemon * n>>,
           <<InotifyChecks[3], facts.watches - scan.watches
                                 >= BaseWatches + n * 2 * repository_directory_count>>,
           <<InotifyChecks[4], facts.queue >= MinQueue>>>>, "stage-zero")
(* The checks on the snapshot, when it could be taken. *)
inotify_snapshot ==
  /\ Scanning /\ scan.pid = 0 /\ scan.todo = {} /\ UNCHANGED scan
  /\ LET n == facts.daemons
     IN  dc' = IF scan.hidden # {} \/ ~Present({"repo", "sysctl"}) THEN Denied
               ELSE Reported(<<<<InotifyChecks[1], TRUE>>,
                      <<InotifyChecks[2], n >= 0 /\ facts.instances - scan.instances
                                                     >= BaseInstances + PerDaemon * n>>,
                      <<InotifyChecks[3], n >= 0 /\ facts.watches - scan.watches
                                                     >= BaseWatches + n * 2 * repository_directory_count>>,
                      <<InotifyChecks[4], facts.queue >= MinQueue>>>>, "stage-zero")

Verdict ==
  /\ AtCheck("stage-zero")
  /\ LET failed == \E i \in DOMAIN dc.report : dc.report[i][2] = "FAIL"
     IN  dc' = [Reported(<<<<"stage-zero", ~failed>>>>, "over") EXCEPT !.exit = IF failed THEN "1" ELSE "0"]
  /\ UNCHANGED <<facts, world, scan>>

CheckStep ==
  \/ require_arguments \/ check_grpc_health \/ check_deployed_capabilities \/ ReadMounts
  \/ check_storage_identity \/ check_storage_writable \/ check_watermarks \/ check_storage_capacity
  \/ load_worker_evidence \/ validate_worker_evidence
  \/ check_otlp_config \/ check_tcp_reachability \/ check_http_health
  \/ ListProcesses \/ VisitProcess \/ ReadDescriptor \/ ReadWatches \/ LeaveProcess
  \/ inotify_snapshot \/ Verdict

-----------------------------------------------------------------------------
(* The world goes on: time passes and workers come and go, the collector writes,  *)
(* processes end, open and close descriptors, or can no longer be inspected.      *)
(* What comes before the evidence is read might as well come earlier.             *)
Evidencing == dc.pc \in {"workers.load", "workers.evidence"}
Tick ==
  /\ Evidencing /\ now < facts.ticks /\ now < MaxNow
  /\ now' = now + 1
  /\ connected' \in SUBSET facts.connected
  /\ past' = Append(past, connected')
  /\ UNCHANGED <<facts, dc, file, procs, scan>>
Collect ==
  /\ Evidencing /\ facts.ticks > 0
  /\ file' = [at |-> now, workers |-> connected]
  /\ UNCHANGED <<facts, dc, now, connected, past, procs, scan>>

Becomes(state) == /\ procs' = state
                  /\ scan' = [scan EXCEPT !.events = scan.events + 1,
                                          !.kept = scan.kept \cap Uses(state),
                                          !.seen = scan.seen \cup Uses(state)]
ProcessMoves ==
  /\ AtCheck("client.scan") /\ scan.events < facts.events
  /\ \E p \in DOMAIN procs :
       \/ Becomes([q \in DOMAIN procs \ {p} |-> procs[q]])
       \/ Becomes([procs EXCEPT ![p].readable = FALSE])
       \/ \E f \in DOMAIN procs[p].fds :
            Becomes([procs EXCEPT ![p].fds = [g \in DOMAIN procs[p].fds \ {f} |-> procs[p].fds[g]]])
       \/ \E f \in 1..3 \ DOMAIN procs[p].fds, w \in {NotInotify, 1} :
            Becomes([procs EXCEPT ![p].fds = [g \in DOMAIN procs[p].fds \cup {f} |->
                                                IF g = f THEN w ELSE procs[p].fds[g]]])
  /\ UNCHANGED <<facts, dc, now, connected, past, file>>

DNext == CheckStep \/ Tick \/ Collect \/ ProcessMoves
=============================================================================
