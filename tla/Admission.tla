------------------------------ MODULE Admission ------------------------------
(* Before clients share a deployment, two programs look at it: the readiness     *)
(* helper of the smoke test speaks to the service itself, and the stage-zero     *)
(* check looks at the whole deployment.  Either is run on the same service; the   *)
(* verdict of each is set beside what was really there.                          *)
EXTENDS DeploymentCheck

avars == <<rvars, dvars>>
AInit == \/ RInit /\ facts = <<>> /\ dc = Off
            /\ now = 0 /\ connected = {} /\ past = <<{}>> /\ file = [at |-> 0, workers |-> {}]
            /\ procs = <<>> /\ scan = NoScan
         \/ DInit /\ line = <<>> /\ rr = Idle
ANext == \/ RNext /\ UNCHANGED dvars
         \/ DNext /\ UNCHANGED rvars
ASpec == AInit /\ [][ANext]_avars

-----------------------------------------------------------------------------
Order == <<"nativelink.health", "reapi.capabilities", "storage.identity", "storage.writable",
           "storage.watermarks", "storage.capacity", "workers.evidence", "workers.x86_64",
           "workers.aarch64", "otlp.config", "otlp.collector", "otlp.collector_health">>
           \o InotifyChecks \o <<"stage-zero">>

(* The helper let the service pass: over one channel, closed by now, it took the *)
(* fresh blob and still had it when it was read; or what it can do is what        *)
(* clients need. (check_cas_round_trip, check_capabilities)                      *)
ReadinessProves ==
  rr.exit = "0" =>
    /\ svc.up /\ svc.tls = line.tls /\ rr.channel = "closed"
    /\ IF line.op = "capabilities" THEN Fit(svc.caps)
       ELSE rr.taken /\ rr.downloaded = Blob

(* The mount that a path is really on, where no mount hides another. *)
OverMounted == \E path \in {facts.cas, facts.ac} : find_mount(path) # Mounted(path)
StorageIsReal ==
  LET m == facts.mounts[Mounted(facts.cas)]
  IN  /\ Mounted(facts.cas) = Mounted(facts.ac) /\ Mounted(facts.cas) > 0
      /\ m.point = facts.mount /\ m.source = facts.source /\ m.fs = facts.fs /\ m.fs # "tmpfs"
      /\ m.rw /\ m.super_rw /\ {facts.cas, facts.ac} \subseteq facts.writable

Arches(names) == UNION {facts.workers[i].arch : i \in {j \in DOMAIN facts.workers :
                                                         facts.workers[j].name \in names}}
(* Both architectures were connected at one moment, at most max_age, and the     *)
(* collector's skew, before the evidence was judged. *)
WorkersWereThere ==
  \E t \in 0..dc.judged : /\ t + facts.skew >= dc.judged - facts.max_age
                          /\ Architectures \subseteq Arches(past[t + 1])

(* What is left of the limits covers the daemons to come, after whatever was in   *)
(* use from the first look to the last. *)
Needs(uses) ==
  /\ facts.instances - Cardinality(uses) >= BaseInstances + PerDaemon * facts.daemons
  /\ facts.watches - MapThenSumSet(LAMBDA u : u[3], uses)
       >= BaseWatches + facts.daemons * 2 * repository_directory_count

StageZeroProves ==
  dc.exit = "0" =>
    /\ dc.report = [i \in DOMAIN Order |-> <<Order[i], "PASS">>]
    /\ svc.up /\ SHA256 \in ToSet(svc.caps.cache) /\ (facts.cache_only \/ svc.caps.exec)
    /\ ~OverMounted => StorageIsReal
    /\ facts.stamp # "NaN" => WorkersWereThere
    /\ Needs(scan.kept)

(* Whatever moved while it looked, a verdict is about what was there: and a       *)
(* denial says why, in a report that leaves no check out.                        *)
(* (check_deployment.main, reapi_readiness.main)                                 *)
AdmittedIsSo ==
  /\ ReadinessProves /\ StageZeroProves
  /\ dc.exit = "1" => /\ [i \in DOMAIN dc.report |-> dc.report[i][1]] = Order
                      /\ \E i \in 1..(Len(Order) - 1) : dc.report[i][2] = "FAIL"
                      /\ dc.report[Len(Order)][2] = "FAIL"

-----------------------------------------------------------------------------
SoundLine ==
  /\ line.parsed /\ validate_endpoint(line.endpoint) /\ line.instance
  /\ line.given = (IF line.tls THEN Paths ELSE {}) /\ line.given \subseteq line.readable
SoundDeployment ==
  /\ facts.complete /\ Cardinality(facts.sources) = 1 /\ facts.max_age > 0 /\ facts.min_inodes >= 0
  /\ facts.client \in {"camelCase", "snake_case", "chatty"} /\ facts.health = "SERVING"
  /\ svc.up /\ Fit(svc.caps)
  /\ facts.mountinfo = "readable" /\ facts.absent = {}
  /\ facts.cas # facts.ac /\ ~OverMounted /\ StorageIsReal
  /\ \A w \in {facts.cas_marks, facts.ac_marks} : 0 < w.low /\ w.low < w.high
  /\ facts.disk.total >= facts.cas_marks.high + facts.ac_marks.high + facts.reserve
  /\ facts.disk.available >= facts.reserve
  /\ IF facts.disk.inodes = "dynamic" THEN facts.min_inodes = 0
     ELSE facts.disk.free_inodes >= facts.min_inodes
  /\ facts.command = "ok" /\ facts.stamp \in {"number", "ISO 8601"} /\ facts.skew = 0 /\ facts.ticks = 0
  /\ \A i, j \in DOMAIN facts.workers : facts.workers[i].name = facts.workers[j].name => i = j
  /\ \A i \in DOMAIN facts.workers : facts.workers[i].name # ""
  /\ \A i \in DOMAIN facts.workers : facts.workers[i].name \in facts.connected => Admissible(facts.workers[i])
  /\ Architectures \subseteq Arches(facts.connected)
  /\ endpoint_ok(facts.otel) /\ facts.otel.port > 0 /\ facts.collector /\ facts.interval \in 1..MaxInterval
  /\ endpoint_ok(facts.health_url) /\ facts.health_url.scheme = "http" /\ ~facts.health_url.blank
  /\ facts.http \in 200..299 /\ ~facts.nested /\ facts.daemons >= 0 /\ facts.queue >= MinQueue
  /\ scan.hidden = {} /\ Needs(scan.seen)

Failed == {dc.report[i][1] : i \in {j \in DOMAIN dc.report : dc.report[j][2] = "FAIL"}}

(* No false alarm but one: a fit service is not refused for how it writes its     *)
(* messages, nor a sound deployment for processes that come and go; except that a *)
(* process which ends while its fdinfo is read (ESRCH, which the scan does not    *)
(* pass over) makes the four inotify checks fail, and them alone. (parse_fields,  *)
(* _enum_values, read_inotify_usage) *)
SoundIsAdmitted ==
  /\ rr.pc = "over" /\ rr.odd = 0 /\ SoundLine /\ svc.up /\ svc.tls = line.tls
     /\ (line.op = "capabilities" => Fit(svc.caps)) => rr.exit = "0"
  /\ dc.pc = "over" /\ SoundDeployment =>
       IF scan.raised THEN Failed = ToSet(InotifyChecks) \cup {"stage-zero"} ELSE dc.exit = "0"
=============================================================================
