---------------------------- MODULE MCAdmission ----------------------------
(* The readiness helper with every command line against every service, and       *)
(* stage-zero checks of deployments that differ from a sound one in up to two     *)
(* ways.                                                                         *)
EXTENDS Admission

Near(base, options, fields) ==
  {base} \cup UNION {{[base EXCEPT ![f] = v] : v \in options[f]} : f \in fields}

-----------------------------------------------------------------------------
MCHashes == {<<4>>, <<5>>}
MCBlob == <<1, 2, 3>>
MCCorrupt == <<1, 2, 4>>
\* A field the reader does not know: a varint, a fixed64, a fixed32, bytes.
Own == {<<>>, encode_int(6, 9), encode_key(6, 1) \o <<1, 2>>, encode_key(8, 5) \o <<15>>,
        encode_bytes(7, <<9, 0>>)}
MCForms == LET forms == [packed : BOOLEAN, reversed : BOOLEAN, own : Own] IN forms

Caps == [cache |-> <<1>>, update |-> TRUE, exec |-> TRUE, digest |-> 1, digests |-> <<>>,
         low |-> <<2, 0, 0>>, high |-> <<2, 3, 0>>]
OtherCaps == [cache |-> {<<>>, <<2>>, <<9, 1, 2>>}, update |-> {FALSE}, exec |-> {FALSE},
              digest |-> {0, 9}, digests |-> {<<1, 9>>, <<2>>},
              low |-> {<<0, 0, 0>>, <<2, 3, 1>>, <<3, 0, 0>>}, high |-> {<<2, 0, 0>>, <<1, 9, 9>>, <<3, 0, 1>>}]
Capabilities == Near(Caps, OtherCaps, DOMAIN OtherCaps)
                  \cup UNION {Near(c, OtherCaps, {"digests", "high"}) : c \in Near(Caps, OtherCaps, {"digest", "low"})}
Service(up, tls, caps) == [up |-> up, tls |-> tls, caps |-> caps, held |-> <<>>]
Fine == Service(TRUE, FALSE, Caps)
Services == {Service(TRUE, FALSE, c) : c \in Capabilities} \cup {Service(FALSE, FALSE, Caps)}

Url == [scheme |-> "", blank |-> FALSE, host |-> TRUE, login |-> FALSE, tail |-> FALSE, port |-> 5]
OtherUrl == [scheme |-> {"http", "other"}, blank |-> {TRUE}, host |-> {FALSE}, login |-> {TRUE},
             tail |-> {TRUE}, port |-> {-2, -1, 0, 9, 10}]
Urls == Near(Url, OtherUrl, DOMAIN OtherUrl)
WebUrls == Near([Url EXCEPT !.scheme = "http"], OtherUrl, DOMAIN OtherUrl)

Line(op) == [op |-> op, parsed |-> TRUE, endpoint |-> Url, instance |-> TRUE, tls |-> FALSE,
             given |-> {}, readable |-> Paths]
OtherLine == [parsed |-> {FALSE}, endpoint |-> Urls, instance |-> {FALSE},
              given |-> {{"ca"}, Paths}, readable |-> {{"ca", "chain"}}]
Lines(op) == UNION {Near(l, OtherLine, DOMAIN OtherLine) :
                      l \in {[Line(op) EXCEPT !.tls = t, !.given = IF t THEN Paths ELSE {}] : t \in BOOLEAN}}
MCScenes ==
  LET all == {[line |-> l, svc |-> Service(TRUE, t, Caps)] : l \in Lines("cas-round-trip"), t \in BOOLEAN}
               \cup {[line |-> Line("capabilities"), svc |-> s] : s \in Services}
  IN  all

-----------------------------------------------------------------------------
Srv == <<"srv">>
Cas == <<"srv", "re", "cas">>
Ac == <<"srv", "re", "ac">>
Mount(point, source, fs) == [point |-> point, source |-> source, fs |-> fs, rw |-> TRUE, super_rw |-> TRUE]
Root == Mount(<<>>, "root", "ext4")
Disk == Mount(<<"srv", "re">>, "disk", "xfs")
Mounts == {<<Root>>, <<>>, <<Disk, Root>>,
           <<Root, [Disk EXCEPT !.source = "root"]>>, <<Root, [Disk EXCEPT !.fs = "tmpfs"]>>,
           <<Root, [Disk EXCEPT !.rw = FALSE]>>, <<Root, [Disk EXCEPT !.super_rw = FALSE]>>,
           <<Root, [Disk EXCEPT !.rw = FALSE, !.super_rw = FALSE]>>,
           <<Root, Disk, Mount(<<"srv", "re">>, "none", "tmpfs")>>,
           <<Root, Disk, Mount(Srv, "none", "tmpfs")>>, <<Root, Mount(Srv, "other", "xfs"), Disk>>,
           <<Root, Disk, Mount(Cas, "other", "xfs")>>, <<Root, Disk, Mount(Cas, "x", "xfs"), Mount(Ac, "x", "xfs")>>}

Worker(name, arch) == [name |-> name, keys |-> "exact", os |-> {"linux"}, arch |-> {arch}]
Workers == <<Worker("a", "x86_64"), Worker("b", "aarch64"), Worker("c", "x86_64")>>
OtherWorkers ==
  {[Workers EXCEPT ![3] = w] : w \in {Worker("c", "riscv64"), Worker("a", "aarch64"), Worker("", "aarch64"),
     [Worker("c", "x86_64") EXCEPT !.keys = "more"], [Worker("c", "x86_64") EXCEPT !.os = {}],
     [Worker("c", "x86_64") EXCEPT !.arch = {"x86_64", "aarch64"}]}}

Process(owner, readable, fds) == [owner |-> owner, readable |-> readable, fds |-> fds]
Procs == <<Process("user", TRUE, <<2, NotInotify>>), Process("user", TRUE, <<1, 1>>), Process("other", FALSE, <<3>>)>>
OtherProcs == {[Procs EXCEPT ![1].readable = FALSE], <<Procs[1]>>, <<Procs[3]>>}
Dir(name) == [name |-> name, link |-> FALSE]
Link(name) == [name |-> name, link |-> TRUE]
Tree == {<<Dir("src")>>, <<Dir("src"), Dir("lib")>>, <<Dir("src"), Link("back")>>,
         <<Dir("out")>>, <<Dir("out"), Dir("deep")>>}

Healthy ==
  [complete |-> TRUE, sources |-> {"file"}, command |-> "ok", max_age |-> 1, min_inodes |-> 1,
   client |-> "camelCase", health |-> "SERVING", cache_only |-> FALSE, mountinfo |-> "readable",
   mounts |-> <<Root, Disk>>, absent |-> {}, cas |-> Cas, ac |-> Ac, mount |-> Disk.point,
   source |-> "disk", fs |-> "xfs", writable |-> {Cas, Ac},
   cas_marks |-> [low |-> 1, high |-> 3], ac_marks |-> [low |-> 1, high |-> 2], reserve |-> 1,
   disk |-> [total |-> 6, available |-> 1, inodes |-> "fixed", free_inodes |-> 1],
   stamp |-> "number", skew |-> 0, ticks |-> 0, workers |-> Workers, connected |-> {"a", "b"},
   otel |-> [Url EXCEPT !.scheme = "http"], interval |-> 2, collector |-> TRUE,
   health_url |-> [Url EXCEPT !.scheme = "http"], http |-> 204,
   nested |-> FALSE, procs |-> Procs, events |-> 0, tree |-> Tree, ignored |-> {"out"},
   instances |-> 7, watches |-> 12, queue |-> 2, daemons |-> 1]

Bad(record, field, values) == {[record EXCEPT ![field] = v] : v \in values}
Different ==
  [complete |-> {FALSE}, sources |-> {{}, {"command"}, {"file", "command"}}, command |-> {"fails"},
   max_age |-> {0, 2}, min_inodes |-> {-1, 0, 2},
   client |-> {"snake_case", "chatty", "numbers", "braces", "unsafe", "exits", "hangs"},
   health |-> {"NOT_SERVING", "absent"}, cache_only |-> {TRUE},
   mountinfo |-> {"unreadable", "foreign bytes"}, mounts |-> Mounts,
   absent |-> {{"cas"}, {"ac"}, {"mount"}, {"repo"}, {"sysctl"}, {"evidence"}},
   ac |-> {Cas, Srv}, mount |-> {<<>>, Srv}, source |-> {"root"}, fs |-> {"tmpfs", "ext4"}, writable |-> {{Cas}, {Ac}},
   cas_marks |-> Bad(Healthy.cas_marks, "low", {0, 3}) \cup Bad(Healthy.cas_marks, "high", {4}),
   ac_marks |-> Bad(Healthy.ac_marks, "low", {0, 2}), reserve |-> {0, 2},
   disk |-> Bad(Healthy.disk, "total", {5}) \cup Bad(Healthy.disk, "available", {0})
              \cup Bad(Healthy.disk, "inodes", {"dynamic"}) \cup Bad(Healthy.disk, "free_inodes", {0}),
   stamp |-> {"ISO 8601", "NaN", "absent", "no workers"}, skew |-> {-3, -1, 1, 2}, ticks |-> {2},
   workers |-> OtherWorkers, connected |-> {{"a", "c"}, {"b"}, {"a", "b", "c"}},
   otel |-> WebUrls, interval |-> {0, 3}, collector |-> {FALSE}, health_url |-> WebUrls, http |-> {NotHttp, 0, 199, 302, 500},
   nested |-> {TRUE}, procs |-> OtherProcs, events |-> {2}, ignored |-> {{}},
   instances |-> {6, 9}, watches |-> {11, 16}, queue |-> {1}, daemons |-> {-1, 0}]

\* Fields whose values are read together.
Groups == {{"sources", "command", "absent", "stamp", "skew", "ticks", "max_age", "connected", "workers"},
           {"mounts", "cas_marks", "ac", "mount", "fs", "source", "writable", "absent", "mountinfo"},
           {"disk", "reserve", "min_inodes", "cas_marks", "ac_marks"}, {"client", "health", "cache_only"},
           {"procs", "events", "instances", "watches", "daemons", "nested"}, {"otel", "interval"}}
Deployments ==
  Near(Healthy, Different, DOMAIN Different)
    \cup UNION {UNION {Near(d, Different, g) : d \in Near(Healthy, Different, g)} : g \in Groups}
MCSites ==
  LET all == {[facts |-> d, svc |-> Fine] : d \in Deployments}
               \cup {[facts |-> d, svc |-> s] : s \in Services, d \in Near(Healthy, Different, {"cache_only", "client"})}
  IN  all
=============================================================================
