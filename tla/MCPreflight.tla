----------------------------- MODULE MCPreflight -----------------------------
(* Every call of the launcher on every host, and preflights on a sound worker   *)
(* with up to two things different about it.                                    *)
EXTENDS Preflight

MCCalls == {c \in Call : ~(c.shadows /\ c.leaks) /\ (c.op = "remove" => c.isolation = "none")}
MCHosts == Host
MCTools == {"bwrap", "unshare", "newuidmap", "newgidmap", "tar"}
MCOwners == {<<2, 3>>, <<4, 4>>}

Range(base, count) == [base |-> base, count |-> count]
AllSafe == [t \in MCTools |-> "safe"]

\* Worker id 9; ranges of at least 5 ids up to 17.
Healthy ==
  [user |-> "service", worker |-> 9, userns_max |-> "on", userns_clone |-> "absent",
   tools |-> AllSafe, features |-> TRUE, uid |-> Range(10, 5), gid |-> Range(12, 6),
   scratch |-> "usable", bytes |-> TRUE, inodes |-> "enough", min_inodes |-> 1,
   hardlinks |-> TRUE, target |-> "x86_64", native |-> "x86_64", emulated |-> FALSE,
   binfmt |-> FALSE, probe |-> "usable", probe_machine |-> "x86_64", ships_build |-> FALSE,
   disjoint |-> TRUE, inside |-> {}, launcher |-> "stand-in"]

Ranges == {Range(0, 0), Range(0, 5), Range(5, 5), Range(4, 5), Range(13, 5), Range(14, 5), Range(10, 4)}
Different ==
  [user |-> {"missing", "root", "other"}, userns_max |-> {"absent", "unreadable", "off"},
   userns_clone |-> {"on", "off", "unreadable"},
   tools |-> {[AllSafe EXCEPT ![t] = v] : t \in MCTools, v \in {"missing", "unsafe"}},
   features |-> {FALSE}, uid |-> Ranges, gid |-> Ranges,
   scratch |-> {"absent", "foreign", "read-only"}, bytes |-> {FALSE},
   inodes |-> {"few", "dynamic"}, min_inodes |-> {0}, hardlinks |-> {FALSE},
   target |-> {"aarch64"}, native |-> {"aarch64"}, emulated |-> {TRUE}, binfmt |-> {TRUE},
   probe |-> {"absent", "no python"}, probe_machine |-> {"aarch64"}, ships_build |-> {TRUE},
   disjoint |-> {FALSE}, inside |-> {{"loopback"}, {"exposure", "namespace-net"}},
   launcher |-> {"missing", "production"}]
Fields == DOMAIN Different

Emulated == [Healthy EXCEPT !.target = "aarch64", !.emulated = TRUE, !.binfmt = TRUE,
                            !.probe_machine = "aarch64"]

\* Fields whose values are read together.
Groups == {{"target", "native", "emulated", "binfmt", "probe_machine"},
           {"inodes", "min_inodes"}, {"user", "probe"}, {"inside", "disjoint"}}
MCFacts ==
  LET near(h, fields) == {h} \cup UNION {{[h EXCEPT ![f] = v] : v \in Different[f]} : f \in fields}
      all == near(Healthy, Fields) \cup near(Emulated, Fields)
               \cup UNION {UNION {near(h, g) : h \in near(Healthy, g)} : g \in Groups}
  IN  all

\* The launcher of this repository.
MCProduction == LET near == {[Healthy EXCEPT !.launcher = "production", !.inodes = i[1], !.min_inodes = i[2]] :
                               i \in {<<"enough", 1>>, <<"dynamic", 0>>}} IN near
=============================================================================
