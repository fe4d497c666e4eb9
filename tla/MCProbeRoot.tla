----------------------------- MODULE MCProbeRoot -----------------------------
(* Two runs at one destination, over four rootfs: one whose first candidate of   *)
(* libc is a dangling link and whose libraries need each other, libm only by way *)
(* of libc; one with a loop of links, one with a library of another machine, one *)
(* with a device node, and one SDME does not list.                               *)
EXTENDS ProbeRoot

CONSTANTS r1, r2

LinkTo(p) == [kind |-> "link", to |-> p]
Elf(interpreter, needed) ==
  [kind |-> "elf", native |-> TRUE, interpreter |-> interpreter, needed |-> needed]

MCPath == {"python3", "python3.11", "stdlib", "ssl.so", "zone", "zoneinfo", "ld",
           "lib/libc", "lib/gone", "usr/libc", "usr/libc6", "usr/libm", "lib/libm", "proc"}
MCLibrary == {"libc", "libm"}
MCCandidates == [name \in MCLibrary |-> IF name = "libc" THEN <<"lib/libc", "usr/libc">>
                                        ELSE <<"lib/libm", "usr/libm">>]

Good == [at |-> [p \in MCPath \ {"lib/gone", "lib/libm", "proc"} |->
                   CASE p = "python3"    -> LinkTo("python3.11")
                     [] p = "python3.11" -> Elf("ld", {"libc"})
                     [] p = "stdlib"     -> [kind |-> "directory"]
                     [] p = "ssl.so"     -> Elf(None, {"libc"})
                     [] p = "zone"       -> LinkTo("zoneinfo")
                     [] p = "lib/libc"   -> LinkTo("lib/gone")
                     [] p = "usr/libc"   -> LinkTo("usr/libc6")
                     [] p = "usr/libm"   -> Elf(None, {"libc"})
                     [] p = "usr/libc6"  -> Elf("ld", {"libm"})
                     [] p = "ld"         -> Elf(None, {})
                     [] OTHER            -> [kind |-> "data"]],
         stdlib |-> {"ssl.so", "zone"}]
MCImages ==
  LET good == Good IN
  [fs \in {"good", "loop", "foreign", "special", "unlisted"} |->
     CASE fs \in {"good", "unlisted"} -> good
       [] fs = "loop"    -> [good EXCEPT !.at["zoneinfo"] = LinkTo("zone")]
       [] fs = "foreign" -> [good EXCEPT !.at["usr/libm"].native = FALSE]
       [] fs = "special" -> [good EXCEPT !.at["ssl.so"] = [kind |-> "special"]]]

(* One run applies the good rootfs, the other anything; each flaw once. *)
Start(op, fs, flaws) == [op |-> op, fs |-> fs, flaws |-> flaws]
MCStarts ==
  LET first == Start("apply", "good", {})
      others == {Start(op, fs, {}) : op \in {"plan", "apply"}, fs \in DOMAIN MCImages}
                  \cup {Start(op, "good", {flaw}) : op \in {"plan", "apply"}, flaw \in Flaws}
  IN  {[r \in Run |-> IF r = r1 THEN first ELSE other] : other \in others}
=============================================================================
