------------------------------ MODULE Readiness ------------------------------
(* infra/remote-execution/scripts/reapi_readiness.py: one call of the helper     *)
(* against one service.  The service answers each request with some legal        *)
(* encoding of the truth; an odd answer, an RPC that fails and a blob that rots  *)
(* or goes away count as `odd`.  rr.pc = "none" when the helper is not run.      *)
EXTENDS Wire, FiniteSets

CONSTANTS Scenes,     \* command lines, each with the service as the helper finds it
          Forms,      \* how an encoder may write: packed enums, fields reversed, a field of its own
          SHA256,     \* DigestFunction.SHA256
          Blob,       \* the fresh random blob
          Corrupt,    \* other content as long as Blob
          MaxPort,
          MaxOdd

VARIABLES line,       \* the command line
          svc,        \* the service: up, tls, caps, and what it holds under the blob's digest
          rr          \* the helper: pc, channel, upload, left to stream, download, exit, odd answers

rvars == <<line, svc, rr>>
Paths == {"ca", "chain", "key"}
Digest == [hash |-> CHOOSE h \in Hashes : TRUE, size |-> Len(Blob)]

Idle == [pc |-> "none", channel |-> "none", taken |-> FALSE, left |-> <<>>,
         downloaded |-> <<>>, exit |-> "none", odd |-> 0]
RInit == \E s \in Scenes : line = s.line /\ svc = s.svc /\ rr = [Idle EXCEPT !.pc = "arguments"]

At(pc) == rr.pc = pc
Go(pc) == [rr EXCEPT !.pc = pc]
(* The context manager closes the channel however its body ends. *)
Exit(status) == [rr EXCEPT !.pc = "over", !.exit = status,
                           !.channel = IF rr.channel = "open" THEN "closed" ELSE rr.channel]

-----------------------------------------------------------------------------
(* The command line.  A port is -1 where there is none, -2 where it is no port.  *)
validate_endpoint(e) ==
  /\ e.scheme = "" /\ ~e.blank
  /\ e.host /\ ~e.login /\ ~e.tail
  /\ e.port \in 1..MaxPort

load_tls_credentials ==
  IF line.tls THEN line.given = Paths /\ line.given \subseteq line.readable
  ELSE line.given = {}

Arguments ==
  /\ At("arguments")
  /\ rr' = IF ~line.parsed THEN Exit("2")
           ELSE IF validate_endpoint(line.endpoint) /\ line.instance /\ load_tls_credentials
                THEN Go("connect") ELSE Exit("1")
  /\ UNCHANGED <<line, svc>>

(* GrpcTransport and its __enter__: ready within the timeout, or closed again.   *)
Connect ==
  /\ At("connect")
  /\ \/ /\ svc.up /\ svc.tls = line.tls
        /\ rr' = [rr EXCEPT !.pc = IF line.op = "capabilities" THEN "capabilities" ELSE "before",
                            !.channel = "open"]
     \/ /\ ~svc.up \/ svc.tls # line.tls \/ rr.odd < MaxOdd
        /\ rr' = [Exit("1") EXCEPT !.channel = "closed", !.odd = rr.odd + 1]
  /\ UNCHANGED <<line, svc>>

(* The answers to the request made at this point: the right ones, or something   *)
(* odd, or none, because the RPC failed.  What the helper makes of one is after. *)
Answers(right, wrong) ==
  {[come |-> TRUE, data |-> data, odd |-> rr.odd] : data \in right}
    \cup IF rr.odd < MaxOdd
         THEN {[come |-> TRUE, data |-> data, odd |-> rr.odd + 1] : data \in wrong}
                \cup {[come |-> FALSE, data |-> <<>>, odd |-> rr.odd + 1]}
         ELSE {}
Taken(answer, after) == [(IF answer.come THEN after ELSE Exit("1")) EXCEPT !.odd = answer.odd]

-----------------------------------------------------------------------------
(* What a legal encoder makes of a message, given its fields in order. *)
Message(parts, form) == FlattenSeq((IF form.reversed THEN Reverse(parts) ELSE parts) \o <<form.own>>)
Written(number, value) == IF value = 0 THEN <<>> ELSE encode_int(number, value)
Enums(number, values, form) ==
  IF form.packed THEN encode_bytes(number, FlattenSeq([i \in DOMAIN values |-> encode_varint(values[i])]))
  ELSE FlattenSeq([i \in DOMAIN values |-> encode_int(number, values[i])])
Semver(v, form) == Message(<<Written(1, v[1]), Written(2, v[2]), Written(3, v[3])>>, form)
Bit(b) == IF b THEN 1 ELSE 0
CapabilitiesMessage(c, form) ==
  Message(<<encode_bytes(1, Message(<<Enums(1, c.cache, form),
                                      encode_bytes(2, Written(1, Bit(c.update)))>>, form)),
            encode_bytes(2, Message(<<Written(1, c.digest), Written(2, Bit(c.exec)),
                                      Enums(4, c.digests, form)>>, form)),
            encode_bytes(4, Semver(c.low, form)),
            encode_bytes(5, Semver(c.high, form))>>, form)

decode_semver(data) ==
  UNION {{<<a, b, c>> : a \in optional_int(fields, 1), b \in optional_int(fields, 2),
                        c \in optional_int(fields, 3)} : fields \in parse_fields(data)}
Before(v, w) == \E i \in 1..3 : v[i] < w[i] /\ \A j \in 1..(i - 1) : v[j] = w[j]

CacheFits(data) ==
  \E fields \in parse_fields(data) :
    /\ \E digests \in enum_values(fields, 1) : SHA256 \in digests
    /\ \E update \in one_bytes(fields, 2) :
         \E inner \in parse_fields(update) : optional_int(inner, 1) = {1}
ExecutionFits(data) ==
  \E fields \in parse_fields(data) :
    /\ optional_int(fields, 2) = {1}
    /\ \E one \in enum_values(fields, 1), more \in enum_values(fields, 4) : SHA256 \in one \cup more
VersionsFit(low, high) == ~Before(high, low) /\ low[1] <= 2 /\ 2 <= high[1]
decode_capabilities(data) ==
  \E fields \in parse_fields(data) :
    /\ \E cache \in one_bytes(fields, 1) : CacheFits(cache)
    /\ \E execution \in one_bytes(fields, 2) : ExecutionFits(execution)
    /\ \E l \in one_bytes(fields, 4), h \in one_bytes(fields, 5) :
         \E low \in decode_semver(l), high \in decode_semver(h) : VersionsFit(low, high)

check_capabilities ==
  /\ At("capabilities")
  /\ LET right == {CapabilitiesMessage(svc.caps, form) : form \in Forms}
         whole == CHOOSE m \in right : TRUE
         cut == {SubSeq(whole, 1, n) : n \in 0..(Len(whole) - 1)}
     IN  \E a \in Answers(right, cut) :
           rr' = Taken(a, Exit(IF decode_capabilities(a.data) THEN "0" ELSE "1"))
  /\ UNCHANGED <<line, svc>>

-----------------------------------------------------------------------------
(* check_cas_round_trip: missing, written, there, read back. *)
Other == [Digest EXCEPT !.hash = CHOOSE h \in Hashes : h # Digest.hash]
Malformed == [Digest EXCEPT !.hash = <<>>]
MissingMessage(digests, form) ==
  Message([i \in DOMAIN digests |-> encode_bytes(2, encode_digest(digests[i]))], form)
Missing == IF svc.held = <<>> THEN <<Digest>> ELSE <<>>
Missings == {MissingMessage(Missing, form) : form \in Forms}
OddMissings ==
  {MissingMessage(ds, CHOOSE f \in Forms : TRUE) :
     ds \in {<<>>, <<Digest>>, <<Digest, Digest>>, <<Other>>, <<Digest, Malformed>>,
             <<[Digest EXCEPT !.size = Digest.size + 1]>>} \ {Missing}}

decode_find_missing_response(data) ==
  LET each(v) == [i \in DOMAIN v |-> decode_digest(v[i])]
  IN  UNION {{[i \in DOMAIN v |-> CHOOSE d \in each(v)[i] : TRUE] :
                v \in {w \in bytes_fields(fields, 2) : \A i \in DOMAIN w : each(w)[i] # {}}} :
               fields \in parse_fields(data)}

FindMissingBefore ==
  /\ At("before")
  /\ \E a \in Answers(Missings, OddMissings) :
       rr' = Taken(a, IF decode_find_missing_response(a.data) = {<<Digest>>}
                      THEN Go("write") ELSE Exit("1"))
  /\ UNCHANGED <<line, svc>>

(* The service takes the blob, or says that it did. *)
CommittedMessage(size, form) == Message(<<Written(1, size)>>, form)
Write ==
  /\ At("write")
  /\ LET judge(data) ==
           IF \E fields \in parse_fields(data) : one_int(fields, 1) = {Len(Blob)}
           THEN Go("after") ELSE Exit("1")
     IN \/ /\ svc' = [svc EXCEPT !.held = Blob]
           /\ \E a \in Answers({CommittedMessage(Len(Blob), form) : form \in Forms},
                               {<<>>, CommittedMessage(Len(Blob) - 1, CHOOSE f \in Forms : TRUE)}) :
                rr' = Taken(a, [judge(a.data) EXCEPT !.taken = TRUE])
        \/ /\ rr.odd < MaxOdd
           /\ svc' \in {svc, [svc EXCEPT !.held = Corrupt]}
           /\ rr' = [judge(CommittedMessage(Len(Blob), CHOOSE f \in Forms : TRUE))
                        EXCEPT !.odd = rr.odd + 1]
  /\ UNCHANGED line

FindMissingAfter ==
  /\ At("after")
  /\ \E a \in Answers(Missings, OddMissings) :
       rr' = Taken(a, IF decode_find_missing_response(a.data) = {<<>>}
                      THEN [rr EXCEPT !.pc = "read", !.left = svc.held] ELSE Exit("1"))
  /\ UNCHANGED <<line, svc>>

(* The download, in whatever pieces the service makes of it.  A message without  *)
(* data is refused.                                                              *)
decode_read_response(data) == UNION {one_bytes(fields, 10) : fields \in parse_fields(data)}
ReadMessage(piece, form) == Message(<<encode_bytes(10, piece)>>, form)
Piece(data, left) ==
  IF \E piece \in decode_read_response(data) : Len(rr.downloaded \o piece) <= Len(Blob)
  THEN [rr EXCEPT !.left = left,
                  !.downloaded = rr.downloaded \o CHOOSE p \in decode_read_response(data) : TRUE]
  ELSE Exit("1")
Read ==
  /\ At("read") /\ rr.left # <<>>
  /\ LET form == CHOOSE f \in Forms : TRUE
         rest(n) == SubSeq(rr.left, n + 1, Len(rr.left))
     IN \/ \E n \in 1..Len(rr.left), f \in Forms : rr' = Piece(ReadMessage(SubSeq(rr.left, 1, n), f), rest(n))
        \/ /\ rr.odd < MaxOdd
           /\ \/ \E n \in 1..Len(rr.left) :      \* a piece is lost, comes twice, or has no data
                   rr' \in {[rr EXCEPT !.left = rest(n), !.odd = rr.odd + 1],
                            [Piece(ReadMessage(SubSeq(rr.left, 1, n), form), rr.left) EXCEPT !.odd = rr.odd + 1]}
              \/ rr' = [Piece(<<>>, rr.left) EXCEPT !.odd = rr.odd + 1]
              \/ rr' = [Exit("1") EXCEPT !.odd = rr.odd + 1]
  /\ UNCHANGED <<line, svc>>

Compare ==
  /\ At("read") /\ rr.left = <<>>
  /\ rr' = Exit(IF rr.downloaded = Blob THEN "0" ELSE "1")
  /\ UNCHANGED <<line, svc>>

(* Between two requests the service loses the blob, or damages it. *)
Rot ==
  /\ rr.pc \in {"after", "read"} /\ rr.odd < MaxOdd /\ svc.held = Blob
  /\ \E held \in {<<>>, Corrupt} :
       /\ svc' = [svc EXCEPT !.held = held]
       /\ rr' = [rr EXCEPT !.odd = rr.odd + 1, !.left = IF At("read") /\ rr.downloaded = <<>> THEN held ELSE rr.left]
  /\ UNCHANGED line

HelperStep == \/ Arguments \/ Connect \/ check_capabilities
              \/ FindMissingBefore \/ Write \/ FindMissingAfter \/ Read \/ Compare
RNext == HelperStep \/ Rot

-----------------------------------------------------------------------------
(* What makes a service fit, told from what it is and not from what it sends.    *)
Fit(c) ==
  /\ SHA256 \in ToSet(c.cache) /\ c.update /\ c.exec
  /\ SHA256 \in {c.digest} \cup ToSet(c.digests)
  /\ c.low[1] <= 2 /\ 2 <= c.high[1] /\ ~Before(c.high, c.low)
=============================================================================
