-------------------------------- MODULE Wire --------------------------------
(* The protobuf wire format, as infra/remote-execution/scripts/reapi_readiness  *)
(* writes and reads it.  A byte is a number below 2 * Radix; Radix stands for    *)
(* 2^7, what one byte of a varint carries, and the byte at or above it for one   *)
(* with the continuation bit.  A decoder gives the set of its results: one, or   *)
(* none where the program raises CheckFailure.                                   *)
EXTENDS Integers, SequencesExt

CONSTANTS Radix,      \* 2^7
          MaxDigits,  \* the bytes of a varint: 10
          MaxTop,     \* what the last of them may be: 1
          MaxField,   \* 2^29 - 1
          Fixed64, Fixed32,   \* 8 and 4 bytes
          Hashes              \* the byte strings that are a SHA-256 in hexadecimal

ASSUME WireAssumption ==
  /\ Radix \in Nat /\ Radix > 5 /\ {MaxDigits, MaxTop, MaxField, Fixed64, Fixed32} \subseteq Nat
  /\ \A h \in Hashes : \A i \in DOMAIN h : h[i] \in 0..(2 * Radix - 1)

RECURSIVE encode_varint(_)
encode_varint(value) ==
  IF value < Radix THEN <<value>>
  ELSE <<(value % Radix) + Radix>> \o encode_varint(value \div Radix)

encode_key(number, wire) == encode_varint(number * 8 + wire)
encode_int(number, value) == encode_key(number, 0) \o encode_varint(value)
encode_bytes(number, value) == encode_key(number, 2) \o encode_varint(Len(value)) \o value
encode_digest(digest) == encode_bytes(1, digest.hash) \o encode_int(2, digest.size)

RECURSIVE Value(_)
Value(digits) == IF digits = <<>> THEN 0 ELSE (Head(digits) % Radix) + Radix * Value(Tail(digits))

(* The varint at the head of data, and what is left of it. *)
decode_varint(data) ==
  LET ends == {n \in 1..Len(data) : data[n] < Radix /\ \A i \in 1..(n - 1) : data[i] >= Radix}
  IN  {[value |-> Value(SubSeq(data, 1, n)),
        rest  |-> SubSeq(data, n + 1, Len(data))] :
         n \in {e \in ends : e < MaxDigits \/ (e = MaxDigits /\ data[e] <= MaxTop)}}

Slice(number, wire, length, data) ==
  {[field |-> [number |-> number, wire |-> wire, int |-> 0, bytes |-> SubSeq(data, 1, n)],
    rest  |-> SubSeq(data, n + 1, Len(data))] : n \in {length} \cap 0..Len(data)}

FieldOfKey(key, data) ==
  LET number == key \div 8
      wire == key % 8
  IN  IF number \notin 1..MaxField THEN {}
      ELSE CASE wire = 0 -> {[field |-> [number |-> number, wire |-> 0, int |-> v.value, bytes |-> <<>>],
                         rest |-> v.rest] : v \in decode_varint(data)}
        [] wire = 1 -> Slice(number, 1, Fixed64, data)
        [] wire = 2 -> UNION {Slice(number, 2, v.value, v.rest) : v \in decode_varint(data)}
        [] wire = 5 -> Slice(number, 5, Fixed32, data)
        [] OTHER    -> {}

RECURSIVE parse_fields(_)
parse_fields(data) ==
  IF data = <<>> THEN {<<>>}
  ELSE UNION {{<<f.field>> \o later : later \in parse_fields(f.rest)} :
                f \in UNION {FieldOfKey(k.value, k.rest) : k \in decode_varint(data)}}

-----------------------------------------------------------------------------
(* What a message holds under a number. *)
Under(fields, number) == SelectSeq(fields, LAMBDA f : f.number = number)
OfWire(fields, wire) == \A i \in DOMAIN fields : fields[i].wire = wire

bytes_fields(fields, number) ==
  {[i \in DOMAIN fs |-> fs[i].bytes] : fs \in {u \in {Under(fields, number)} : OfWire(u, 2)}}
int_fields(fields, number) ==
  {[i \in DOMAIN fs |-> fs[i].int] : fs \in {u \in {Under(fields, number)} : OfWire(u, 0)}}

one_bytes(fields, number) == {v[1] : v \in {w \in bytes_fields(fields, number) : Len(w) = 1}}
one_int(fields, number) == {v[1] : v \in {w \in int_fields(fields, number) : Len(w) = 1}}
optional_int(fields, number) ==
  {IF v = <<>> THEN 0 ELSE v[1] : v \in {w \in int_fields(fields, number) : Len(w) < 2}}

RECURSIVE varints(_)
varints(data) ==
  IF data = <<>> THEN {{}}
  ELSE UNION {{{d.value} \cup later : later \in varints(d.rest)} : d \in decode_varint(data)}

\* Mutation: the packed form of a repeated enum is refused.
enum_values_unpacked(fields, number) ==
  {{v[i] : i \in DOMAIN v} : v \in int_fields(fields, number)}
(* A repeated enum, one field for each value or all of them packed in one. *)
enum_values(fields, number) ==
  LET fs == Under(fields, number)
      values(f) == CASE f.wire = 0 -> {{f.int}} [] f.wire = 2 -> varints(f.bytes) [] OTHER -> {}
      each == {values(fs[i]) : i \in DOMAIN fs}
  IN  IF {} \in each THEN {} ELSE {UNION UNION each}

decode_digest(data) ==
  UNION {{[hash |-> h, size |-> s] : h \in one_bytes(fields, 1) \cap Hashes,
                                     s \in one_int(fields, 2)} : fields \in parse_fields(data)}
=============================================================================
