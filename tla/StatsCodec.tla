---------------------------- MODULE StatsCodec ------------------------------
(***************************************************************************)
(* internal/v2rayapi/v2rayapi.go: the hand-written protocol buffer codec   *)
(* for the messages of the sing-box statistics service.  A byte carries a  *)
(* digit of base Base (128 in the code) and, from Base on, the mark that   *)
(* another byte follows.  A 64-bit number fills nine digits and one bit of *)
(* a tenth; a smaller Base keeps that shape and makes small numbers long.  *)
(***************************************************************************)
EXTENDS Naturals, Sequences, SequencesExt

CONSTANT Base

ASSUME StatsCodecAssumption == Base \in Nat \ {0, 1}

Digits == 10                           \* shift < 64

\* What a digit counts: 1 << shift.
place[shift \in 0..Digits] == IF shift = 0 THEN 1 ELSE Base * place[shift - 1]

Uint == 2 * place[Digits - 1]          \* 2^64

wireVarint == 0
wireFixed64 == 1
wireBytes == 2
wireFixed32 == 5

Fail == [ok |-> FALSE]
Read(value, rest) == [ok |-> TRUE, value |-> value, rest |-> rest]
-----------------------------------------------------------------------------
(* Encoding. *)

appendVarint(v) ==
    LET digits[n \in Nat] ==
          IF n >= Base THEN <<Base + (n % Base)>> \o digits[n \div Base] ELSE <<n>>
    IN  digits[v]

appendTag(field, wire) == appendVarint(8 * field + wire)

\* appendStringElement and appendMessageField: always there, with their length.
appendElement(field, text) ==
    appendTag(field, wireBytes) \o appendVarint(Len(text)) \o text

\* appendStringField, appendInt64Field and appendBoolField leave out the default.
appendStringField(field, text) == IF text = <<>> THEN <<>> ELSE appendElement(field, text)
appendIntField(field, v) ==
    IF v = 0 THEN <<>> ELSE appendTag(field, wireVarint) \o appendVarint(v)

MarshalStat(stat) == appendStringField(1, stat.name) \o appendIntField(2, stat.value)

\* Only Patterns is ever set.
MarshalQueryStatsRequest(patterns) ==
    FlattenSeq([i \in DOMAIN patterns |-> appendElement(3, patterns[i])])

MarshalQueryStatsResponse(list) ==
    FlattenSeq([i \in DOMAIN list |-> appendElement(1, MarshalStat(list[i]))])
-----------------------------------------------------------------------------
(* Decoding. *)

\* The rest of data after what was read as n.
After(n, data) == IF n.ok THEN Read(n.value, SubSeq(data, n.size + 1, Len(data))) ELSE Fail

\* The digits up to the first byte without the mark; bits beyond the 64th are lost.
varint(data) ==
    LET more(n, digit) == IF n.ok THEN [n EXCEPT !.value = (@ + digit) % Uint] ELSE Fail
        from[shift \in 0..Digits] ==
          IF shift = Digits \/ shift >= Len(data) THEN Fail
          ELSE LET b == data[shift + 1]
                   digit == (b % Base) * place[shift]
               IN  IF b < Base THEN [ok |-> TRUE, value |-> digit, size |-> shift + 1]
                   ELSE more(from[shift + 1], digit)
    IN  After(from[0], data)

\* As many bytes as a length that was read says.
Take(n) ==
    IF ~n.ok \/ n.value > Len(n.rest) THEN Fail
    ELSE Read(SubSeq(n.rest, 1, n.value), SubSeq(n.rest, n.value + 1, Len(n.rest)))

bytes(data) == Take(varint(data))

\* Mutant of payload: a fixed32 field cannot be skipped.
payloadNoFixed32(wire, data) ==
    CASE wire = wireVarint -> varint(data)
      [] wire = wireBytes -> bytes(data)
      [] wire = wireFixed64 /\ Len(data) >= 8 -> Read(<<>>, SubSeq(data, 9, Len(data)))
      [] OTHER -> Fail

\* A payload by its wire type: what the Unmarshal methods read of a field they
\* know, and what skip reads of one they do not.  Groups are not supported.
payload(wire, data) ==
    CASE wire = wireVarint -> varint(data)
      [] wire = wireBytes -> bytes(data)
      [] wire = wireFixed64 /\ Len(data) >= 8 -> Read(<<>>, SubSeq(data, 9, Len(data)))
      [] wire = wireFixed32 /\ Len(data) >= 4 -> Read(<<>>, SubSeq(data, 5, Len(data)))
      [] OTHER -> Fail

\* One round of the loop of the Unmarshal methods: a field and what follows it.
OneField(data) ==
    LET read(key, body) ==
          IF ~body.ok THEN Fail
          ELSE Read([field |-> key \div 8, wire |-> key % 8, value |-> body.value], body.rest)
        open(key) ==
          IF key.ok THEN read(key.value, payload(key.value % 8, key.rest)) ELSE Fail
    IN  open(varint(data))

\* The whole loop: the fields of a message, in order.
Fields(data) ==
    LET whole(fields) == [ok |-> TRUE, fields |-> fields]
        add(field, more) == IF more.ok THEN whole(<<field>> \o more.fields) ELSE Fail
        from[left \in 0..Len(data)] ==      \* the last bytes of data
          LET next(f) == IF f.ok THEN add(f.value, from[Len(f.rest)]) ELSE Fail
          IN  IF left = 0 THEN whole(<<>>)
              ELSE next(OneField(SubSeq(data, Len(data) - left + 1, Len(data))))
    IN  from[Len(data)]

\* A field of the expected wire type; another wire type is skipped.
Is(f, field, wire) == f.field = field /\ f.wire = wire

\* The values of a repeated field.
ValuesOf(fields, field, wire) ==
    LET values[k \in 0..Len(fields)] ==
          IF k = 0 THEN <<>>
          ELSE IF Is(fields[k], field, wire) THEN Append(values[k - 1], fields[k].value)
          ELSE values[k - 1]
    IN  values[Len(fields)]

\* A field that comes again replaces the earlier one.
LastOf(fields, field, wire, default) ==
    LET at == {k \in DOMAIN fields : Is(fields[k], field, wire)}
    IN  IF at = {} THEN default ELSE fields[Max(at)].value

StatOf(d) ==
    IF ~d.ok THEN Fail
    ELSE [ok |-> TRUE, name |-> LastOf(d.fields, 1, wireBytes, <<>>),
          value |-> LastOf(d.fields, 2, wireVarint, 0)]

UnmarshalStat(data) == StatOf(Fields(data))

\* The patterns of a request.
PatternsOf(d) ==
    IF d.ok THEN [ok |-> TRUE, patterns |-> ValuesOf(d.fields, 3, wireBytes)] ELSE Fail

UnmarshalQueryStatsRequest(data) == PatternsOf(Fields(data))

\* The Stats of a response, none of which may fail to decode.
AllOf(list) == IF \A i \in DOMAIN list : list[i].ok THEN [ok |-> TRUE, stats |-> list] ELSE Fail

StatsOf(d) ==
    LET list(parts) == [i \in DOMAIN parts |-> UnmarshalStat(parts[i])]
    IN  IF d.ok THEN AllOf(list(ValuesOf(d.fields, 1, wireBytes))) ELSE Fail

UnmarshalQueryStatsResponse(data) == StatsOf(Fields(data))
=============================================================================
