-------------------------------- MODULE Codec --------------------------------
(***************************************************************************)
(* One record from a sender to a receiver: a message becomes metadata, the *)
(* metadata and a payload a record, the record bytes; a carrier may hand   *)
(* over fewer or more bytes than were written; the receiver decodes the    *)
(* record and reads the message back.  Beside it, the metadata parser on   *)
(* written values of which a few lexemes were changed, and the body of a   *)
(* carrier that may be cut short.                                          *)
(***************************************************************************)
EXTENDS CarrierBodies

CONSTANTS
  Samples,        \* for every field type, the values a sender may write
  Payloads, Paddings,
  Values,         \* what the parser's input is written from
  Lexemes,        \* what a change may put there
  MaxEdits,       \* bound: changes to one input
  Batches,        \* the envelopes one body may be asked to carry
  Damages         \* what may happen on the way

VARIABLES
  entry,     \* which of the four this behaviour is about
  sent,      \* <<>> or <<[kind, message, record]>>
  wire,      \* <<>> or <<units>>, what `encode` wrote
  damage,    \* what happened to it
  received,  \* <<>> or <<result of decode>>
  message,   \* <<>> or <<result of from_canonical>>
  input,     \* lexemes
  edits,     \* how many changes they saw
  body       \* <<>>, or a carrier's [carrier, envelopes, units]

recordVars == <<sent, wire, damage, received, message>>
vars == <<entry, recordVars, input, edits, body, sseVars>>

Init ==
  /\ entry \in {"record", "input", "body", "events"}
  /\ body = <<>> /\ SseInit
  /\ sent = <<>> /\ wire = <<>> /\ damage = "none" /\ received = <<>> /\ message = <<>>
  /\ input \in IF entry = "input" THEN {ToBytes(v) : v \in Values} ELSE {<<>>}
  /\ edits = 0

Usual(kind) == [f \in DOMAIN Schema[kind] |-> Head(Samples[Schema[kind][f]])]
\* The messages of a kind that differ from the usual one in one field.
MessagesOf(kind) ==
  {Usual(kind)} \cup
  UNION {{[Usual(kind) EXCEPT ![f] = Samples[Schema[kind][f]][i]] : i \in DOMAIN Samples[Schema[kind][f]]} :
           f \in DOMAIN Schema[kind]}

Metadata(kind, m) ==
  IF kind \in Signed THEN WithMac(ToCanonical(kind, m), "mac") ELSE ToCanonical(kind, m)

\* `Record::new` or `with_payload`, then `encode`; a record over a bound is not sent.
Send ==
  /\ entry = "record" /\ sent = <<>>
  /\ \E kind \in DOMAIN Schema :
       \E m \in MessagesOf(kind), payload \in Payloads, padding \in Paddings :
         LET r == [kind |-> kind, metadata |-> Metadata(kind, m), payload |-> payload, padding_len |-> padding]
         IN  /\ sent' = <<[kind |-> kind, message |-> m, record |-> r]>>
             /\ wire' = Encode(r)
  /\ UNCHANGED <<entry, damage, received, message, input, edits, body, sseVars>>

\* A body cut short, a body with bytes after the record, or a sender that leaves a
\* field out.
Damage(d) ==
  /\ wire # <<>> /\ damage = "none" /\ received = <<>>
  /\ damage' = d
  /\ \/ d = "cut" /\ \E n \in 0..(Len(wire[1]) - 1) : wire' = <<SubSeq(wire[1], 1, n)>>
     \/ d = "trailing" /\ \E b \in 0..1 : wire' = <<wire[1] \o [i \in 1..(1 + 10 * b) |-> Byte(b)]>>
     \/ /\ d = "field"
        /\ \E f \in DOMAIN sent[1].record.metadata.obj :
             LET map == sent[1].record.metadata.obj
             IN  wire' = Encode([sent[1].record EXCEPT !.metadata = Obj([k \in DOMAIN map \ {f} |-> map[k]])])
  /\ UNCHANGED <<entry, sent, received, message, input, edits, body, sseVars>>

Receive ==
  /\ wire # <<>> /\ received = <<>>
  /\ received' = <<Decode(wire[1])>>
  /\ message' = IF received'[1] = Refused THEN <<Refused>>
                ELSE LET r == received'[1][1]
                     IN  IF r.kind \in Signed /\ HexField(Field(r.metadata, "mac"), 32) = Refused THEN <<Refused>>
                         ELSE <<FromCanonical(r.kind, r.metadata)>>
  /\ UNCHANGED <<entry, sent, wire, damage, input, edits, body, sseVars>>

\* One lexeme inserted, left out or replaced.
Edit ==
  /\ entry = "input" /\ edits < MaxEdits
  /\ edits' = edits + 1
  /\ \E i \in 1..(Len(input) + 1) :
       \/ \E tok \in Lexemes : input' = InsertAt(input, i, tok)
       \/ i <= Len(input) /\ input' = RemoveAt(input, i)
       \/ i <= Len(input) /\ \E tok \in Lexemes : input' = ReplaceAt(input, i, tok)
  /\ UNCHANGED <<entry, recordVars, body, sseVars>>

Carriers == {"ws", "post", "sse", "json", "html", "css", "js"}
\* `Carrier::encode` and `Carrier::decode`.
BodyEncode(carrier, envelopes) ==
  CASE carrier = "ws" -> WsEncode(envelopes)
    [] carrier = "post" -> PostEncode(envelopes)
    [] carrier = "sse" ->
         LET parts == [i \in DOMAIN envelopes |-> SseEvent(envelopes[i], <<Lf>>)]
         IN  IF Refused \in Range(parts) THEN Refused ELSE <<FoldLeft(LAMBDA out, p : out \o p[1], <<>>, parts)>>
    [] carrier = "json" -> JsonEncode(envelopes)
    [] OTHER -> TemplateEncode(carrier, envelopes)
BodyDecode(carrier, units) ==
  CASE carrier = "ws" -> WsDecode(units)
    [] carrier = "post" -> PostDecode(units)
    [] carrier = "sse" -> SseDecode(units)
    [] carrier = "json" -> JsonDecode(units)
    [] OTHER -> TemplateDecode(carrier, units)

Carry ==
  /\ entry = "body" /\ body = <<>>
  /\ \E c \in Carriers, envelopes \in Batches :
       LET units == BodyEncode(c, envelopes)
       IN  units # Refused /\ body' = <<[carrier |-> c, envelopes |-> envelopes, units |-> units[1], whole |-> TRUE]>>
  /\ UNCHANGED <<entry, recordVars, input, edits, sseVars>>

CutBody ==
  /\ body # <<>> /\ body[1].whole
  /\ \E n \in 0..(Len(body[1].units) - 1) :
       body' = <<[body[1] EXCEPT !.units = SubSeq(body[1].units, 1, n), !.whole = FALSE]>>
  /\ UNCHANGED <<entry, recordVars, input, edits, sseVars>>

Events == entry = "events" /\ SseNext /\ UNCHANGED <<entry, recordVars, input, edits, body>>

Next == Send \/ (\E d \in Damages : Damage(d)) \/ Receive \/ Edit \/ Carry \/ CutBody \/ Events
Spec == Init /\ [][Next]_vars

(***************************************************************************)
(* Properties                                                              *)
(***************************************************************************)
\* What is read is what was written: whatever `encode` accepted, `decode` accepts and
\* returns unchanged (canon.rs, record.rs), and `from_canonical` finds the fields
\* `to_canonical` was given, except that a time before 1970 became 0.  No part of a
\* record reads as a record, nor does a record with bytes after it, and a message
\* without one of its fields is refused unless the field is optional.
ReadsBackAsWritten ==
  received # <<>> =>
    LET clamped(type, x) == IF type = "instant" THEN Max({x, 0}) ELSE x
        s == sent[1]
    IN  /\ damage = "none" =>
             /\ received[1] = <<s.record>>
             /\ message[1] = <<[f \in DOMAIN s.message |-> clamped(Schema[s.kind][f], s.message[f])]>>
             /\ s.kind \in Signed => ToCanonical(s.kind, message[1][1]) = ToCanonical(s.kind, s.message)
        /\ damage \in {"cut", "trailing"} => received[1] = Refused
        /\ damage = "field" /\ message[1] # Refused =>
             \A f \in DOMAIN Schema[s.kind] :
               Field(received[1][1].metadata, f) = Absent => Schema[s.kind][f] = "optional"

\* Whatever the parser accepts has one written form (canon.rs: "encoding a parsed
\* value reproduces the exact input bytes that a conforming peer would have
\* produced"): what `to_bytes` writes for it parses to the same value, and holds
\* every lexeme of the input but its whitespace, so nothing was dropped on the way;
\* and it nests no deeper than the parser descends.
AcceptedHasOneForm ==
  entry = "input" /\ ~Failed(FromBytes(input)) =>
    LET v == FromBytes(input)
    IN  /\ FromBytes(ToBytes(v)) = v
        /\ Len(ToBytes(v)) = Len(SelectSeq(input, LAMBDA tok : tok # Ws))
        /\ Depth(v) <= MAX_CANON_DEPTH + 1

\* A body gives back the envelopes it was made of, in order; one that was cut short
\* gives back a prefix of them or is refused, and never an envelope that was not
\* sent.  A WebSocket message is cut by no carrier: the library hands over whole ones.
BodyGivesBackItsEnvelopes ==
  body # <<>> =>
    LET b == body[1]
        decoded == BodyDecode(b.carrier, b.units)
    IN  /\ b.whole => decoded = <<b.envelopes>>
        /\ ~b.whole /\ b.carrier # "ws" => decoded = Refused \/ IsPrefix(decoded[1], b.envelopes)
=============================================================================
