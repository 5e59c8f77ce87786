------------------------------ MODULE Messages ------------------------------
(***************************************************************************)
(* The canonical metadata codec (wsnet-protocol, canon.rs), the schema of  *)
(* every message kind (wsnet-session, message.rs) with the conversions     *)
(* between a message's fields and its metadata, and the records that carry *)
(* it.                                                                     *)
(*                                                                         *)
(* A metadata value is a record with one field naming its variant.  The    *)
(* parser's input is a sequence of lexemes rather than of bytes: a         *)
(* punctuation mark, a run of whitespace, a literal, a number as written   *)
(* or a string as written.  A length is therefore a number of lexemes.     *)
(*                                                                         *)
(* A text is a record saying what it spells: a decimal integer, so many    *)
(* bytes of hex, or a word.  A schema gives the type of every field, and a *)
(* type how a field is written and what is read back from a value found    *)
(* in its place.                                                           *)
(***************************************************************************)
EXTENDS Destinations, Integers, Sequences, SequencesExt, FiniteSetsExt

CONSTANTS
  MAX_METADATA,      \* the metadata bound, in lexemes
  MAX_CANON_DEPTH,   \* open containers the parser accepts
  IntMax,            \* i64::MAX, scaled down
  KeyOrder           \* the object keys in use, in the order of BTreeMap<String, _>

Null == [null |-> TRUE]
Bool(b) == [bool |-> b]
Integer(i) == [int |-> i]
Str(text) == [str |-> text]
Arr(items) == [arr |-> items]
Obj(map) == [obj |-> map]
Has(v, variant) == variant \in DOMAIN v

Punct(c) == [p |-> c]
Ws == [ws |-> TRUE]
\* A number as written: its sign, its digits, and the `.` or `e` after them.
Num(neg, digits, tail) == [neg |-> neg, digits |-> digits, tail |-> tail]
\* A string as written: code points, or the escapes `\x` and `\uXXXX`.
Quoted(units) == [units |-> units]
Raw(cp) == [raw |-> cp]
Esc(letter) == [esc |-> letter]
Hex4(unit) == [hex4 |-> unit]

\* The two-character escapes, and the code points they stand for.
ShortEscape == [b |-> 8, f |-> 12, n |-> 10, r |-> 13, t |-> 9]
EscapeValue == ShortEscape @@ ("quote" :> 34) @@ ("backslash" :> 92) @@ ("slash" :> 47)

\* A text of a message field is one whose characters need no escape, and stands
\* for itself; a text given by its code points is written one by one.
WriteJsonString(text) ==
  IF ~Has(text, "cps") THEN [plain |-> text]
  ELSE Quoted([i \in DOMAIN text.cps |->
         LET c == text.cps[i]
         IN  IF c = 34 THEN Esc("quote")
             ELSE IF c = 92 THEN Esc("backslash")
             ELSE IF c \in Range(ShortEscape) THEN Esc(CHOOSE e \in DOMAIN ShortEscape : ShortEscape[e] = c)
             ELSE IF c < 32 THEN Hex4(c)
             ELSE Raw(c)])

RECURSIVE DigitsOf(_)
DigitsOf(n) == IF n < 10 THEN <<n>> ELSE DigitsOf(n \div 10) \o <<n % 10>>
WriteInt(i) == Num(i < 0, DigitsOf(IF i < 0 THEN -i ELSE i), "")

\* The keys of an object in the order the map iterates.
SortedKeys(map) == SelectSeq(KeyOrder, LAMBDA k : k \in DOMAIN map)

Intersperse(parts) ==
  FoldLeftDomain(LAMBDA acc, i : acc \o (IF i > 1 THEN <<Punct(",")>> ELSE <<>>) \o parts[i], <<>>, parts)

RECURSIVE ToBytes(_)
ToBytes(v) ==
  CASE Has(v, "int") -> <<WriteInt(v.int)>>
    [] Has(v, "str") -> <<WriteJsonString(v.str)>>
    [] Has(v, "arr") -> <<Punct("[")>> \o Intersperse([i \in DOMAIN v.arr |-> ToBytes(v.arr[i])]) \o <<Punct("]")>>
    [] Has(v, "obj") ->
         LET keys == SortedKeys(v.obj)
         IN  <<Punct("{")>>
             \o Intersperse([i \in DOMAIN keys |->
                  <<WriteJsonString([word |-> keys[i]]), Punct(":")>> \o ToBytes(v.obj[keys[i]])])
             \o <<Punct("}")>>
    [] OTHER -> <<v>>

RECURSIVE Depth(_)
Depth(v) ==
  CASE Has(v, "arr") -> 1 + Max({0} \cup {Depth(v.arr[i]) : i \in DOMAIN v.arr})
    [] Has(v, "obj") -> 1 + Max({0} \cup {Depth(v.obj[k]) : k \in DOMAIN v.obj})
    [] OTHER -> 1

(***************************************************************************)
(* The parser.  A result is the value and the position after it, or Fail;  *)
(* which error is reported is left out.                                    *)
(***************************************************************************)
Fail == [fail |-> TRUE]
Failed(r) == Has(r, "fail")
Done(v, pos) == [v |-> v, pos |-> pos]

Peek(in, pos) == IF pos <= Len(in) THEN in[pos] ELSE Fail

RECURSIVE SkipWs(_, _)
SkipWs(in, pos) == IF Peek(in, pos) = Ws THEN SkipWs(in, pos + 1) ELSE pos

\* A leading zero, a fraction or an exponent, and a value outside i64 are refused.
ParseNumber(n) ==
  LET magnitude == FoldLeft(LAMBDA acc, d : 10 * acc + d, 0, n.digits)
      value == IF n.neg THEN -magnitude ELSE magnitude
  IN  IF \/ n.digits = <<>> \/ n.tail # ""
         \/ n.digits[1] = 0 /\ Len(n.digits) > 1
         \/ value > IntMax \/ value < -IntMax - 1
      THEN Fail ELSE Integer(value)

High == 55296..56319
Low == 56320..57343

\* The code points a string stands for, a surrogate pair joined into one.
RECURSIVE Unescape(_)
Unescape(units) ==
  IF units = <<>> THEN <<>>
  ELSE LET u == Head(units)
           pair == Has(u, "hex4") /\ u.hex4 \in High
           rest == Unescape(SubSeq(units, IF pair THEN 3 ELSE 2, Len(units)))
           cp == IF Has(u, "raw") THEN u.raw
                 ELSE IF Has(u, "esc") THEN EscapeValue[u.esc]
                 ELSE IF pair THEN 65536 + (u.hex4 - 55296) * 1024 + (units[2].hex4 - 56320)
                 ELSE u.hex4
       IN  <<cp>> \o rest

\* A raw control character, an unknown escape and a lone surrogate are refused.
StringIsValid(units) ==
  \A i \in DOMAIN units :
    LET u == units[i]
        follows(S) == i < Len(units) /\ Has(units[i + 1], "hex4") /\ units[i + 1].hex4 \in S
        preceded == i > 1 /\ Has(units[i - 1], "hex4") /\ units[i - 1].hex4 \in High
    IN  /\ Has(u, "raw") => u.raw >= 32
        /\ Has(u, "esc") => u.esc \in DOMAIN EscapeValue
        /\ Has(u, "hex4") => /\ u.hex4 \in High => follows(Low)
                             /\ u.hex4 \in Low => preceded

ParseString(tok) ==
  IF Has(tok, "plain") THEN tok.plain
  ELSE IF StringIsValid(tok.units) THEN [cps |-> Unescape(tok.units)]
  ELSE Fail

IsString(tok) == Has(tok, "plain") \/ Has(tok, "units")

MutInsertKey(map, key, v) == (key :> v) @@ map

\* `map.insert(key, value)`: a key that was there already is refused.
InsertKey(map, key, v) == IF key \in DOMAIN map THEN Fail ELSE (key :> v) @@ map

RECURSIVE ParseValue(_, _, _)
RECURSIVE ParseItems(_, _, _, _)
RECURSIVE ParseEntries(_, _, _, _)

\* `parse_array` after its bracket: one item, then a comma or the closing bracket.
ParseItems(in, pos, depth, items) ==
  LET r == ParseValue(in, SkipWs(in, pos), depth)
      at == SkipWs(in, r.pos)
  IN  IF Failed(r) THEN Fail
      ELSE IF Peek(in, at) = Punct(",") THEN ParseItems(in, at + 1, depth, Append(items, r.v))
      ELSE IF Peek(in, at) = Punct("]") THEN Done(Arr(Append(items, r.v)), at + 1)
      ELSE Fail

\* `parse_object` after its brace.  The keys of metadata are plain texts.
ParseEntries(in, pos, depth, map) ==
  LET at == SkipWs(in, pos)
      tok == Peek(in, at)
      key == ParseString(tok)
      colon == SkipWs(in, at + 1)
      r == ParseValue(in, SkipWs(in, colon + 1), depth)
      next == SkipWs(in, r.pos)
      grown == InsertKey(map, key.word, r.v)
  IN  IF ~Has(tok, "plain") \/ Peek(in, colon) # Punct(":") THEN Fail
      ELSE IF Failed(r) THEN Fail
      ELSE IF Failed(grown) THEN Fail
      ELSE IF Peek(in, next) = Punct(",") THEN ParseEntries(in, next + 1, depth, grown)
      ELSE IF Peek(in, next) = Punct("}") THEN Done(Obj(grown), next + 1)
      ELSE Fail

ParseValue(in, pos, depth) ==
  LET tok == Peek(in, pos)
      inside == SkipWs(in, pos + 1)
      scalar(v) == IF Failed(v) THEN Fail ELSE Done(v, pos + 1)
  IN  CASE Has(tok, "null") \/ Has(tok, "bool") -> Done(tok, pos + 1)
        [] Has(tok, "digits") -> scalar(ParseNumber(tok))
        [] IsString(tok) -> LET s == ParseString(tok)
                            IN  IF Failed(s) THEN Fail ELSE Done(Str(s), pos + 1)
        [] tok \in {Punct("["), Punct("{")} /\ depth >= MAX_CANON_DEPTH -> Fail
        [] tok = Punct("[") /\ Peek(in, inside) = Punct("]") -> Done(Arr(<<>>), inside + 1)
        [] tok = Punct("[") -> ParseItems(in, inside, depth + 1, <<>>)
        [] tok = Punct("{") /\ Peek(in, inside) = Punct("}") -> Done(Obj(<<>>), inside + 1)
        [] tok = Punct("{") -> ParseEntries(in, inside, depth + 1, <<>>)
        [] OTHER -> Fail

\* `from_bytes_bounded`: the bound first, then one value and nothing after it.
FromBytesBounded(in, limit) ==
  LET r == ParseValue(in, SkipWs(in, 1), 0)
  IN  IF Len(in) > limit THEN Fail
      ELSE IF Failed(r) THEN Fail
      ELSE IF SkipWs(in, r.pos) # Len(in) + 1 THEN Fail
      ELSE r.v

FromBytes(in) == FromBytesBounded(in, MAX_METADATA)

-----------------------------------------------------------------------------
(* Message schemas. *)
CONSTANTS
  WordMax,   \* u64::MAX, scaled down; i64::MAX is IntMax
  ByteMax,   \* u8::MAX, scaled down
  PortMax    \* u16::MAX, scaled down

Word(w) == Str([word |-> w])
Decimal(n) == Str([dec |-> n])
HexText(bytes, width) == Str([hex |-> bytes, width |-> width])

Protos == {"tcp", "udp"}
Statuses == {"ok", "refused", "denied", "offline", "unreachable", "timeout", "conflict"}
Reasons == {"protocol_error", "timeout", "canceled", "overflow", "unreachable"}

AuthFields ==
  [attempt_id |-> "hex16", capabilities |-> "texts", hub_id |-> "text", key_id |-> "text",
   node_id |-> "text", nonce |-> "hex32", ts |-> "instant", version |-> "version"]
AuthOkFields ==
  [attempt_id |-> "hex16", capabilities |-> "texts", expires_at |-> "instant",
   server_nonce |-> "hex32", session_epoch |-> "hex16", session_id |-> "hex16"]
ServiceRegistration == [name |-> "text", proto |-> "proto", target |-> "text"]
HelloFields == [capabilities |-> "texts", request_id |-> "hex16", services |-> "services"]
HelloOkFields == [capabilities |-> "texts", request_id |-> "hex16"]
OpenFields ==
  [destination |-> "destination", proto |-> "proto", request_id |-> "hex16",
   stream_id |-> "dec", via |-> "texts"]
OpenResultFields ==
  [detail |-> "optional", request_id |-> "hex16", status |-> "status", stream_id |-> "dec"]
DataFields == [offset |-> "dec", stream_id |-> "dec"]
DatagramFields ==
  [association_id |-> "dec", datagram_id |-> "dec", host |-> "host", port |-> "port",
   remaining_ttl_ms |-> "dec", stream_id |-> "dec"]
FinFields == [final_offset |-> "dec", stream_id |-> "dec"]
ResetFields == [reason |-> "reason", stream_id |-> "dec"]
ReadyFields == [stream_id |-> "dec"]
ProgressFields ==
  [consumed_offset |-> "dec", limit_offset |-> "dec", received_offset |-> "dec", stream_id |-> "dec"]
ResumeFields == [received_offset |-> "dec", stream_id |-> "dec"]
CancelCandidateFields == [attempt_id |-> "hex16"]
ByeFields == [reason |-> "optional"]
EmptyMetadata == <<>>

\* The kinds in wire order: `as_u8` is the position, `from_u8` the kind there.
Kinds ==
  <<"Auth", "AuthOk", "Hello", "HelloOk", "Open", "OpenResult", "QueryResult", "Ready", "Progress",
    "Resume", "CancelCandidate", "Bye", "Ping", "Pong", "PeerList", "Data", "Datagram", "Fin", "Reset">>
KindNumber(kind) == CHOOSE n \in DOMAIN Kinds : Kinds[n] = kind

Schema ==
  [Auth |-> AuthFields, AuthOk |-> AuthOkFields, Hello |-> HelloFields, HelloOk |-> HelloOkFields,
   Open |-> OpenFields, OpenResult |-> OpenResultFields, QueryResult |-> OpenResultFields,
   Ready |-> ReadyFields, Progress |-> ProgressFields, Resume |-> ResumeFields,
   CancelCandidate |-> CancelCandidateFields, Bye |-> ByeFields, Ping |-> EmptyMetadata,
   Pong |-> EmptyMetadata, Data |-> DataFields, Datagram |-> DatagramFields, Fin |-> FinFields,
   Reset |-> ResetFields]

\* `Destination::to_canonical`: the revision of a service is written when there is one.
DestinationToCanonical(d) ==
  LET address == [host |-> Word(d.host), port |-> Integer(d.port), type |-> Word(d.type)]
      service == [name |-> Word(d.name), node |-> Word(d.node), type |-> Word(d.type)]
  IN  Obj(CASE d.type = "address" -> address
            [] d.type = "node_address" -> address @@ ("node" :> Word(d.node))
            [] d.type = "service" /\ d.revision = NoRevision -> service
            [] OTHER -> service @@ ("revision" :> Decimal(d.revision)))

Absent == [absent |-> TRUE]
Field(v, key) == IF Has(v, "obj") /\ key \in DOMAIN v.obj THEN v.obj[key] ELSE Absent
IsWord(v) == Has(v, "str") /\ Has(v.str, "word")
IsDecimal(v) == Has(v, "str") /\ Has(v.str, "dec") /\ v.str.dec <= WordMax

\* `Destination::from_canonical`.  A port that is absent or does not fit is 0, which
\* the validation at the end refuses.
DestinationFromCanonical(v) ==
  LET type == Field(v, "type")
      port == Field(v, "port")
      portOr0 == IF Has(port, "int") /\ port.int \in 0..PortMax THEN port.int ELSE 0
      revision == IF IsDecimal(Field(v, "revision")) THEN Field(v, "revision").str.dec ELSE NoRevision
      texts(keys) == \A k \in keys : IsWord(Field(v, k))
      word(k) == Field(v, k).str.word
      built == CASE type = Word("address") /\ texts({"host"}) -> Address(word("host"), portOr0)
                 [] type = Word("service") /\ texts({"node", "name"}) -> Service(word("node"), word("name"), revision)
                 [] type = Word("node_address") /\ texts({"node", "host"}) -> NodeAddress(word("node"), word("host"), portOr0)
                 [] OTHER -> Fail
  IN  IF Failed(built) THEN Fail
      ELSE IF DestinationIsValid(built) THEN built ELSE Fail

Words(items) == Arr([i \in DOMAIN items |-> Word(items[i])])

\* How a field of a type is written.  `ts` and `expires_at` are clamped at 0.
Written(type, x) ==
  CASE type = "hex16" -> HexText(x, 16)
    [] type = "hex32" -> HexText(x, 32)
    [] type \in {"dec", "port"} -> Decimal(x)
    [] type = "instant" -> Decimal(Max({x, 0}))
    [] type = "version" -> Integer(x)
    [] type = "texts" -> Words(x)
    [] type = "destination" -> DestinationToCanonical(x)
    [] type = "services" ->
         Arr([i \in DOMAIN x |-> Obj([f \in DOMAIN ServiceRegistration |-> Word(x[i][f])])])
    [] OTHER -> Word(x)

(***************************************************************************)
(* Reading.  A result is <<x>>, or <<>> when the field is refused.         *)
(***************************************************************************)
Refused == <<>>
OneOf(v, S) == IF IsWord(v) /\ v.str.word \in S THEN <<v.str.word>> ELSE Refused
HexField(v, width) ==
  IF Has(v, "str") /\ Has(v.str, "hex") /\ v.str.width = width THEN <<v.str.hex>> ELSE Refused
DecimalField(v) == IF IsDecimal(v) THEN <<v.str.dec>> ELSE Refused
StringField(v) == IF IsWord(v) THEN <<v.str.word>> ELSE Refused
StringList(v) ==
  IF Has(v, "arr") /\ \A i \in DOMAIN v.arr : IsWord(v.arr[i])
  THEN <<[i \in DOMAIN v.arr |-> v.arr[i].str.word]>> ELSE Refused
\* `decimal_field(..)? as i64`: the cast wraps.
InstantField(v) ==
  IF ~IsDecimal(v) THEN Refused
  ELSE <<IF v.str.dec > IntMax THEN v.str.dec - 2 * (IntMax + 1) ELSE v.str.dec>>
\* `get_i64(..)? as u8`: the cast keeps the low byte.
VersionField(v) == IF Has(v, "int") THEN <<v.int % (ByteMax + 1)>> ELSE Refused
MutDatagramPort(v) == IF IsDecimal(v) /\ v.str.dec \in 1..(PortMax - 1) THEN <<v.str.dec>> ELSE Refused

\* A datagram's host is not empty and its port is a non-zero u16.
DatagramHost(v) == IF IsWord(v) /\ v.str.word # NoText THEN <<v.str.word>> ELSE Refused
DatagramPort(v) == IF IsDecimal(v) /\ v.str.dec \in 1..PortMax THEN <<v.str.dec>> ELSE Refused
\* `detail` and a Bye's `reason`: absent or of another type, they are empty.
OptionalField(v) == IF IsWord(v) THEN <<v.str.word>> ELSE <<NoText>>
OpenDestination(v) ==
  IF v = Absent THEN Refused
  ELSE LET d == DestinationFromCanonical(v) IN IF Failed(d) THEN Refused ELSE <<d>>

ReadService(v) ==
  LET proto == OneOf(Field(v, "proto"), Protos)
      name == StringField(Field(v, "name"))
      target == StringField(Field(v, "target"))
  IN  IF Refused \in {proto, name, target} THEN Refused
      ELSE <<[name |-> name[1], proto |-> proto[1], target |-> target[1]]>>

ServiceList(v) ==
  IF Has(v, "arr") /\ \A i \in DOMAIN v.arr : ReadService(v.arr[i]) # Refused
  THEN <<[i \in DOMAIN v.arr |-> ReadService(v.arr[i])[1]]>> ELSE Refused

ReadField(type, v) ==
  CASE type = "hex16" -> HexField(v, 16)
    [] type = "hex32" -> HexField(v, 32)
    [] type = "dec" -> DecimalField(v)
    [] type = "instant" -> InstantField(v)
    [] type = "version" -> VersionField(v)
    [] type = "texts" -> StringList(v)
    [] type = "destination" -> OpenDestination(v)
    [] type = "services" -> ServiceList(v)
    [] type = "host" -> DatagramHost(v)
    [] type = "port" -> DatagramPort(v)
    [] type = "proto" -> OneOf(v, Protos)
    [] type = "status" -> OneOf(v, Statuses)
    [] type = "reason" -> OneOf(v, Reasons)
    [] type = "optional" -> OptionalField(v)
    [] OTHER -> StringField(v)

\* The metadata of a message, and the message read from metadata: every field of the
\* schema has to be readable, and a field the schema does not name is ignored.
ToCanonical(kind, m) == Obj([f \in DOMAIN Schema[kind] |-> Written(Schema[kind][f], m[f])])
FromCanonical(kind, v) ==
  LET read == [f \in DOMAIN Schema[kind] |-> ReadField(Schema[kind][f], Field(v, f))]
  IN  IF \E f \in DOMAIN read : read[f] = Refused THEN Refused
      ELSE <<[f \in DOMAIN read |-> read[f][1]]>>

\* Auth and AuthOk carry a MAC over every other field.
Signed == {"Auth", "AuthOk"}
WithMac(v, mac) == Obj(v.obj @@ ("mac" :> HexText(mac, 32)))

-----------------------------------------------------------------------------
(***************************************************************************)
(* Record framing (wsnet-protocol, record.rs):                             *)
(*                                                                         *)
(*   kind | metadata_len | metadata | payload_len | payload                *)
(*        | padding_len | padding                                          *)
(*                                                                         *)
(* A record on the wire is a sequence of units, each a byte or a lexeme of *)
(* the metadata; both count one towards a length.                          *)
(***************************************************************************)
CONSTANTS
  MAX_PADDING,
  MAX_RECORD_PLAINTEXT,
  MAX_TCP_PAYLOAD,
  MAX_UDP_PAYLOAD

Byte(n) == [byte |-> n]
Lexeme(tok) == [lex |-> tok]

\* `max_payload`: only Data and Datagram carry one.
MaxPayload(kind) ==
  CASE kind = "Data" -> MAX_TCP_PAYLOAD
    [] kind = "Datagram" -> MAX_UDP_PAYLOAD
    [] OTHER -> 0

RECORD_OVERHEAD == 1 + 4 + 4 + 2
EncodedLen(r) == RECORD_OVERHEAD + Len(ToBytes(r.metadata)) + Len(r.payload) + r.padding_len

\* What `encode` checks before it writes anything.
ValidateAgainst(r) ==
  /\ Len(ToBytes(r.metadata)) <= MAX_METADATA
  /\ Len(r.payload) <= MaxPayload(r.kind)
  /\ r.padding_len <= MAX_PADDING
  /\ EncodedLen(r) <= MAX_RECORD_PLAINTEXT

\* n in so many big-endian bytes, and back.
BigEndian(n, width) == [i \in 1..width |-> Byte((n \div 256^(width - i)) % 256)]
FromBigEndian(units) == FoldLeft(LAMBDA acc, u : acc * 256 + u.byte, 0, units)

EncodeInto(r) ==
  LET metadata == [i \in DOMAIN ToBytes(r.metadata) |-> Lexeme(ToBytes(r.metadata)[i])]
  IN  <<Byte(KindNumber(r.kind))>>
      \o BigEndian(Len(metadata), 4) \o metadata
      \o BigEndian(Len(r.payload), 4) \o [i \in DOMAIN r.payload |-> Byte(r.payload[i])]
      \o BigEndian(r.padding_len, 2) \o [i \in 1..r.padding_len |-> Byte(0)]

Encode(r) == IF ValidateAgainst(r) THEN <<EncodeInto(r)>> ELSE Refused

(***************************************************************************)
(* `decode_prefix`.  Each length is held against its bound before the      *)
(* slice it announces is taken; a slice that runs off the end is refused.  *)
(***************************************************************************)
Slice(in, at, len) == IF at + len <= Len(in) THEN <<SubSeq(in, at + 1, at + len)>> ELSE Refused
ReadLen(in, at, width) ==
  LET s == Slice(in, at, width)
  IN  IF s # Refused /\ \A i \in DOMAIN s[1] : Has(s[1][i], "byte") THEN <<FromBigEndian(s[1])>> ELSE Refused

\* A field of a declared length: its length within the limit and its slice present.
LenPrefixed(in, at, width, limit) ==
  LET len == ReadLen(in, at, width)
  IN  IF len = Refused THEN Refused
      ELSE IF len[1] > limit THEN Refused
      ELSE Slice(in, at + width, len[1])

DecodePrefix(in) ==
  LET kind == Kinds[in[1].byte]
      metadata == LenPrefixed(in, 1, 4, MAX_METADATA)
      value == FromBytes([i \in DOMAIN metadata[1] |-> metadata[1][i].lex])
      afterMetadata == 1 + 4 + Len(metadata[1])
      payload == LenPrefixed(in, afterMetadata, 4, MaxPayload(kind))
      afterPayload == afterMetadata + 4 + Len(payload[1])
      padding == LenPrefixed(in, afterPayload, 2, MAX_PADDING)
  IN  IF Len(in) > MAX_RECORD_PLAINTEXT \/ in = <<>> THEN Refused
      ELSE IF ~Has(in[1], "byte") THEN Refused
      ELSE IF in[1].byte \notin DOMAIN Kinds \/ metadata = Refused THEN Refused
      ELSE IF \E i \in DOMAIN metadata[1] : ~Has(metadata[1][i], "lex") THEN Refused
      ELSE IF Failed(value) \/ payload = Refused THEN Refused
      ELSE IF \E i \in DOMAIN payload[1] : ~Has(payload[1][i], "byte") THEN Refused
      ELSE IF padding = Refused THEN Refused
      ELSE <<[record |-> [kind |-> kind, metadata |-> value,
                          payload |-> [i \in DOMAIN payload[1] |-> payload[1][i].byte],
                          padding_len |-> Len(padding[1])],
              consumed |-> afterPayload + 2 + Len(padding[1])]>>

Decode(in) ==
  LET r == DecodePrefix(in)
  IN  IF r = Refused THEN Refused
      ELSE IF r[1].consumed # Len(in) THEN Refused
      ELSE <<r[1].record>>
=============================================================================
