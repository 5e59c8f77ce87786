---------------------------- MODULE CarrierBodies ----------------------------
(***************************************************************************)
(* How the carriers of wsnet-transport put sealed envelopes into a body:   *)
(* the POST batch, the JSON document, the HTML, CSS and JS comment, the    *)
(* WebSocket message, and the event stream with its streaming decoder.     *)
(*                                                                         *)
(* An envelope is a sequence of bytes; its base64 text is one unit.        *)
(***************************************************************************)
EXTENDS Messages

CONSTANTS
  MAX_CARRIER_RECORD, MAX_POST_BATCH_RECORDS, MAX_POST_BATCH_BYTES, MAX_HTTP_BODY, MAX_SSE_EVENT

Mark(text) == [mark |-> text]
Base64(envelope) == [b64 |-> envelope]
AllFit(envelopes) == \A i \in DOMAIN envelopes : Len(envelopes[i]) <= MAX_CARRIER_RECORD
Within(body, limit) == IF Len(body) <= limit THEN <<body>> ELSE Refused
Bytes(s) == [i \in DOMAIN s |-> Byte(s[i])]

\* post.rs: a count cap and a byte cap, each on its own.
PostEncode(envelopes) ==
  IF Len(envelopes) > MAX_POST_BATCH_RECORDS \/ ~AllFit(envelopes) THEN Refused
  ELSE Within(FoldLeft(LAMBDA out, e : out \o BigEndian(Len(e), 4) \o Bytes(e), <<>>, envelopes), MAX_POST_BATCH_BYTES)

RECURSIVE PostRead(_, _, _)
PostRead(body, at, envelopes) ==
  LET e == LenPrefixed(body, at, 4, MAX_CARRIER_RECORD)
  IN  IF at >= Len(body) THEN <<envelopes>>
      ELSE IF Len(envelopes) >= MAX_POST_BATCH_RECORDS \/ e = Refused THEN Refused
      ELSE PostRead(body, at + 4 + Len(e[1]), Append(envelopes, [i \in DOMAIN e[1] |-> e[1][i].byte]))
MutPostDecode(body) == IF Len(body) >= MAX_POST_BATCH_BYTES THEN Refused ELSE PostRead(body, 0, <<>>)

PostDecode(body) == IF Len(body) > MAX_POST_BATCH_BYTES THEN Refused ELSE PostRead(body, 0, <<>>)

\* profile.rs, `json`: {"d": [base64, ...], "v": 1}.
PROFILE_VERSION == 1
JsonEncode(envelopes) ==
  LET document == ("d" :> Arr([i \in DOMAIN envelopes |-> Str(Base64(envelopes[i]))]))
                  @@ ("v" :> Integer(PROFILE_VERSION))
  IN  IF AllFit(envelopes) THEN Within(ToBytes(Obj(document)), MAX_HTTP_BODY) ELSE Refused
JsonDecode(body) ==
  LET document == FromBytesBounded(body, MAX_HTTP_BODY)
      items == Field(document, "d")
  IN  IF Failed(document) THEN Refused
      ELSE IF Field(document, "v") # Integer(PROFILE_VERSION) \/ ~Has(items, "arr") THEN Refused
      ELSE IF \E i \in DOMAIN items.arr : ~Has(items.arr[i], "str") THEN Refused
      ELSE IF \E i \in DOMAIN items.arr : ~Has(items.arr[i].str, "b64") THEN Refused
      ELSE LET envelopes == [i \in DOMAIN items.arr |-> items.arr[i].str.b64]
           IN  IF AllFit(envelopes) THEN <<envelopes>> ELSE Refused

\* profile.rs, `TemplateProfile`: the marker and one base64 line per envelope between
\* the delimiters of a comment; an empty line is skipped.
Delimiters ==
  [html |-> <<Mark("<!--"), Mark("-->")>>, css |-> <<Mark("/*"), Mark("*/")>>, js |-> <<Mark("/*"), Mark("*/")>>]
Lines(envelopes) ==
  FoldLeftDomain(LAMBDA out, i : out \o (IF i > 1 THEN <<Mark("\n")>> ELSE <<>>) \o <<Base64(envelopes[i])>>, <<>>, envelopes)
TemplateEncode(profile, envelopes) ==
  IF ~AllFit(envelopes) THEN Refused
  ELSE Within(<<Delimiters[profile][1], Mark("wsnet:v1:")>> \o Lines(envelopes) \o <<Delimiters[profile][2]>>, MAX_HTTP_BODY)

\* The first occurrence of a unit after a position, or 0.
Find(doc, unit, from) ==
  LET at == {i \in (from + 1)..Len(doc) : doc[i] = unit} IN IF at = {} THEN 0 ELSE Min(at)
TemplateDecode(profile, doc) ==
  LET open == Find(doc, Delimiters[profile][1], 0)
      close == Find(doc, Delimiters[profile][2], open)
      region == SubSeq(doc, open + 1, close - 1)
      lines == SelectSeq(Tail(region), LAMBDA u : u # Mark("\n") /\ u # Base64(<<>>))
  IN  IF Len(doc) > MAX_HTTP_BODY \/ open = 0 \/ close = 0 THEN Refused
      ELSE IF region = <<>> THEN Refused
      ELSE IF region[1] # Mark("wsnet:v1:") \/ \E i \in DOMAIN lines : ~Has(lines[i], "b64") THEN Refused
      ELSE LET envelopes == [i \in DOMAIN lines |-> lines[i].b64]
           IN  IF AllFit(envelopes) THEN <<envelopes>> ELSE Refused

\* ws.rs: one message, one envelope.
WsEncode(envelopes) == IF Len(envelopes) = 1 /\ AllFit(envelopes) THEN <<Bytes(envelopes[1])>> ELSE Refused
WsDecode(body) ==
  LET e == [i \in DOMAIN body |-> body[i].byte] IN IF AllFit(<<e>>) THEN <<<<e>>>> ELSE Refused

-----------------------------------------------------------------------------
(***************************************************************************)
(* The event stream carrier (sse.rs): the bodies `encode` writes, and the  *)
(* streaming decoder fed with chunks cut anywhere, between the two         *)
(* characters of a CRLF included.                                          *)
(***************************************************************************)
CONSTANTS Envelopes, MaxEvents, LineEnds

VARIABLES
  events,     \* envelopes written so far
  stream,     \* written and not yet handed to the decoder
  decoder,    \* [pending, data, has_data]
  finished,   \* envelopes the decoder returned
  broken      \* `feed` returned an error

sseVars == <<events, stream, decoder, finished, broken>>
FreshDecoder == [pending |-> <<>>, data |-> <<>>, has_data |-> FALSE]
SseInit == events = <<>> /\ stream = <<>> /\ decoder = FreshDecoder /\ finished = <<>> /\ broken = FALSE

Lf == Mark("\n")
Cr == Mark("\r")
\* `encode` for one envelope: the data field, then the blank line that ends the event.
SseEvent(e, end) ==
  IF Len(e) > MAX_CARRIER_RECORD THEN Refused
  ELSE Within(<<Mark("data:"), Mark(" "), Base64(e)>> \o end \o end, MAX_SSE_EVENT)

\* Step results are [d, out], or Refused.
Emit(d, out) == <<[d |-> d, out |-> out]>>

\* `dispatch`: a data field that is one base64 text becomes an envelope; an empty one
\* decodes to the empty envelope, and lines joined by a newline do not decode.
Dispatch(d, out) ==
  LET clear == [d EXCEPT !.data = <<>>, !.has_data = FALSE]
      envelope == IF d.data = <<>> THEN <<>> ELSE d.data[1].b64
  IN  IF ~d.has_data THEN Emit(d, out)
      ELSE IF Len(d.data) > 1 THEN Refused
      ELSE IF d.data # <<>> /\ ~Has(d.data[1], "b64") THEN Refused
      ELSE IF Len(envelope) > MAX_CARRIER_RECORD THEN Refused
      ELSE Emit(clear, Append(out, envelope))

\* `handle_line`: a blank line dispatches, a comment and any other field are skipped.
HandleLine(d, line, out) ==
  LET value == IF Len(line) > 1 /\ line[2] = Mark(" ") THEN SubSeq(line, 3, Len(line)) ELSE Tail(line)
      grown == (IF d.has_data THEN Append(d.data, Lf) ELSE <<>>) \o value
  IN  IF line = <<>> THEN Dispatch(d, out)
      ELSE IF line[1] # Mark("data:") THEN Emit(d, out)
      ELSE IF Len(grown) > MAX_SSE_EVENT THEN Refused
      ELSE Emit([d EXCEPT !.data = grown, !.has_data = TRUE], out)

\* The scan of `feed`: each line end hands the line before it on; LF, CR and CRLF end
\* a line, and what follows the last one stays pending.
RECURSIVE Scan(_, _, _, _, _)
Scan(buf, start, i, d, out) ==
  LET width == IF buf[i] = Cr /\ i < Len(buf) /\ buf[i + 1] = Lf THEN 2 ELSE 1
      r == HandleLine(d, SubSeq(buf, start, i - 1), out)
  IN  IF i > Len(buf) THEN Emit([d EXCEPT !.pending = SubSeq(buf, start, Len(buf))], out)
      ELSE IF buf[i] \notin {Lf, Cr} THEN Scan(buf, start, i + 1, d, out)
      ELSE IF r = Refused THEN Refused
      ELSE Scan(buf, i + width, i + width, r[1].d, r[1].out)

MutFeed(d, chunk) == Scan(chunk, 1, 1, d, <<>>)

Feed(d, chunk) ==
  LET r == Scan(d.pending \o chunk, 1, 1, d, <<>>)
  IN  IF r = Refused THEN Refused
      ELSE IF Len(r[1].d.pending) > MAX_SSE_EVENT THEN Refused
      ELSE r

\* `finish`: nothing may be left of a line or of an event.
FinishIsClean(d) == d.pending = <<>> /\ ~d.has_data

SseDecode(body) ==
  LET r == Feed(FreshDecoder, body)
  IN  IF r = Refused THEN Refused
      ELSE IF FinishIsClean(r[1].d) THEN <<r[1].out>> ELSE Refused

WriteEvent ==
  /\ Len(events) < MaxEvents
  /\ \E e \in Envelopes, end \in LineEnds, comment \in BOOLEAN :
       /\ SseEvent(e, end) # Refused
       /\ events' = Append(events, e)
       /\ stream' = stream \o (IF comment THEN <<Mark(":")>> \o end ELSE <<>>) \o SseEvent(e, end)[1]
  /\ UNCHANGED <<decoder, finished, broken>>

FeedChunk ==
  /\ ~broken
  /\ \E n \in 1..Len(stream) :
       LET r == Feed(decoder, SubSeq(stream, 1, n))
       IN  /\ stream' = SubSeq(stream, n + 1, Len(stream))
           /\ broken' = (r = Refused)
           /\ decoder' = IF r = Refused THEN decoder ELSE r[1].d
           /\ finished' = IF r = Refused THEN finished ELSE finished \o r[1].out
  /\ UNCHANGED events

SseNext == WriteEvent \/ FeedChunk

\* However the network cuts the stream, the decoder returns the envelopes that were
\* written, in order, each as soon as its event is complete, and refuses nothing
\* (sse.rs: "a chunk boundary may fall anywhere - mid-line, mid-CRLF, or between two
\* events").
ChunkingIsInvisible ==
  /\ ~broken
  /\ IsPrefix(finished, events)
  /\ stream = <<>> => finished = events /\ FinishIsClean(decoder)
=============================================================================
