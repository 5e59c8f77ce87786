------------------------------- MODULE MCCodec -------------------------------
(* The codec on one message of every kind, and on changed inputs.   *)
EXTENDS Codec
MCKeyOrder ==
  <<"association_id", "attempt_id", "capabilities", "consumed_offset", "d", "datagram_id", "destination", "detail",
    "expires_at", "final_offset", "host", "hub_id", "key_id", "limit_offset", "mac", "name", "node", "node_id",
    "nonce", "offset", "port", "proto", "reason", "received_offset", "remaining_ttl_ms", "request_id", "revision",
    "server_nonce", "services", "session_epoch", "session_id", "status", "stream_id", "target", "ts", "type",
    "v", "version", "via">>
MCNoText == ""
MCSlugs == {"n1", "n2", "svc"}
MCSamples ==
  [hex16 |-> <<"id">>, hex32 |-> <<"nonce">>, dec |-> <<1, 0, WordMax>>, instant |-> <<1, -1, IntMax>>,
   version |-> <<1, ByteMax>>, texts |-> <<<<"n1">>, <<>>, <<"n1", "n2">>, [i \in 1..12 |-> "n1"]>>,
   text |-> <<"n1", "">>, optional |-> <<"n1", "">>, proto |-> <<"tcp", "udp">>,
   status |-> <<"ok", "refused", "denied", "offline", "unreachable", "timeout", "conflict">>,
   reason |-> <<"protocol_error", "timeout", "canceled", "overflow", "unreachable">>,
   host |-> <<"n1">>, port |-> <<1, PortMax>>,
   services |-> <<<<[name |-> "svc", proto |-> "udp", target |-> "n1"]>>, <<>>>>,
   destination |-> <<Address("n1", 1), Address("n1", PortMax), Service("n1", "svc", NoRevision),
                     Service("n1", "svc", WordMax), NodeAddress("n2", "n1", 1)>>]
MCPayloads == {<<>>, <<7, 7>>, <<7, 7, 7>>}
MCPaddings == 0..3
MCLexemes ==
  {Punct("["), Punct("]"), Punct(","), Punct(":"), Ws, Null, Num(TRUE, <<0>>, ""), Num(FALSE, <<0, 1>>, ""),
   Num(FALSE, <<1>>, "."), Num(TRUE, <<1, 0, 2, 4>>, ""), Num(FALSE, <<1, 0, 2, 4>>, ""), [plain |-> [word |-> "host"]],
   Quoted(<<Esc("slash"), Hex4(10), Hex4(55296), Hex4(56320)>>), Quoted(<<Raw(10)>>), Quoted(<<Hex4(55296), Raw(47)>>)}
MCValues ==
  {Arr(<<Obj(("host" :> Integer(-IntMax)) @@ ("port" :> Str([cps |-> <<34, 92, 8, 1, 233, 65536>>])))>>),
   Arr(<<Arr(<<Arr(<<>>)>>), Bool(TRUE)>>),
   Arr(<<Arr(<<Arr(<<Arr(<<>>)>>)>>)>>)}
MCEnvelopes == {<<1>>, <<2, 2>>}
MCBatches == {<<>>, <<<<1>>>>, <<<<1>>, <<2, 2>>>>, <<<<2, 2>>, <<1>>>>, <<<<1>>, <<1>>, <<1>>>>, <<<<1, 1, 1>>>>}
MCLineEnds == {<<Lf>>, <<Cr, Lf>>}
==============================================================================
