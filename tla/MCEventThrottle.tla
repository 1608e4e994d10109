--------------------------- MODULE MCEventThrottle ---------------------------
(* A throttle fed with chunks of two text messages, two owners and a tool  *)
(* call, a chunk that names no message, a state delta and an immediate     *)
(* event.                                                                  *)
EXTENDS EventThrottle

Chunk(type, owner, id, delta, meta) ==
  [type |-> type, owner |-> owner, id |-> id, delta |-> delta, meta |-> meta]

MCArrivals ==
  { Chunk("TEXT_MESSAGE_CHUNK", Absent, "m1", <<"a">>, Absent),
    Chunk("TEXT_MESSAGE_CHUNK", Absent, "m1", <<"b", "c">>, "meta1"),
    Chunk("TEXT_MESSAGE_CHUNK", Absent, "m1", <<>>, "meta2"),
    Chunk("TEXT_MESSAGE_CHUNK", "s1", "m1", <<"d">>, Absent),
    Chunk("TEXT_MESSAGE_CHUNK", Absent, "m2", <<"e">>, Absent),
    Chunk("TEXT_MESSAGE_CHUNK", Absent, Absent, <<"f">>, Absent),
    Chunk("TOOL_CALL_CHUNK", Absent, "m1", <<"g">>, Absent),
    [type |-> "STATE_DELTA"], [type |-> "TOOL_CALL_END"] }
=============================================================================
