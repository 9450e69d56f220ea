---------------------------- MODULE MCMcpServer ----------------------------
(* A client for TLC: a line for each way through the loop.                 *)
EXTENDS McpServer

CONSTANT i1

MCIds == {i1, Null}

Said(method, id, params, tool, args) ==
    [kind |-> "message", method |-> method, id |-> id,
     params |-> params, tool |-> tool, args |-> args]

Noise(kind) ==
    [kind |-> kind, method |-> "unknown", id |-> NoId,
     params |-> "object", tool |-> "unknown", args |-> "accepted"]

Call(id, tool, args) == Said("tools/call", id, "object", tool, args)
Plain(method, id) == Said(method, id, "object", "unknown", "accepted")

MCTraffic ==
    {Call(i1, "verify_dispatch", "accepted"),
     Call(NoId, "verify_dispatch", "accepted"),
     Call(i1, "recommend_config", "accepted"),
     Said("tools/call", NoId, "array", "unknown", "accepted"),
     Plain("ping", Null),
     Plain("notifications/cancelled", i1),
     Noise("garbage"), Noise("undecodable")}
=============================================================================
