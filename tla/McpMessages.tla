---------------------------- MODULE McpMessages ----------------------------
(***************************************************************************)
(* The messages of mcp/server.py and what its dispatcher makes of each:    *)
(* one line of standard input is one JSON-RPC message, and the answer is a *)
(* function of the line and of how the tool it calls fared.  No state.     *)
(***************************************************************************)
EXTENDS Naturals, Sequences

CONSTANTS
    Ids,    \* the ids of requests, JSON's null among them
    Null,   \* JSON's null
    NoId,   \* the message has no member "id"
    Traffic \* the lines this client may write

ASSUME IdAssumption == Null \in Ids /\ NoId \notin Ids

\* _METHOD_HANDLERS, and the notifications answered with silence.  Any other
\* text is "unknown"; a method that is an array or object cannot be looked up.
Methods == {"initialize", "tools/list", "tools/call", "ping"}
Notifications == {"notifications/initialized", "notifications/cancelled"}

\* TOOLS; a tool's name may be unknown, or not a text.
Tools == {"detect_arm_features", "verify_dispatch", "recommend_config",
          "explain_finding"}

\* A line, reduced to what the server tells apart.  Only "message" uses the
\* fields after kind.  params and args are an object, or a non-empty array;
\* the values in an object may be acceptable to the tool or not.
Line == [kind : {"blank", "garbage", "nonobject", "undecodable", "message"},
         method : Methods \cup Notifications \cup {"unknown", "unhashable"},
         id : Ids \cup {NoId},
         params : {"object", "array"},
         tool : Tools \cup {"unknown", "unhashable"},
         args : {"accepted", "refused", "array"}]

ASSUME TrafficAssumption == Traffic \subseteq Line

\* What is sent back: a result, a result with isError, or an error's code.
None == "none"
Codes == {"result", "toolError", "-32700", "-32600", "-32601", "-32603"}

HasId(l) == l.id # NoId

\* Reading or dispatching these raises outside every try: the loop ends.
Fatal(l) == \/ l.kind = "undecodable"
            \/ l.kind = "message" /\ l.method = "unhashable"

\* The handlers that raise: params.get on an array, and a dictionary lookup
\* with a key that is not hashable.
HandlerRaises(l) ==
    \/ l.method \in {"initialize", "tools/call"} /\ l.params = "array"
    \/ l.method = "tools/call" /\ l.tool = "unhashable"

CallsTool(l) ==
    l.kind = "message" /\ l.method = "tools/call" /\ ~HandlerRaises(l)

\* This call starts the probes, which take minutes.
StartsProbes(l) ==
    CallsTool(l) /\ l.tool = "verify_dispatch" /\ l.args = "accepted"

\* How the tools can fare: detect_arm_features reports a platform it does not
\* know; recommend_config raises on a results file that is not UTF-8.
DetectOutcomes == {"result", "toolError"}
RecommendOutcomes(args) ==
    IF args = "array" THEN {"toolError"} ELSE {"result", "toolError"}
ExplainOutcomes(args) == IF args = "accepted" THEN {"result"} ELSE {"toolError"}

\* The other calls; an array for arguments raises in every tool that reads them.
QuickOutcomes(l) ==
    CASE l.tool = "detect_arm_features" -> DetectOutcomes
      [] l.tool = "recommend_config" -> RecommendOutcomes(l.args)
      [] l.tool = "explain_finding" -> ExplainOutcomes(l.args)
      [] OTHER -> {"toolError"}

\* A broken variant: a failed handler is reported to a notification, too.
dispatch_reports(l, outcome) ==
    IF l.method \in Notifications THEN None
    ELSE IF l.method \in Methods /\ HandlerRaises(l) THEN "-32603"
    ELSE IF ~HasId(l) THEN None
    ELSE IF l.method \notin Methods THEN "-32601"
    ELSE IF l.method = "tools/call" THEN outcome
    ELSE "result"

\* _dispatch: the answer to a message, given how the tool it calls fared.
dispatch(l, outcome) ==
    IF l.method \in Notifications \/ ~HasId(l) THEN None
    ELSE IF l.method \notin Methods THEN "-32601"
    ELSE IF HandlerRaises(l) THEN "-32603"
    ELSE IF l.method = "tools/call" THEN outcome
    ELSE "result"

\* The body of serve_stdio's loop.
answer(l, outcome) ==
    CASE l.kind = "blank" -> None
      [] l.kind = "garbage" -> "-32700"
      [] l.kind = "nonobject" -> "-32600"
      [] OTHER -> dispatch(l, outcome)

\* The id an answer carries.
AnswerId(l) == IF l.kind = "message" THEN l.id ELSE Null
=============================================================================
