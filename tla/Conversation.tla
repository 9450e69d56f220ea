---------------------------- MODULE Conversation ----------------------------
(***************************************************************************)
(* What the MCP server promises a client on its pipe: a request is         *)
(* answered at most once, with its own id, in the order of asking;         *)
(* a notification is never answered; and a later request is answered first *)
(* only if the one before it was lost while a tool call was running.       *)
(***************************************************************************)
EXTENDS McpMessages

VARIABLES
    asked,   \* the lines the client wrote
    replies, \* the answers it got, each with the place of its line
    lost     \* places of lines the server never saw

conversation == <<asked, replies, lost>>

\* An answer is due: the line parses to a request, or does not parse.
Due(l) == \/ l.kind \in {"garbage", "nonobject"}
          \/ /\ l.kind = "message" /\ HasId(l)
             /\ l.method \notin Notifications

\* The codes an answer may have.
Fitting(l) ==
    IF l.kind = "garbage" THEN {"-32700"}
    ELSE IF l.kind = "nonobject" THEN {"-32600"}
    ELSE IF l.method \notin Methods THEN {"-32601"}
    ELSE IF l.method = "tools/call" THEN {"result", "toolError", "-32603"}
    ELSE {"result", "-32603"}

Answered == {replies[k].to : k \in DOMAIN replies}

ConversationInit == asked = <<>> /\ replies = <<>> /\ lost = {}

Ask == /\ \E l \in Traffic : asked' = Append(asked, l)
       /\ UNCHANGED <<replies, lost>>

Answer(p) ==
    /\ p \in DOMAIN asked /\ Due(asked[p])
    /\ p \notin Answered \cup lost
    /\ \A q \in 1..(p - 1) : Due(asked[q]) => q \in Answered \cup lost
    /\ \A q \in Answered : q < p
    /\ \E c \in Fitting(asked[p]) :
          replies' = Append(replies,
                            [to |-> p, id |-> AnswerId(asked[p]), code |-> c])
    /\ UNCHANGED <<asked, lost>>

Lose(n) ==
    /\ n \in DOMAIN asked \ Answered
    /\ \E q \in 1..(n - 1) : CallsTool(asked[q]) /\ q \notin Answered \cup lost
    /\ lost' = lost \cup {n}
    /\ UNCHANGED <<asked, replies>>

ConversationNext == Ask \/ \E p \in DOMAIN asked : Answer(p) \/ Lose(p)

ConversationSpec == ConversationInit /\ [][ConversationNext]_conversation
=============================================================================
