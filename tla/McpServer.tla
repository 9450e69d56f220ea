----------------------------- MODULE McpServer -----------------------------
(***************************************************************************)
(* mcp/server.py on its pipes: serve_stdio reads lines through a buffer of *)
(* its own, answers each before it looks at the next, and for a call of    *)
(* verify_dispatch runs the binary twice, plainly and under lldb, with its *)
(* own standard input handed down: while such a child runs it may read     *)
(* lines that were meant for the server.                                   *)
(***************************************************************************)
EXTENDS McpMessages

CONSTANTS
    MaxSent, \* bound: lines the client writes
    MaxCalls \* bound: kernel calls the probed program makes

ASSUME BoundAssumption == MaxSent \in Nat /\ MaxCalls \in Nat

VARIABLES
    sent,    \* the lines written to the pipe, in order
    input,   \* the client's end of standard input: "open" or "closed"
    reader,  \* does the client still read standard output
    pulled,  \* how many lines have left the pipe
    ahead,   \* the last line in the server's own read-ahead buffer
    handled, \* the last line taken from that buffer
    eaten,   \* lines a child read
    out,     \* the answers written: [to |-> line, id, code]
    server,  \* "loop", "plain" or "lldb" (a probe runs), "stopped", "crashed"
    probe    \* the program under lldb in the last call, and the verdict on it

vars == <<sent, input, reader, pulled, ahead, handled, eaten, out, server, probe>>

client == <<sent, input, reader>>
buffers == <<pulled, ahead, handled, eaten>>

\* The program of a call: is the kernel in its symbol table, how often did it
\* run, how the program ended, and what the answer says.
NoProbe == [visible |-> FALSE, calls |-> 0, ended |-> "no", verdict |-> "none"]
FreshProbe == [visible : BOOLEAN, calls : {0}, ended : {"no"},
               verdict : {"none"}]
Probe == [visible : BOOLEAN, calls : 0..MaxCalls,
          ended : {"no", "exited", "failed"},
          verdict : {"none", "inconclusive", "dispatched", "notDispatched"}]

Init ==
    /\ sent = <<>> /\ input = "open" /\ reader = TRUE
    /\ pulled = 0 /\ ahead = 0 /\ handled = 0 /\ eaten = {}
    /\ out = <<>> /\ server = "loop"
    /\ probe = NoProbe

-----------------------------------------------------------------------------
(* The client.                                                             *)

Write ==
    /\ input = "open" /\ Len(sent) < MaxSent
    /\ \E l \in Traffic : sent' = Append(sent, l)
    /\ UNCHANGED <<input, reader, buffers, out, server, probe>>

\* It closes standard input, and stops reading the answers then or later.
Close ==
    /\ input' = "closed"
    /\ reader' \in {reader, FALSE}
    /\ <<input', reader'>> # <<input, reader>>
    /\ UNCHANGED <<sent, buffers, out, server, probe>>

-----------------------------------------------------------------------------
(* The loop.                                                               *)

\* A broken variant: the buffer's end is one line too far.
Fill_over ==
    /\ server = "loop" /\ handled = ahead /\ pulled < Len(sent)
    /\ \E n \in (pulled + 1)..Len(sent) : pulled' = n /\ ahead' = n + 1
    /\ handled' = pulled
    /\ UNCHANGED <<client, eaten, out, server, probe>>

\* The buffer is empty: read what is there, one line or several.
Fill ==
    /\ server = "loop" /\ handled = ahead /\ pulled < Len(sent)
    /\ \E n \in (pulled + 1)..Len(sent) : pulled' = n /\ ahead' = n
    /\ handled' = pulled
    /\ UNCHANGED <<client, eaten, out, server, probe>>

EndOfInput ==
    /\ server = "loop" /\ handled = ahead
    /\ pulled = Len(sent) /\ input = "closed"
    /\ server' = "stopped"
    /\ UNCHANGED <<client, buffers, out, probe>>

\* A broken variant: a parse failure leaves the loop's answer unsent.
Send_quiet(p, outcome) ==
    LET code == answer(sent[p], outcome) IN
    IF code \in {None, "-32700"} THEN UNCHANGED out /\ server' = "loop"
    ELSE IF ~reader THEN UNCHANGED out /\ server' = "crashed"
    ELSE /\ out' = Append(out, [to |-> p, id |-> AnswerId(sent[p]), code |-> code])
         /\ server' = "loop"

\* _send, when there is something to send: a broken pipe is not caught.
Send(p, outcome) ==
    LET code == answer(sent[p], outcome) IN
    IF code = None THEN UNCHANGED out /\ server' = "loop"
    ELSE IF ~reader THEN UNCHANGED out /\ server' = "crashed"
    ELSE /\ out' = Append(out, [to |-> p, id |-> AnswerId(sent[p]), code |-> code])
         /\ server' = "loop"

Handle ==
    /\ server = "loop" /\ handled < ahead
    /\ handled' = handled + 1
    /\ LET l == sent[handled + 1] IN
       CASE Fatal(l) -> server' = "crashed" /\ UNCHANGED out /\ probe' = NoProbe
         [] StartsProbes(l) -> /\ server' = "plain" /\ UNCHANGED out
                               /\ probe' \in FreshProbe
         [] OTHER -> /\ \E o \in QuickOutcomes(l) : Send(handled + 1, o)
                     /\ probe' = NoProbe
    /\ UNCHANGED <<client, pulled, ahead, eaten>>

-----------------------------------------------------------------------------
(* verify_dispatch.                                                        *)

Probing == server \in {"plain", "lldb"}

\* A child reads the next line of the standard input it was given.
ChildReads ==
    /\ Probing /\ pulled < Len(sent)
    /\ pulled' = pulled + 1 /\ eaten' = eaten \cup {pulled + 1}
    /\ UNCHANGED <<client, ahead, handled, out, server, probe>>

Conclude(verdict) ==
    /\ probe' = [probe EXCEPT !.verdict = verdict]
    /\ Send(handled, "result")
    /\ UNCHANGED <<client, buffers>>

\* After the plain run, whether it ended or not, lldb, if it is there.
PlainEnds ==
    /\ server = "plain"
    /\ \/ /\ server' = "lldb"
          /\ UNCHANGED <<client, buffers, out, probe>>
       \/ Conclude("inconclusive")

\* A broken variant: only the plain run has a time limit.
TimesOut_once == PlainEnds

\* The time limit of either run passed.
TimesOut == \/ PlainEnds
            \/ server = "lldb" /\ Conclude("inconclusive")

\* Running it raised: a binary that cannot be executed, output not in UTF-8.
ProbeRaises ==
    /\ Probing
    /\ Send(handled, "toolError")
    /\ UNCHANGED <<client, buffers, probe>>

KernelRuns ==
    /\ server = "lldb" /\ probe.ended = "no" /\ probe.calls < MaxCalls
    /\ probe' = [probe EXCEPT !.calls = @ + 1]
    /\ UNCHANGED <<client, buffers, out, server>>

ProgramEnds ==
    /\ server = "lldb" /\ probe.ended = "no"
    /\ \E how \in {"exited", "failed"} : probe' = [probe EXCEPT !.ended = how]
    /\ UNCHANGED <<client, buffers, out, server>>

\* A broken variant: no summary in the output reads as no hits.
verdict_of_zero(summary, hits) ==
    IF summary /\ hits > 0 THEN "dispatched" ELSE "notDispatched"

\* The verdict, from the summary line if the output has one.
verdict_of(summary, hits) ==
    IF ~summary THEN "inconclusive"
    ELSE IF hits > 0 THEN "dispatched" ELSE "notDispatched"

\* lldb ended.  It lists the breakpoint after the program has, and prints the
\* three numbers only if the expression matched a symbol; it may also fail.
LldbEnds ==
    /\ server = "lldb"
    /\ \E summary \in BOOLEAN :
          /\ summary => probe.ended # "no" /\ probe.visible
          /\ Conclude(verdict_of(summary, probe.calls))

-----------------------------------------------------------------------------
Loop == Fill \/ EndOfInput \/ Handle

\* The probes, and what lldb and the program do of their own accord.
ProbeStep == \/ TimesOut \/ ProbeRaises \/ LldbEnds
             \/ ChildReads \/ KernelRuns \/ ProgramEnds

Next == Write \/ Close \/ Loop \/ ProbeStep

Spec == Init /\ [][Next]_vars

\* The loop is one thread that blocks only on input, and both runs of the
\* binary have a time limit.  The client need not write, nor close; neither
\* lldb nor the program need end.
FairSpec == Spec /\ WF_vars(Loop) /\ WF_vars(TimesOut)

-----------------------------------------------------------------------------
(* Properties.                                                             *)

\* Types, and the order of the three counters.
TypeOK ==
    /\ sent \in Seq(Traffic) /\ Len(sent) <= MaxSent
    /\ input \in {"open", "closed"} /\ reader \in BOOLEAN
    /\ handled \in Nat /\ ahead \in Nat /\ pulled \in Nat
    /\ handled <= ahead /\ ahead <= pulled /\ pulled <= Len(sent)
    /\ eaten \subseteq 1..pulled
    /\ out \in Seq([to : 1..MaxSent, id : Ids \cup {NoId}, code : Codes])
    /\ server \in {"loop", "plain", "lldb", "stopped", "crashed"}
    /\ probe \in Probe

\* The server keeps what Conversation promises, whatever its children read of
\* its standard input: answers in order, at most one each, never to a
\* notification, with the right id.
Promise == INSTANCE Conversation WITH asked <- sent, replies <- out, lost <- eaten
KeepsPromise == Promise!ConversationSpec

\* A verdict other than INCONCLUSIVE is about a program whose kernel lldb saw,
\* that ended, and it says whether the kernel ran in it.
VerdictIsTrue ==
    probe.verdict \in {"dispatched", "notDispatched"} =>
        /\ probe.visible /\ probe.ended # "no"
        /\ (probe.verdict = "dispatched") <=> (probe.calls > 0)

\* A request written is answered in the end, unless a child reads it or the
\* server ends on a line it cannot survive or on a client that is gone.
Settled(p) == \/ p \in Promise!Answered \cup eaten
              \/ server = "crashed"
RequestsSettle ==
    \A p \in 1..MaxSent :
        (p \in DOMAIN sent /\ Promise!Due(sent[p])) ~> Settled(p)

\* The server does not outlive its client: when standard input is closed it
\* ends, a probe or two later at most.
ServerEnds == (input = "closed") ~> (server \in {"stopped", "crashed"})
=============================================================================
