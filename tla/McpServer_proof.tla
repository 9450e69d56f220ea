-------------------------- MODULE McpServer_proof --------------------------
(***************************************************************************)
(* The MCP server keeps what Conversation promises its client, whatever    *)
(* the client writes and whatever the probed programs and lldb do.  The    *)
(* invariant IInv says who has which line: the server (answered, or at it  *)
(* now), its buffer, or a child.                                           *)
(***************************************************************************)
EXTENDS McpServer, TLAPS

Answered == Promise!Answered
Due(l) == Promise!Due(l)

\* A probe belongs to the line at hand, a call nobody has answered, and has no
\* verdict yet.
ProbeOfCall ==
    Probing => /\ handled >= 1 /\ CallsTool(sent[handled])
               /\ handled \notin Answered \cup eaten
               /\ probe.verdict = "none"

\* Only lines taken from the buffer are answered.
AnsweredWereTaken == Answered \subseteq 1..handled

\* A child reads only what the buffer has not: no line is in both, and what
\* left the pipe after the buffer was filled went to a child.
BufferIsTheServers ==
    /\ eaten \cap (handled + 1)..ahead = {}
    /\ (ahead + 1)..pulled \subseteq eaten

\* No line behind the one at hand is left without the answer due to it.
NothingLeftBehind ==
    server # "crashed" =>
        \A q \in 1..handled :
            Due(sent[q]) => \/ q \in Answered \cup eaten
                            \/ Probing /\ q = handled

IInv == /\ TypeOK
        /\ ProbeOfCall
        /\ AnsweredWereTaken
        /\ BufferIsTheServers
        /\ NothingLeftBehind

-----------------------------------------------------------------------------
(* Messages: what is sent back for a line.                                 *)

\* A line gets an answer exactly when one is due, and the answer fits it.
LEMMA AnswersFit ==
    ASSUME NEW l \in Line, ~Fatal(l), NEW o \in {"result", "toolError"}
    PROVE  /\ answer(l, o) = None <=> ~Due(l)
           /\ answer(l, o) # None => answer(l, o) \in Promise!Fitting(l)
<1> USE DEF None, Due, Promise!Due, Promise!HasId, Promise!Notifications,
            Promise!Fitting, Promise!Methods
<1>0. l.kind \in {"blank", "garbage", "nonobject", "undecodable", "message"}
    BY DEF Line
<1>1. CASE l.kind # "message"
  <2>1. CASE l.kind = "blank"
      BY <2>1 DEF answer
  <2>2. CASE l.kind = "garbage"
      BY <2>2 DEF answer
  <2>3. CASE l.kind = "nonobject"
      BY <2>3 DEF answer
  <2> QED
      BY <1>0, <1>1, <2>1, <2>2, <2>3 DEF Fatal
<1>2. CASE l.kind = "message"
  <2>1. answer(l, o) = dispatch(l, o)
      BY <1>2 DEF answer
  <2>2. CASE l.method \in Notifications \/ ~HasId(l)
      BY <1>2, <2>1, <2>2 DEF dispatch, HasId, Notifications
  <2>3. CASE ~(l.method \in Notifications \/ ~HasId(l))
    <3>1. Due(l)
        BY <1>2, <2>3 DEF HasId, Notifications
    <3>2. CASE l.method \notin Methods
        BY <1>2, <2>1, <2>3, <3>1, <3>2 DEF dispatch, Methods
    <3>3. CASE l.method \in Methods
      <4>1. answer(l, o) = IF HandlerRaises(l) THEN "-32603"
                           ELSE IF l.method = "tools/call" THEN o
                           ELSE "result"
          BY <2>1, <2>3, <3>3 DEF dispatch
      <4> QED
          BY <1>2, <3>1, <3>3, <4>1 DEF Methods
    <3> QED
        BY <3>2, <3>3
  <2> QED
      BY <2>2, <2>3
<1> QED
    BY <1>1, <1>2

\* A tool that answers at once fares well or badly, never otherwise.
LEMMA QuickFare == ASSUME NEW l PROVE QuickOutcomes(l) \subseteq {"result", "toolError"}
BY DEF QuickOutcomes, DetectOutcomes, RecommendOutcomes, ExplainOutcomes

\* Answers carry an id, and a code of the protocol.
LEMMA AnswersAreTyped ==
    ASSUME NEW l \in Line, NEW o \in {"result", "toolError"}, answer(l, o) # None
    PROVE  AnswerId(l) \in Ids \cup {NoId} /\ answer(l, o) \in Codes
<1>1. AnswerId(l) \in Ids \cup {NoId}
    BY IdAssumption DEF AnswerId, Line
<1>2. answer(l, o) \in Codes
    BY DEF answer, dispatch, Codes, None
<1> QED
    BY <1>1, <1>2

-----------------------------------------------------------------------------
(* Sending.                                                                *)

\* What the server promises for the line at p.
Reply(p, c) == [to |-> p, id |-> AnswerId(sent[p]), code |-> c]

\* After a send for a line at which the server does not fall over, the loop
\* goes on, with the answer if one is due, or the server is gone.
LEMMA SendStep ==
    ASSUME TypeOK, NEW p \in 1..Len(sent), ~Fatal(sent[p]),
           NEW o \in {"result", "toolError"}, Send(p, o)
    PROVE  \/ out' = out /\ server' = "crashed"
           \/ out' = out /\ server' = "loop" /\ ~Due(sent[p])
           \/ /\ server' = "loop" /\ Due(sent[p])
              /\ \E c \in Promise!Fitting(sent[p]) \cap Codes :
                    out' = Append(out, Reply(p, c))
<1>1. sent[p] \in Line
    BY TrafficAssumption DEF TypeOK
<1>2. /\ answer(sent[p], o) = None <=> ~Due(sent[p])
      /\ answer(sent[p], o) # None =>
            answer(sent[p], o) \in Promise!Fitting(sent[p]) \cap Codes
    BY <1>1, AnswersFit, AnswersAreTyped
<1> QED
    BY <1>2 DEF Send, Reply

\* An answer more: the places answered gain its line, the types stand.
LEMMA AppendStep ==
    ASSUME TypeOK, NEW p \in 1..Len(sent), NEW c \in Codes,
           out' = Append(out, Reply(p, c)), Len(sent) <= MaxSent
    PROVE  /\ out' \in Seq([to : 1..MaxSent, id : Ids \cup {NoId}, code : Codes])
           /\ Answered' = Answered \cup {p}
<1>1. sent[p] \in Line
    BY TrafficAssumption DEF TypeOK
<1>2. AnswerId(sent[p]) \in Ids \cup {NoId}
    BY <1>1, IdAssumption DEF AnswerId, Line
<1>3. Reply(p, c) \in [to : 1..MaxSent, id : Ids \cup {NoId}, code : Codes]
    BY <1>2, BoundAssumption DEF Reply, TypeOK
<1>4. out \in Seq([to : 1..MaxSent, id : Ids \cup {NoId}, code : Codes])
    BY DEF TypeOK
<1>5. /\ DOMAIN out' = DOMAIN out \cup {Len(out) + 1}
      /\ \A k \in DOMAIN out : out'[k] = out[k] /\ k # Len(out) + 1
      /\ out'[Len(out) + 1] = Reply(p, c)
    BY <1>3, <1>4
<1>6. Answered' = Answered \cup {p}
    BY <1>5 DEF Answered, Promise!Answered, Reply
<1> QED
    BY <1>3, <1>4, <1>6

-----------------------------------------------------------------------------
(* The invariant.                                                          *)

\* The invariant holds before the first line.
LEMMA InitIInv == Init => IInv
<1> SUFFICES ASSUME Init PROVE IInv
    OBVIOUS
<1>1. TypeOK
    BY BoundAssumption DEF Init, TypeOK, NoProbe, Probe
<1>2. ~Probing /\ Answered = {} /\ handled = 0 /\ ahead = 0 /\ pulled = 0
    BY DEF Init, Probing, Answered, Promise!Answered
<1> QED
    BY <1>1, <1>2 DEF IInv, ProbeOfCall, AnsweredWereTaken, BufferIsTheServers,
       NothingLeftBehind

\* The client's writing moves no line the server or a child has.
LEMMA WriteKeeps == IInv /\ Write => IInv'
<1> SUFFICES ASSUME IInv, Write PROVE IInv'
    OBVIOUS
<1>1. PICK l \in Traffic : sent' = Append(sent, l)
    BY DEF Write
<1>2. /\ sent' \in Seq(Traffic) /\ Len(sent') = Len(sent) + 1
      /\ \A q \in 1..Len(sent) : sent'[q] = sent[q]
    BY <1>1 DEF IInv, TypeOK
<1>3. TypeOK'
    BY <1>2, BoundAssumption DEF IInv, TypeOK, Write, client, buffers
<1>4. /\ Answered' = Answered /\ Probing' = Probing
      /\ UNCHANGED <<buffers, server, probe>>
    BY DEF Write, Answered, Promise!Answered, Probing, buffers
<1>5. handled \in Nat /\ handled <= Len(sent)
    BY DEF IInv, TypeOK
<1>6. ProbeOfCall'
    BY <1>2, <1>4, <1>5 DEF IInv, ProbeOfCall, buffers
<1>7. NothingLeftBehind'
    BY <1>2, <1>4, <1>5 DEF IInv, NothingLeftBehind, buffers
<1> QED
    BY <1>3, <1>4, <1>6, <1>7 DEF IInv, AnsweredWereTaken, BufferIsTheServers, buffers

\* Nor does what leaves lines, answers and the probe alone.
LEMMA QuietKeeps ==
    ASSUME IInv, TypeOK', UNCHANGED <<sent, buffers, out>>,
           \/ server' = server
           \/ Probing /\ Probing'
           \/ ~Probing /\ ~Probing' /\ server # "crashed",
           probe'.verdict = probe.verdict \/ ~Probing'
    PROVE  IInv'
<1>1. Answered' = Answered
    BY DEF Answered, Promise!Answered
<1>2. Probing' = Probing /\ (server = "crashed" => server' = "crashed")
    BY DEF Probing
<1> QED
    BY <1>1, <1>2 DEF IInv, ProbeOfCall, AnsweredWereTaken, BufferIsTheServers,
       NothingLeftBehind, buffers

\* A fill skips only lines children had.
LEMMA FillKeeps == IInv /\ Fill => IInv'
<1> SUFFICES ASSUME IInv, Fill PROVE IInv'
    OBVIOUS
<1>1. PICK n \in (pulled + 1)..Len(sent) : pulled' = n /\ ahead' = n
    BY DEF Fill
<1>2. /\ pulled \in Nat /\ handled \in Nat /\ handled = ahead /\ ahead <= pulled
      /\ Len(sent) \in Nat /\ handled' = pulled /\ eaten \subseteq 1..pulled
      /\ UNCHANGED <<client, eaten, out, server, probe>> /\ server = "loop"
    BY DEF IInv, TypeOK, Fill
<1>3. TypeOK'
    BY <1>1, <1>2 DEF IInv, TypeOK, client
<1>4. Answered' = Answered /\ ~Probing /\ ~Probing'
    BY <1>2 DEF Answered, Promise!Answered, Probing
<1>5. AnsweredWereTaken'
    BY <1>2, <1>4 DEF IInv, AnsweredWereTaken
<1>6. BufferIsTheServers'
    BY <1>1, <1>2 DEF BufferIsTheServers
<1>7. NothingLeftBehind'
  <2> SUFFICES ASSUME NEW q \in 1..pulled, Due(sent[q])
               PROVE  q \in Answered \cup eaten
      BY <1>2, <1>4 DEF NothingLeftBehind, client
  <2>1. CASE q \in 1..handled
      BY <1>2, <1>4, <2>1 DEF IInv, NothingLeftBehind
  <2>2. CASE q \notin 1..handled
      BY <1>2, <2>2 DEF IInv, BufferIsTheServers
  <2> QED
      BY <2>1, <2>2
<1> QED
    BY <1>3, <1>4, <1>5, <1>6, <1>7 DEF IInv, ProbeOfCall

\* A child reads what comes next in the pipe, never what the buffer holds.
LEMMA ChildReadsKeeps == IInv /\ ChildReads => IInv'
<1> SUFFICES ASSUME IInv, ChildReads PROVE IInv'
    OBVIOUS
<1>1. /\ pulled \in Nat /\ ahead \in Nat /\ handled \in Nat
      /\ handled <= ahead /\ ahead <= pulled
      /\ pulled < Len(sent) /\ Len(sent) \in Nat
      /\ pulled' = pulled + 1 /\ eaten' = eaten \cup {pulled + 1}
      /\ UNCHANGED <<client, ahead, handled, out, server, probe>>
      /\ eaten \subseteq 1..pulled /\ Probing
    BY DEF IInv, TypeOK, ChildReads
<1>2. TypeOK'
    BY <1>1 DEF IInv, TypeOK, client
<1>3. Answered' = Answered /\ Probing' = Probing
    BY <1>1 DEF Answered, Promise!Answered, Probing
<1>4. ProbeOfCall'
    BY <1>1, <1>3 DEF IInv, ProbeOfCall, client
<1>5. BufferIsTheServers'
    BY <1>1 DEF IInv, BufferIsTheServers
<1>6. NothingLeftBehind'
    BY <1>1, <1>3 DEF IInv, NothingLeftBehind, client
<1> QED
    BY <1>1, <1>2, <1>3, <1>4, <1>5, <1>6 DEF IInv, AnsweredWereTaken

\* The line at hand is open, and every line before it is settled.
LEMMA AtHand ==
    ASSUME IInv, NEW p,
           \/ Probing /\ p = handled
           \/ server = "loop" /\ p = handled + 1 /\ handled < ahead
    PROVE  /\ p \in 1..Len(sent) /\ p <= ahead
           /\ p \notin Answered \cup eaten
           /\ Answered \subseteq 1..(p - 1)
           /\ \A q \in 1..(p - 1) : Due(sent[q]) => q \in Answered \cup eaten
<1>1. /\ pulled \in Nat /\ ahead \in Nat /\ handled \in Nat
      /\ handled <= ahead /\ ahead <= pulled /\ pulled <= Len(sent)
      /\ Len(sent) \in Nat
    BY DEF IInv, TypeOK
<1>2. Answered \subseteq 1..handled
    BY DEF IInv, AnsweredWereTaken
<1>3. CASE Probing /\ p = handled
  <2>1. p >= 1 /\ p \notin Answered \cup eaten
      BY <1>3 DEF IInv, ProbeOfCall
  <2>2. \A q \in 1..(p - 1) : Due(sent[q]) => q \in Answered \cup eaten
      BY <1>1, <1>3 DEF IInv, NothingLeftBehind, Probing
  <2> QED
      BY <1>1, <1>2, <1>3, <2>1, <2>2
<1>4. CASE server = "loop" /\ p = handled + 1 /\ handled < ahead
  <2>1. p \notin Answered \cup eaten
      BY <1>1, <1>2, <1>4 DEF IInv, BufferIsTheServers
  <2>2. \A q \in 1..(p - 1) : Due(sent[q]) => q \in Answered \cup eaten
      BY <1>1, <1>4 DEF IInv, NothingLeftBehind, Probing
  <2> QED
      BY <1>1, <1>2, <1>4, <2>1, <2>2
<1> QED
    BY <1>3, <1>4

\* Settling the line at hand keeps the invariant, and is a step of the promise.
LEMMA SettleKeeps ==
    ASSUME IInv, NEW p,
           \/ Probing /\ p = handled
           \/ server = "loop" /\ p = handled + 1 /\ handled < ahead,
           ~Fatal(sent[p]), NEW o \in {"result", "toolError"}, Send(p, o),
           handled' = p, probe' \in Probe, UNCHANGED <<client, pulled, ahead, eaten>>
    PROVE  IInv' /\ (UNCHANGED out \/ Promise!Answer(p))
<1>1. /\ p \in 1..Len(sent) /\ p <= ahead /\ p \notin Answered \cup eaten
      /\ Answered \subseteq 1..(p - 1)
      /\ \A q \in 1..(p - 1) : Due(sent[q]) => q \in Answered \cup eaten
    BY AtHand
<1>2. /\ ahead \in Nat /\ handled \in Nat /\ p \in Nat /\ TypeOK
      /\ Len(sent) <= MaxSent
    BY <1>1 DEF IInv, TypeOK
<1>3. \/ out' = out /\ server' = "crashed"
      \/ out' = out /\ server' = "loop" /\ ~Due(sent[p])
      \/ /\ server' = "loop" /\ Due(sent[p])
         /\ \E c \in Promise!Fitting(sent[p]) \cap Codes :
               out' = Append(out, Reply(p, c))
    BY <1>1, <1>2, SendStep
<1>4. /\ out' \in Seq([to : 1..MaxSent, id : Ids \cup {NoId}, code : Codes])
      /\ Answered' = Answered \/ Answered' = Answered \cup {p}
      /\ \/ server' = "crashed"
         \/ Due(sent[p]) => p \in Answered'
  <2>1. CASE out' = out
      BY <1>2, <1>3, <2>1, AppendStep DEF TypeOK, Answered, Promise!Answered
  <2>2. CASE out' # out
      BY <1>1, <1>2, <1>3, <2>2, AppendStep
  <2> QED
      BY <2>1, <2>2
<1>5. ~Probing' /\ server' \in {"loop", "crashed"}
    BY <1>3 DEF Probing
<1>6. TypeOK'
    BY <1>1, <1>2, <1>4, <1>5 DEF TypeOK, client
<1>7. AnsweredWereTaken'
  <2>1. 1..(p - 1) \cup {p} \subseteq 1..p
      BY <1>1, <1>2
  <2> QED
      BY <1>1, <1>4, <2>1 DEF AnsweredWereTaken
<1>8. BufferIsTheServers'
    BY <1>2 DEF IInv, BufferIsTheServers
<1>9. NothingLeftBehind'
    BY <1>1, <1>4 DEF NothingLeftBehind, client
<1>10. UNCHANGED out \/ Promise!Answer(p)
  <2> SUFFICES ASSUME out' # out PROVE Promise!Answer(p)
      OBVIOUS
  <2>1. Due(sent[p]) /\ \E c \in Promise!Fitting(sent[p]) :
           out' = Append(out, Reply(p, c))
      BY <1>3
  <2>2. p \in DOMAIN sent
      BY <1>1, <1>2 DEF TypeOK
  <2> QED
      BY <1>1, <2>1, <2>2 DEF Promise!Answer, Answered, Due, Reply, AnswerId,
         Promise!AnswerId, client
<1> QED
    BY <1>5, <1>6, <1>7, <1>8, <1>9, <1>10 DEF IInv, ProbeOfCall

\* Taking a line from the buffer: fatal, a call that starts probes, or settled.
LEMMA HandleKeeps ==
    ASSUME IInv, Handle
    PROVE  IInv' /\ (UNCHANGED out \/ Promise!Answer(handled + 1))
<1> DEFINE p == handled + 1
<1>1. /\ p \in 1..Len(sent) /\ p <= ahead /\ p \notin Answered \cup eaten
      /\ Answered \subseteq 1..(p - 1)
      /\ \A q \in 1..(p - 1) : Due(sent[q]) => q \in Answered \cup eaten
    BY AtHand DEF Handle
<1>2. /\ ahead \in Nat /\ handled \in Nat /\ handled' = p /\ server = "loop"
      /\ handled < ahead /\ UNCHANGED <<client, pulled, ahead, eaten>>
    BY DEF IInv, TypeOK, Handle
<1>3. BufferIsTheServers'
    BY <1>2 DEF IInv, BufferIsTheServers
<1>4. NoProbe \in Probe /\ FreshProbe \subseteq Probe
    BY BoundAssumption DEF NoProbe, FreshProbe, Probe
<1>5. CASE Fatal(sent[p])
  <2>1. server' = "crashed" /\ UNCHANGED out /\ probe' = NoProbe
      BY <1>5 DEF Handle, Fatal, StartsProbes, CallsTool
  <2>2. Answered' = Answered /\ ~Probing'
      BY <2>1 DEF Answered, Promise!Answered, Probing
  <2>3. TypeOK'
      BY <1>1, <1>2, <1>4, <2>1 DEF IInv, TypeOK, client
  <2>4. AnsweredWereTaken'
      BY <1>1, <1>2, <2>2 DEF AnsweredWereTaken
  <2> QED
      BY <1>3, <2>1, <2>2, <2>3, <2>4 DEF IInv, ProbeOfCall, NothingLeftBehind
<1>6. CASE StartsProbes(sent[p])
  <2>1. server' = "plain" /\ UNCHANGED out /\ probe' \in FreshProbe
      BY <1>6 DEF Handle, Fatal, StartsProbes, CallsTool
  <2>2. Answered' = Answered /\ Probing'
      BY <2>1 DEF Answered, Promise!Answered, Probing
  <2>3. TypeOK'
      BY <1>1, <1>2, <1>4, <2>1 DEF IInv, TypeOK, client
  <2>4. AnsweredWereTaken'
      BY <1>1, <1>2, <2>2 DEF AnsweredWereTaken
  <2>5. ProbeOfCall'
      BY <1>1, <1>2, <1>6, <2>1, <2>2 DEF ProbeOfCall, StartsProbes, FreshProbe, client
  <2>6. NothingLeftBehind'
      BY <1>1, <1>2, <2>2 DEF NothingLeftBehind, client
  <2> QED
      BY <1>3, <2>1, <2>3, <2>4, <2>5, <2>6 DEF IInv
<1>7. CASE ~Fatal(sent[p]) /\ ~StartsProbes(sent[p])
  <2>1. probe' = NoProbe /\ \E o \in QuickOutcomes(sent[p]) : Send(p, o)
      BY <1>7 DEF Handle
  <2>2. PICK o \in {"result", "toolError"} : Send(p, o)
      BY <2>1, QuickFare
  <2> QED
      BY <1>2, <1>4, <1>7, <2>1, <2>2, SettleKeeps
<1> QED
    BY <1>5, <1>6, <1>7

\* The call being probed is one the server survives.
LEMMA ProbedIsSurvived == IInv /\ Probing => ~Fatal(sent[handled])
BY DEF IInv, ProbeOfCall, CallsTool, Fatal

\* The end of a call's probes settles the call.
LEMMA EndKeeps ==
    ASSUME IInv, Probing, NEW o \in {"result", "toolError"}, Send(handled, o),
           probe' \in Probe, UNCHANGED <<client, buffers>>
    PROVE  IInv' /\ (UNCHANGED out \/ Promise!Answer(handled))
BY ProbedIsSurvived, SettleKeeps DEF buffers

\* The end of a probe keeps the invariant and is an Answer of the promise, or none.
LEMMA ConcludeKeeps ==
    ASSUME IInv, Probing, NEW v \in {"inconclusive", "dispatched", "notDispatched"},
           Conclude(v)
    PROVE  IInv' /\ (UNCHANGED out \/ Promise!Answer(handled))
<1>1. probe' \in Probe
    BY DEF IInv, TypeOK, Conclude, Probe
<1> QED
    BY <1>1, EndKeeps DEF Conclude

\* verify_dispatch has three verdicts.
LEMMA VerdictsAreThree ==
    ASSUME NEW s, NEW h
    PROVE  verdict_of(s, h) \in {"inconclusive", "dispatched", "notDispatched"}
BY DEF verdict_of

\* A probe's steps: it goes on, or its call is settled.
LEMMA ProbeKeeps ==
    ASSUME IInv, TimesOut \/ ProbeRaises \/ LldbEnds \/ KernelRuns \/ ProgramEnds
    PROVE  IInv' /\ UNCHANGED <<sent, eaten>>
                 /\ (UNCHANGED out \/ Promise!Answer(handled))
<1>1. CASE \E v \in {"inconclusive", "dispatched", "notDispatched"} :
               Probing /\ Conclude(v)
    BY <1>1, ConcludeKeeps DEF Conclude, client, buffers
<1>2. CASE TimesOut
  <2>1. CASE server = "plain" /\ server' = "lldb"
             /\ UNCHANGED <<client, buffers, out, probe>>
    <3>1. TypeOK' /\ Probing /\ Probing'
        BY <2>1 DEF IInv, TypeOK, client, buffers, Probing
    <3> QED
        BY <2>1, <3>1, QuietKeeps DEF client, buffers
  <2> QED
      BY <1>1, <1>2, <2>1 DEF TimesOut, PlainEnds, Probing
<1>3. CASE ProbeRaises
    BY <1>3, EndKeeps DEF ProbeRaises, IInv, TypeOK, client, buffers
<1>4. CASE LldbEnds
    BY <1>1, <1>4, VerdictsAreThree DEF LldbEnds, Probing
<1>5. CASE KernelRuns \/ ProgramEnds
  <2>1. /\ probe' \in Probe /\ probe'.verdict = probe.verdict
        /\ UNCHANGED <<client, buffers, out, server>>
      BY <1>5, BoundAssumption DEF KernelRuns, ProgramEnds, IInv, TypeOK, Probe
  <2>2. TypeOK'
      BY <2>1 DEF IInv, TypeOK, client, buffers
  <2> QED
      BY <2>1, <2>2, QuietKeeps DEF client, buffers
<1> QED
    BY <1>2, <1>3, <1>4, <1>5

\* Steps after which nobody has another line: the client closes or goes, the
\* loop ends, and stuttering.
LEMMA EndingsKeep ==
    ASSUME IInv, Close \/ EndOfInput \/ UNCHANGED vars
    PROVE  IInv' /\ UNCHANGED <<sent, eaten, out>>
<1>1. TypeOK' /\ UNCHANGED <<sent, buffers, out, probe>>
    BY DEF Close, EndOfInput, IInv, TypeOK, client, buffers, vars
<1>2. \/ server' = server
      \/ ~Probing /\ ~Probing' /\ server # "crashed"
    BY DEF Close, EndOfInput, vars, Probing
<1> QED
    BY <1>1, <1>2, QuietKeeps DEF buffers

\* Every step keeps the invariant.
LEMMA NextIInv == IInv /\ [Next]_vars => IInv'
<1> SUFFICES ASSUME IInv, [Next]_vars PROVE IInv'
    OBVIOUS
<1>1. CASE Write
    BY <1>1, WriteKeeps
<1>2. CASE Loop
    BY <1>2, FillKeeps, EndingsKeep, HandleKeeps DEF Loop
<1>3. CASE ProbeStep
    BY <1>3, ProbeKeeps, ChildReadsKeeps DEF ProbeStep
<1>4. CASE Close \/ UNCHANGED vars
    BY <1>4, EndingsKeep
<1> QED
    BY <1>1, <1>2, <1>3, <1>4 DEF Next

\* The invariant holds in every state.
LEMMA IInvInvariant == Spec => []IInv
BY InitIInv, NextIInv, PTL DEF Spec

\* The variables keep their types, and lines go from the pipe to the buffer to
\* the dispatcher in order: never more handled than read ahead, never more read
\* ahead than pulled.
THEOREM TypesHold == Spec => []TypeOK
BY IInvInvariant, PTL DEF IInv

-----------------------------------------------------------------------------
(* What the client is promised.                                            *)

\* A line a child reads is lost while an earlier call is open.
LEMMA ChildLoses == IInv /\ ChildReads => Promise!Lose(pulled + 1)
<1> SUFFICES ASSUME IInv, ChildReads PROVE Promise!Lose(pulled + 1)
    OBVIOUS
<1>1. /\ pulled \in Nat /\ handled \in Nat /\ handled <= pulled
      /\ pulled < Len(sent) /\ sent \in Seq(Traffic)
      /\ eaten' = eaten \cup {pulled + 1} /\ Probing
      /\ UNCHANGED <<sent, out>>
    BY DEF IInv, TypeOK, ChildReads, client
<1>2. pulled + 1 \in DOMAIN sent \ Promise!Answered
    BY <1>1 DEF IInv, AnsweredWereTaken, Answered
<1>3. /\ handled \in 1..((pulled + 1) - 1) /\ Promise!CallsTool(sent[handled])
      /\ handled \notin Promise!Answered \cup eaten
    BY <1>1 DEF IInv, ProbeOfCall, Answered, CallsTool, HandlerRaises,
       Promise!CallsTool, Promise!HandlerRaises
<1> QED
    BY <1>1, <1>2, <1>3 DEF Promise!Lose

\* Every step of the server is a step of the promise, or none.
LEMMA StepsKeepPromise ==
    IInv /\ [Next]_vars => [Promise!ConversationNext]_(Promise!conversation)
<1> SUFFICES ASSUME IInv, [Next]_vars
             PROVE  Promise!ConversationNext \/ UNCHANGED Promise!conversation
    OBVIOUS
<1> USE DEF Promise!conversation
<1>1. CASE Write
    BY <1>1 DEF Write, buffers, Promise!ConversationNext, Promise!Ask
<1>2. ASSUME NEW p, Promise!Answer(p)
      PROVE  Promise!ConversationNext
    BY <1>2 DEF Promise!ConversationNext, Promise!Answer
<1>3. CASE Handle
    BY <1>2, <1>3, HandleKeeps DEF Handle, client
<1>4. CASE TimesOut \/ ProbeRaises \/ LldbEnds \/ KernelRuns \/ ProgramEnds
    BY <1>2, <1>4, ProbeKeeps
<1>5. CASE ChildReads
    BY <1>5, ChildLoses DEF Promise!ConversationNext, Promise!Lose
<1>6. CASE Fill
    BY <1>6 DEF Fill, client
<1>7. CASE Close \/ EndOfInput \/ UNCHANGED vars
    BY <1>7, EndingsKeep
<1> QED
    BY <1>1, <1>3, <1>4, <1>5, <1>6, <1>7 DEF Next, Loop, ProbeStep

\* The server implements Conversation, for any ids, any lines, any number of
\* them and any calls of the kernel: a request is answered at most once, with
\* its id, in order and fittingly, a notification never, and a request is passed
\* over only if a child of an open call read it.
THEOREM PromiseIsKept == Spec => KeepsPromise
<1>1. Init => Promise!ConversationInit
    BY DEF Init, Promise!ConversationInit
<1> QED
    BY <1>1, StepsKeepPromise, IInvInvariant, PTL
    DEF Spec, KeepsPromise, Promise!ConversationSpec

-----------------------------------------------------------------------------
(* The verdict of verify_dispatch.                                         *)

\* A DISPATCHED or NOT DISPATCHED answer is about a program that ended under
\* lldb with the kernel among its symbols, and says whether the kernel ran: a
\* time limit, a failure or a missing symbol never yields either.
THEOREM VerdictsAreTrue == Spec => []VerdictIsTrue
<1>1. Init => VerdictIsTrue
    BY DEF Init, NoProbe, VerdictIsTrue
<1>2. IInv /\ VerdictIsTrue /\ [Next]_vars => VerdictIsTrue'
  <2> SUFFICES ASSUME IInv, VerdictIsTrue, [Next]_vars PROVE VerdictIsTrue'
      OBVIOUS
  <2> USE DEF VerdictIsTrue
  <2>1. CASE UNCHANGED probe
      BY <2>1
  <2>2. CASE Handle
      BY <2>2 DEF Handle, NoProbe, FreshProbe
  <2>3. probe \in Probe
      BY DEF IInv, TypeOK
  <2>4. CASE Conclude("inconclusive")
      BY <2>3, <2>4 DEF Conclude, Probe
  <2>5. CASE LldbEnds
    <3>1. PICK summary \in BOOLEAN :
              /\ summary => probe.ended # "no" /\ probe.visible
              /\ Conclude(verdict_of(summary, probe.calls))
        BY <2>5 DEF LldbEnds
    <3>2. /\ probe'.verdict = verdict_of(summary, probe.calls)
          /\ probe'.calls = probe.calls /\ probe'.visible = probe.visible
          /\ probe'.ended = probe.ended
        BY <2>3, <3>1 DEF Conclude, Probe
    <3> QED
        BY <3>1, <3>2 DEF verdict_of
  <2>6. CASE KernelRuns \/ ProgramEnds
    <3>1. probe'.verdict = "none"
        BY <2>3, <2>6 DEF KernelRuns, ProgramEnds, IInv, ProbeOfCall, Probing, Probe
    <3> QED
        BY <3>1
  <2>7. CASE TimesOut
      BY <2>1, <2>4, <2>7 DEF TimesOut, PlainEnds
  <2> QED
      BY <2>1, <2>2, <2>5, <2>6, <2>7 DEF Next, Loop, ProbeStep, Write, Close,
         Fill, EndOfInput, ProbeRaises, ChildReads, vars
<1> QED
    BY <1>1, <1>2, IInvInvariant, PTL DEF Spec
=============================================================================
