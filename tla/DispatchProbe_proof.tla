-------------------------- MODULE DispatchProbe_proof --------------------------
(***************************************************************************)
(* The functions a probe's result is judged by, and the session that gives *)
(* it: lemmas about the classification of symbols and the verdicts; every  *)
(* step of a debugger session preserves its type and ProbeInv.             *)
(***************************************************************************)
EXTENDS DispatchProbe, WellFoundedInduction, TLAPS

-----------------------------------------------------------------------------
(* Classification and verdicts.                                            *)

\* Every nonempty set of naturals has a least element.
LEMMA LeastElement ==
    ASSUME NEW T, T \subseteq Nat, T # {}
    PROVE  \E x \in T : \A y \in T : x <= y
<1> DEFINE R == {ss \in Nat \X Nat : ss[1] < ss[2]}
<1>1. IsWellFoundedOn(R, Nat)
    BY NatLessThanWellFounded DEF OpToRel
<1> HIDE DEF R
<1>2. PICK x \in T : \A z \in T : ~ (<<z, x>> \in R)
    BY <1>1, WFMin
<1>3. ASSUME NEW y \in T PROVE x <= y
  <2>1. ~ (<<y, x>> \in R)
    BY <1>2
  <2>2. x \in Nat /\ y \in Nat
    OBVIOUS
  <2>3. y < x => <<y, x>> \in R
    BY <2>2 DEF R
  <2> QED
    BY <2>1, <2>2, <2>3
<1> QED
    BY <1>3

\* The first token, in order, of a symbol that has one: the CHOOSE of
\* classify_symbol_family has exactly one candidate.
LEMMA FirstTokenExists ==
    ASSUME NEW s \in Symbols, TokensIn[s] # {}
    PROVE  \E i \in 1..Len(FamilyOrder) :
              /\ FamilyOrder[i] \in TokensIn[s]
              /\ \A j \in 1..Len(FamilyOrder) :
                    FamilyOrder[j] \in TokensIn[s] => i <= j
<1> DEFINE T == {i \in 1..Len(FamilyOrder) : FamilyOrder[i] \in TokensIn[s]}
<1>1. T # {} /\ T \subseteq Nat
    BY EvidenceAssumption DEF Tokens
<1>2. PICK i \in T : \A j \in T : i <= j
    BY <1>1, LeastElement
<1> QED
    BY <1>2

\* classify_symbol_family returns a family of the vocabulary.
LEMMA ClassifyInFamilies ==
    ASSUME NEW s \in Symbols
    PROVE  classify_symbol_family(s) \in Families
<1>1. CASE TokensIn[s] = {}
    BY <1>1 DEF classify_symbol_family, Families
<1>2. CASE TokensIn[s] # {}
  <2>1. classify_symbol_family(s) \in TokensIn[s]
    BY <1>2, FirstTokenExists DEF classify_symbol_family
  <2> QED
    BY <2>1, EvidenceAssumption DEF Families
<1> QED
    BY <1>1, <1>2

\* classify_symbol_family answers f exactly when f is in the name and no
\* token listed before f is: sme2 is never taken for sme.
LEMMA ClassifyIsBelongs ==
    ASSUME NEW s \in Symbols, NEW f
    PROVE  classify_symbol_family(s) = f <=> Belongs(s, f)
<1>1. CASE TokensIn[s] = {}
    BY <1>1 DEF classify_symbol_family, Belongs
<1>2. CASE TokensIn[s] # {}
  <2> DEFINE First(i) == /\ FamilyOrder[i] \in TokensIn[s]
                         /\ \A j \in 1..Len(FamilyOrder) :
                               FamilyOrder[j] \in TokensIn[s] => i <= j
             c == CHOOSE i \in 1..Len(FamilyOrder) : First(i)
  <2>0. Len(FamilyOrder) \in Nat
    BY EvidenceAssumption
  <2>1. c \in 1..Len(FamilyOrder) /\ First(c)
    BY <1>2, FirstTokenExists
  <2>2. classify_symbol_family(s) = FamilyOrder[c]
    BY <1>2 DEF classify_symbol_family
  <2> HIDE DEF c
  <2>3. Belongs(s, FamilyOrder[c])
    BY <1>2, <2>0, <2>1 DEF Belongs
  <2>4. ASSUME Belongs(s, f) PROVE FamilyOrder[c] = f
    <3>1. PICK j \in 1..Len(FamilyOrder) :
             /\ FamilyOrder[j] = f
             /\ \A i \in 1..(j - 1) : FamilyOrder[i] \notin TokensIn[s]
      BY <1>2, <2>4 DEF Belongs
    <3>2. f \in TokensIn[s]
      BY <1>2, <2>4 DEF Belongs
    <3>3. c = j
      BY <2>0, <2>1, <3>1, <3>2
    <3> QED
      BY <3>1, <3>3
  <2> QED
    BY <2>2, <2>3, <2>4
<1> QED
    BY <1>1, <1>2

\* The headlines that fit each exit code.
LEMMA HeadlineOfCodes ==
    /\ HeadlineOf(0) = {"MATCH"}
    /\ HeadlineOf(1) = {"MISMATCH"}
    /\ HeadlineOf(2) = {"UNDETERMINED", "L1 ONLY"}
BY DEF HeadlineOf

\* The verdict, the exit code and the headline that run_target_check derives
\* from the same text and probe result say the same, except for the texts and
\* results of Misread, and for those they never do: what the one function
\* strips and the others leave is exactly what they can differ on.
LEMMA HeadlineMatchesCode ==
    ASSUME NEW adv \in Claims, NEW r \in L3Result
    PROVE  render_headline(compute_verdict(adv, r), adv)
              \in HeadlineOf(cli_exit_code(adv, r))
           <=> ~Misread(adv, r)
<1> DEFINE v == compute_verdict(adv, r)
           h == render_headline(v, adv)
           code == cli_exit_code(adv, r)
<1> SUFFICES h \in HeadlineOf(code) <=> ~Misread(adv, r)
    OBVIOUS
<1>1. CASE ~r.available \/ r.timed_out \/ ~r.completed
  <2>1. v \in {"L3_UNAVAILABLE", "L3_TIMEOUT", "L3_ERROR"}
    BY <1>1 DEF compute_verdict
  <2>2. code = 2
    BY <1>1 DEF cli_exit_code
  <2>3. h = "UNDETERMINED"
    BY <2>1 DEF render_headline
  <2> QED
    BY <1>1, <2>2, <2>3, HeadlineOfCodes DEF Misread
<1>2. CASE r.available /\ ~r.timed_out /\ r.completed
  <2>1. CASE ~AnyHit(r.hits)
    <3>1. v = "NO_DISPATCH_OBSERVED"
      BY <1>2, <2>1 DEF compute_verdict
    <3>2. \A f : ~FamilyHit(r.hits, f)
      BY <2>1 DEF AnyHit, FamilyHit
    <3>3. h = IF adv = NoClaim THEN "UNDETERMINED" ELSE "MISMATCH"
      BY <3>1 DEF render_headline
    <3>4. code = IF NamesNothing(strip(adv)) THEN 2 ELSE 1
      BY <1>2, <3>2 DEF cli_exit_code, ClaimHit
    <3>5. Misread(adv, r) <=> NamesNothing(strip(adv)) /\ adv # NoClaim
      BY <1>2, <2>1, <3>2 DEF Misread
    <3>6. adv = NoClaim => NamesNothing(strip(adv))
      BY DEF NamesNothing, strip, NoClaim, Text
    <3> HIDE DEF h, code, v
    <3> QED
      BY <3>3, <3>4, <3>5, <3>6, HeadlineOfCodes
  <2>2. CASE AnyHit(r.hits) /\ NamesNothing(strip(adv))
    <3>1. code = 2
      BY <1>2, <2>2 DEF cli_exit_code
    <3>2. ASSUME ~adv.padded PROVE h = "UNDETERMINED" /\ ~Misread(adv, r)
      <4>1. strip(adv) = adv
        <5>1. adv.padded = FALSE
          BY <3>2 DEF Claims
        <5> QED
          BY <5>1 DEF strip, Text, Claims
      <4>2. v = "EXECUTED_NO_ADVERTISED_FEATURE"
        BY <1>2, <2>2, <4>1 DEF compute_verdict
      <4>3. h = "UNDETERMINED"
        BY <4>2 DEF render_headline
      <4> QED
        BY <2>2, <3>2, <4>3 DEF Misread
    <3>3. ASSUME adv.padded PROVE h = "MISMATCH" /\ Misread(adv, r)
      <4>1. ~NamesNothing(adv) /\ adv # NoClaim
        BY <3>3 DEF NamesNothing, NoClaim, BlankClaim, Text
      <4>2. v = "SILENT_FALLBACK"
        BY <1>2, <2>2, <3>3, <4>1 DEF compute_verdict, ClaimHit
      <4>3. h = "MISMATCH"
        BY <4>2 DEF render_headline
      <4> QED
        BY <1>2, <2>2, <3>3, <4>1, <4>3 DEF Misread
    <3> HIDE DEF h, code, v
    <3> QED
      BY <3>1, <3>2, <3>3, HeadlineOfCodes
  <2>3. CASE AnyHit(r.hits) /\ ~NamesNothing(strip(adv))
    <3>1. ~NamesNothing(adv)
      <4>1. strip(NoClaim) = NoClaim /\ strip(BlankClaim) = BlankClaim
        BY DEF strip, NoClaim, BlankClaim, Text
      <4> QED
        BY <2>3, <4>1 DEF NamesNothing
    <3>2. Misread(adv, r) <=> adv.padded /\ FamilyHit(r.hits, adv.word)
      BY <1>2, <2>3 DEF Misread
    <3>3. code = IF FamilyHit(r.hits, adv.word) THEN 0 ELSE 1
      BY <1>2, <2>3 DEF cli_exit_code, ClaimHit, strip, Text
    <3>4. CASE ~ClaimHit(r.hits, adv)
      <4>1. v = "SILENT_FALLBACK"
        BY <1>2, <2>3, <3>1, <3>4 DEF compute_verdict
      <4>2. h = "MISMATCH"
        BY <4>1 DEF render_headline
      <4>3. Misread(adv, r) <=> FamilyHit(r.hits, adv.word)
        BY <3>2, <3>4 DEF ClaimHit
      <4> HIDE DEF h, code, v
      <4> QED
        BY <3>3, <4>2, <4>3, HeadlineOfCodes
    <3>5. CASE ClaimHit(r.hits, adv)
      <4>1. v \in {"HYBRID_DISPATCH", "DISPATCHED"}
        BY <1>2, <2>3, <3>1, <3>5 DEF compute_verdict
      <4>2. h = "MATCH"
        BY <4>1 DEF render_headline
      <4>3. ~Misread(adv, r) /\ FamilyHit(r.hits, adv.word)
        BY <3>2, <3>5 DEF ClaimHit
      <4> HIDE DEF h, code, v
      <4> QED
        BY <3>3, <4>2, <4>3, HeadlineOfCodes
    <3> QED
      BY <3>4, <3>5
  <2> QED
    BY <2>1, <2>2, <2>3
<1> QED
    BY <1>1, <1>2 DEF L3Result

-----------------------------------------------------------------------------
(* The session.                                                            *)

\* A debugger session that has not begun satisfies the session's invariant.
LEMMA ProbeInitInv ==
    ASSUME ProbeInit
    PROVE  ProbeTypeOK /\ ProbeInv
<1> USE ProbeAssumption DEF ProbeInit, NoHits, L3Failed
<1>1. ProbeTypeOK
  <2>1. l3 \in L3Result
    BY DEF L3Result
  <2>2. calls \in [Symbols -> 0..MaxCalls] /\ hits \in [Symbols -> 0..MaxCalls]
    OBVIOUS
  <2> QED
    BY <2>1, <2>2 DEF ProbeTypeOK, Sessions, Inferiors
<1>2. CountersExact /\ PhaseInv
    BY DEF CountersExact, PhaseInv
<1>3. BreakpointInv /\ ResultInv
    BY DEF BreakpointInv, ResultInv
<1> QED
    BY <1>1, <1>2, <1>3 DEF ProbeInv

\* Whatever is read out of the result block is a table of hits.
LEMMA ReadingsType ==
    ASSUME ProbeTypeOK, NEW h \in Readings
    PROVE  h \in [Symbols -> Nat]
<1>1. hits \in [Symbols -> Nat] /\ NoHits \in [Symbols -> Nat]
    BY ProbeAssumption DEF ProbeTypeOK, NoHits
<1>2. CASE printed = "results"
    BY <1>1, <1>2 DEF Readings
<1>3. CASE printed = "part"
    BY <1>3, ProbeAssumption DEF Readings
<1>4. CASE printed \notin {"results", "part"}
    BY <1>1, <1>4 DEF Readings
<1> QED
    BY <1>2, <1>3, <1>4

\* No kernel is read as hit that the debugger did not count.
LEMMA ReadingsBelow ==
    ASSUME ProbeTypeOK, NEW h \in Readings, NEW s \in Symbols, h[s] > 0
    PROVE  hits[s] > 0 /\ printed \in {"part", "results"}
<1>1. hits[s] \in Nat /\ h[s] \in Nat
    BY ReadingsType, ProbeAssumption DEF ProbeTypeOK
<1>2. CASE printed = "results"
    BY <1>2 DEF Readings
<1>3. CASE printed = "part"
    BY <1>1, <1>3 DEF Readings
<1>4. CASE printed \notin {"results", "part"}
    BY <1>4 DEF Readings, NoHits
<1> QED
    BY <1>2, <1>3, <1>4

\* Calling a lane of the debugger layer keeps the invariant.
LEMMA BeginInv ==
    ASSUME ProbeTypeOK, ProbeInv, NEW d \in Debuggers, Begin(d)
    PROVE  ProbeTypeOK' /\ ProbeInv'
<1> USE DEF Begin, ProbeTypeOK, Sessions
<1>1. ProbeTypeOK'
    OBVIOUS
<1>2. CountersExact' /\ PhaseInv'
    BY DEF ProbeInv, CountersExact, PhaseInv
<1>3. BreakpointInv' /\ ResultInv'
    BY DEF ProbeInv, BreakpointInv, ResultInv
<1> QED
    BY <1>1, <1>2, <1>3 DEF ProbeInv

\* Doing without a debugger keeps the invariant: nothing was created or run.
LEMMA DeclineInv ==
    ASSUME ProbeTypeOK, ProbeInv, NEW d \in Debuggers \cup {"none"}, Decline(d)
    PROVE  ProbeTypeOK' /\ ProbeInv'
<1> USE DEF Decline, Finish, ProbeTypeOK, Sessions, L3Failed
<1>1. ProbeTypeOK'
    BY DEF L3Result, NoHits
<1>2. CountersExact' /\ PhaseInv'
    BY DEF ProbeInv, CountersExact, PhaseInv
<1>3. BreakpointInv' /\ ResultInv'
    BY DEF ProbeInv, BreakpointInv, ResultInv
<1> QED
    BY <1>1, <1>2, <1>3 DEF ProbeInv

-----------------------------------------------------------------------------
\* What the driver does before the program runs.
LEMMA SetupInv ==
    ASSUME ProbeTypeOK, ProbeInv,
           DebuggerMissing \/ Enumerate \/ SkipEnumerate \/ Launch
    PROVE  ProbeTypeOK' /\ ProbeInv'
<1>1. CASE DebuggerMissing
  <2> USE <1>1 DEF DebuggerMissing, Finish, L3Failed
  <2>1. ProbeTypeOK'
    BY DEF ProbeTypeOK, Sessions, L3Result, NoHits
  <2>2. CountersExact' /\ PhaseInv'
    BY DEF ProbeInv, CountersExact, PhaseInv
  <2>3. BreakpointInv' /\ ResultInv'
    BY DEF ProbeInv, BreakpointInv, ResultInv
  <2> QED
    BY <2>1, <2>2, <2>3 DEF ProbeInv
<1>2. CASE Enumerate
  <2> USE <1>2 DEF Enumerate, Finish, L3Failed
  <2>1. PICK ok \in SUBSET Modes :
           /\ requested' = nm_symbol_lines(ok)
           /\ IF nm_symbol_lines(ok) = {}
              THEN session' = "done" /\ l3' = L3Failed(FALSE, FALSE)
              ELSE session' = "instrument" /\ UNCHANGED l3
    OBVIOUS
  <2>2. nm_symbol_lines(ok) \subseteq Symbols
    BY ProbeAssumption DEF nm_symbol_lines
  <2>3. L3Failed(FALSE, FALSE) \in L3Result
    BY DEF L3Result, NoHits
  <2>4. ProbeTypeOK'
    BY <2>1, <2>2, <2>3 DEF ProbeTypeOK, Sessions
  <2>5. CountersExact' /\ PhaseInv'
    BY <2>1 DEF ProbeInv, CountersExact, PhaseInv
  <2>6. BreakpointInv' /\ ResultInv'
    BY <2>1 DEF ProbeInv, BreakpointInv, ResultInv
  <2> QED
    BY <2>4, <2>5, <2>6 DEF ProbeInv
<1>3. CASE SkipEnumerate
  <2> USE <1>3 DEF SkipEnumerate
  <2>1. ProbeTypeOK'
    BY DEF ProbeTypeOK, Sessions
  <2>2. CountersExact' /\ PhaseInv'
    BY DEF ProbeInv, CountersExact, PhaseInv
  <2>3. BreakpointInv' /\ ResultInv'
    BY DEF ProbeInv, BreakpointInv, ResultInv
  <2> QED
    BY <2>1, <2>2, <2>3 DEF ProbeInv
<1>4. CASE Launch
  <2> USE <1>4 DEF Launch
  <2>1. ProbeTypeOK'
    BY DEF ProbeTypeOK, Sessions, Inferiors
  <2>2. CountersExact' /\ PhaseInv'
    BY DEF ProbeInv, CountersExact, PhaseInv
  <2>3. BreakpointInv' /\ ResultInv'
    BY DEF ProbeInv, BreakpointInv, ResultInv
  <2> QED
    BY <2>1, <2>2, <2>3 DEF ProbeInv
<1> QED
    BY <1>1, <1>2, <1>3, <1>4

\* Breakpoints are set while no call has been counted.
LEMMA InstrumentInv ==
    ASSUME ProbeTypeOK, ProbeInv, Instrument
    PROVE  ProbeTypeOK' /\ ProbeInv'
<1> USE DEF Instrument
<1>2. created' \subseteq Symbols
    BY DEF ProbeTypeOK
<1>3. ProbeTypeOK'
    BY <1>2 DEF ProbeTypeOK, Sessions
<1>4. CountersExact' /\ PhaseInv'
    BY DEF ProbeInv, CountersExact, PhaseInv, NoHits
<1>5. BreakpointInv'
    BY DEF ProbeInv, BreakpointInv
<1>6. ResultInv'
    BY DEF ProbeInv, ResultInv
<1> QED
    BY <1>3, <1>4, <1>5, <1>6 DEF ProbeInv

-----------------------------------------------------------------------------
\* A call is counted when, and only when, its symbol has a breakpoint.
LEMMA CallInv ==
    ASSUME ProbeTypeOK, ProbeInv, NEW k \in Symbols, CallKernel(k)
    PROVE  ProbeTypeOK' /\ ProbeInv'
<1>1. calls' \in [Symbols -> 0..MaxCalls]
    BY ProbeAssumption DEF ProbeTypeOK, CallKernel
<1>2. armed = created
    BY DEF ProbeInv, BreakpointInv, CallKernel
<1>3. CountersExact'
  <2>1. hits' = [s \in Symbols |-> IF s \in created THEN calls'[s] ELSE 0]
    BY <1>2 DEF ProbeInv, CountersExact, ProbeTypeOK, CallKernel
  <2> QED
    BY <2>1 DEF CountersExact, CallKernel
<1>4. hits' \in [Symbols -> 0..MaxCalls]
    BY <1>1, <1>3, ProbeAssumption DEF CountersExact
<1>5. ProbeTypeOK'
    BY <1>1, <1>4 DEF ProbeTypeOK, CallKernel
<1>6. PhaseInv'
    BY DEF ProbeInv, PhaseInv, CallKernel
<1>7. BreakpointInv' /\ ResultInv'
    BY DEF ProbeInv, BreakpointInv, ResultInv, PhaseInv, CallKernel
<1> QED
    BY <1>3, <1>5, <1>6, <1>7 DEF ProbeInv

\* What the program does by itself.
LEMMA ProgramInv ==
    ASSUME ProbeTypeOK, ProbeInv, ProgramNext
    PROVE  ProbeTypeOK' /\ ProbeInv'
<1>1. CASE LoadLibrary
  <2> USE <1>1 DEF LoadLibrary
  <2>1. ProbeTypeOK'
    BY DEF ProbeTypeOK, Sessions, Inferiors
  <2>2. CountersExact' /\ PhaseInv'
    BY DEF ProbeInv, CountersExact, PhaseInv
  <2>3. BreakpointInv' /\ ResultInv'
    BY DEF ProbeInv, BreakpointInv, ResultInv, PhaseInv
  <2> QED
    BY <2>1, <2>2, <2>3 DEF ProbeInv
<1>2. CASE InferiorEnds
  <2> USE <1>2 DEF InferiorEnds
  <2>1. ProbeTypeOK'
    BY DEF ProbeTypeOK, Sessions, Inferiors
  <2>2. CountersExact' /\ PhaseInv'
    BY DEF ProbeInv, CountersExact, PhaseInv
  <2>3. BreakpointInv' /\ ResultInv'
    BY DEF ProbeInv, BreakpointInv, ResultInv, PhaseInv
  <2> QED
    BY <2>1, <2>2, <2>3 DEF ProbeInv
<1> QED
    BY <1>1, <1>2, CallInv DEF ProgramNext

\* The script's end, and the deaths of the debugger and of the session.
LEMMA EndInv ==
    ASSUME ProbeTypeOK, ProbeInv,
           PrintResults \/ ScriptAborts \/ DebuggerDies \/ ProbeTimeout
    PROVE  ProbeTypeOK' /\ ProbeInv'
<1>1. CASE PrintResults
  <2> USE <1>1 DEF PrintResults
  <2>1. ProbeTypeOK'
    BY DEF ProbeTypeOK, Sessions, Inferiors
  <2>2. CountersExact' /\ PhaseInv'
    BY DEF ProbeInv, CountersExact, PhaseInv
  <2>3. BreakpointInv' /\ ResultInv'
    BY DEF ProbeInv, BreakpointInv, ResultInv, PhaseInv
  <2> QED
    BY <2>1, <2>2, <2>3 DEF ProbeInv
<1>2. CASE ScriptAborts
  <2> USE <1>2 DEF ScriptAborts
  <2>1. ProbeTypeOK'
    BY DEF ProbeTypeOK, Sessions, Inferiors
  <2>2. CountersExact' /\ PhaseInv'
    BY DEF ProbeInv, CountersExact, PhaseInv
  <2>3. BreakpointInv' /\ ResultInv'
    BY DEF ProbeInv, BreakpointInv, ResultInv, PhaseInv
  <2> QED
    BY <2>1, <2>2, <2>3 DEF ProbeInv
<1>3. CASE DebuggerDies
  <2> USE <1>3 DEF DebuggerDies, DebuggerUp
  <2>1. ProbeTypeOK'
    BY DEF ProbeTypeOK, Sessions, Inferiors
  <2>2. CountersExact' /\ PhaseInv'
    BY DEF ProbeInv, CountersExact, PhaseInv
  <2>3. BreakpointInv' /\ ResultInv'
    BY DEF ProbeInv, BreakpointInv, ResultInv, PhaseInv
  <2> QED
    BY <2>1, <2>2, <2>3 DEF ProbeInv
<1>4. CASE ProbeTimeout
  <2> USE <1>4 DEF ProbeTimeout, DebuggerUp, Finish, L3Failed
  <2>1. ProbeTypeOK'
    BY DEF ProbeTypeOK, Sessions, Inferiors, L3Result, NoHits
  <2>2. CountersExact' /\ PhaseInv'
    BY DEF ProbeInv, CountersExact, PhaseInv
  <2>3. BreakpointInv' /\ ResultInv'
    BY DEF ProbeInv, BreakpointInv, ResultInv, PhaseInv
  <2> QED
    BY <2>1, <2>2, <2>3 DEF ProbeInv
<1> QED
    BY <1>1, <1>2, <1>3, <1>4

\* What is handed back is read out of what was printed; a gdb session without
\* a breakpoint hands back nothing.
LEMMA ParseInv ==
    ASSUME ProbeTypeOK, ProbeInv, ParseGdb \/ ParseLldb
    PROVE  ProbeTypeOK' /\ ProbeInv'
<1>1. /\ session = "parse" /\ session' = "done"
      /\ UNCHANGED <<installed, debugger, requested, created, loaded, armed,
                     inferior, calls, hits, printed>>
      /\ \/ l3' = L3Failed(TRUE, FALSE)
         \/ \E h \in Readings :
               l3' = L3Completed(h) /\ (debugger = "gdb" => created # {})
  <2>1. CASE ParseGdb /\ (printed = "nothing" \/ created = {})
    BY <2>1 DEF ParseGdb, Finish
  <2>2. CASE ParseGdb /\ ~(printed = "nothing" \/ created = {})
    BY <2>2 DEF ParseGdb, Finish
  <2>3. CASE ParseLldb
    BY <2>3 DEF ParseLldb, Finish
  <2> QED
    BY <2>1, <2>2, <2>3
<1>2. ProbeTypeOK'
  <2>1. L3Failed(TRUE, FALSE) \in L3Result
    BY DEF L3Failed, L3Result, NoHits
  <2>2. \A h \in Readings : L3Completed(h) \in L3Result
    BY ReadingsType DEF L3Completed, L3Result
  <2>3. l3' \in L3Result
    BY <1>1, <2>1, <2>2
  <2> QED
    BY <1>1, <2>3 DEF ProbeTypeOK, Sessions
<1>3. CountersExact' /\ PhaseInv'
    BY <1>1 DEF ProbeInv, CountersExact, PhaseInv
<1>4. BreakpointInv'
    BY <1>1 DEF ProbeInv, BreakpointInv
<1>5. ResultInv'
  <2>1. Readings' = Readings
    BY <1>1 DEF Readings
  <2>2. inferior # "running"
    BY <1>1 DEF ProbeInv, PhaseInv
  <2> QED
    BY <1>1, <2>1, <2>2 DEF ResultInv, L3Failed, L3Completed
<1> QED
    BY <1>2, <1>3, <1>4, <1>5 DEF ProbeInv

\* Every step of a session preserves its type and its invariant, whatever the
\* debugger manages to set and wherever it dies.
LEMMA ProbeNextInv ==
    ASSUME ProbeTypeOK, ProbeInv, ProbeNext
    PROVE  ProbeTypeOK' /\ ProbeInv'
BY SetupInv, InstrumentInv, ProgramInv, EndInv, ParseInv
   DEF ProbeNext, DriverNext
================================================================================
