--------------------------- MODULE TargetCheck_proof ---------------------------
(***************************************************************************)
(* The safety of `polygraph check`, for every symbol table, family order,  *)
(* set of targets and number of kernel calls.  IInv is inductive; each     *)
(* safety invariant of the model-checked run follows from it.              *)
(***************************************************************************)
EXTENDS TargetCheck, DispatchProbe_proof

\* The verdict functions stay within the vocabulary of TypeOK.
LEMMA VerdictTypes ==
    ASSUME NEW adv \in Claims, NEW r \in L3Result
    PROVE  /\ compute_verdict(adv, r) \in Verdicts
           /\ cli_exit_code(adv, r) \in 0..2
           /\ \A v : render_headline(v, adv) \in Headlines
<1>1. compute_verdict(adv, r) \in Verdicts
    BY DEF compute_verdict, Verdicts
<1>2. cli_exit_code(adv, r) \in 0..2
    BY DEF cli_exit_code
<1>3. ASSUME NEW v PROVE render_headline(v, adv) \in Headlines
    BY DEF render_headline, Headlines
<1> QED
    BY <1>1, <1>2, <1>3

\* Every initial state satisfies the inductive invariant.
LEMMA InitIInv == Init => IInv
<1> SUFFICES ASSUME Init PROVE IInv
    OBVIOUS
<1> USE DEF Init
<1>1. ProbeTypeOK /\ ProbeInv
    BY ProbeInitInv
<1>2. TypeOK
  <2>1. NoL2 \in L2Result /\ NoClaim \in Claims
    BY DEF NoL2, L2Result, Claims, Words, NoClaim, Text
  <2>2. level_reached \in 0..3 /\ exit_code \in 0..2 /\ status \in 0..3
    BY DEF Running
  <2> QED
    BY <1>1, <2>1, <2>2 DEF TypeOK
<1>3. StageInv
    BY DEF StageInv, ProbeInit
<1>4. AnswerInv
    BY DEF AnswerInv, Running
<1>5. NoProbeLeftRunning /\ HeadlineAgrees
    BY DEF NoProbeLeftRunning, HeadlineAgrees
<1> QED
    BY <1>1, <1>2, <1>3, <1>4, <1>5 DEF IInv

-----------------------------------------------------------------------------
\* A step that leaves the session alone keeps what is known about it.
LEMMA ProbeUnchanged ==
    ASSUME ProbeTypeOK, ProbeInv, UNCHANGED probeVars
    PROVE  ProbeTypeOK' /\ ProbeInv'
<1> USE DEF probeVars
<1>1. ProbeTypeOK'
    BY DEF ProbeTypeOK
<1>2. CountersExact' /\ PhaseInv' /\ BreakpointInv'
    BY DEF ProbeInv, CountersExact, PhaseInv, BreakpointInv
<1>3. ResultInv'
    BY DEF ProbeInv, ResultInv, Readings
<1> QED
    BY <1>1, <1>2, <1>3 DEF ProbeInv

\* Before the debugger layer there is no result to be misread.
LEMMA NothingToMisread ==
    ASSUME ProbeInv, session = "idle", NEW adv
    PROVE  ~Misread(adv, l3)
BY DEF ProbeInv, ResultInv, Misread

\* The steps before the debugger layer: their exit codes belong to levels
\* below 3.
LEMMA PreflightInv ==
    ASSUME IInv, Preflight
    PROVE  IInv'
<1> USE DEF Preflight, probeVars, resultVars, Return, Stay
<1>1. ProbeTypeOK' /\ ProbeInv'
    BY ProbeUnchanged DEF IInv, TypeOK
<1>2. TypeOK'
  <2>1. level_reached' \in 0..3 /\ exit_code' \in 0..2 /\ status' \in 0..3
    BY DEF IInv, TypeOK
  <2>2. verdict' \in Verdicts \cup {NoVerdict}
    BY DEF IInv, TypeOK, Verdicts
  <2>3. headline' \in Headlines \cup {NoVerdict}
    BY DEF IInv, TypeOK, Headlines
  <2> QED
    BY <1>1, <2>1, <2>2, <2>3 DEF IInv, TypeOK
<1>3. StageInv'
  <2>1. session' = session /\ level_reached' # 3
    BY DEF IInv, StageInv
  <2>2. stage' # "ended" => status' = Running
    BY DEF IInv, StageInv
  <2> QED
    BY <2>1, <2>2 DEF IInv, StageInv
<1>4. AnswerInv'
  <2>1. level_reached' # 3
    BY DEF IInv, StageInv
  <2>2. status' \notin {0, 1}
    BY DEF IInv, StageInv, Running
  <2> QED
    BY <2>1, <2>2 DEF AnswerInv
<1>5. NoProbeLeftRunning'
    BY DEF IInv, StageInv, ProbeInv, PhaseInv, NoProbeLeftRunning
<1>6. HeadlineAgrees'
  <2>1. verdict' = NoVerdict
    BY DEF IInv, StageInv
  <2> QED
    BY <2>1 DEF HeadlineAgrees
<1> QED
    BY <1>1, <1>2, <1>3, <1>4, <1>5, <1>6 DEF IInv

\* A level of 1 stops here with the code 2.
LEMMA L1StaticInv ==
    ASSUME IInv, L1Static
    PROVE  IInv'
<1>1. ProbeTypeOK' /\ ProbeInv'
    BY ProbeUnchanged DEF IInv, TypeOK, L1Static
<1>2. stage = "l1" /\ level_reached' \in {0, 1}
    BY DEF L1Static
<1>3. UNCHANGED <<probeVars, cfg, l2, advertised, status, interrupted>>
    BY DEF L1Static
<1>4. \/ stage' = "l2" /\ UNCHANGED <<verdict, headline, exit_code>>
      \/ /\ stage' = "returned" /\ exit_code' = 2
         /\ verdict' = "L1_ONLY" /\ headline' = "L1 ONLY"
    BY DEF L1Static, Return, Stay, resultVars
<1>5. TypeOK'
  <2>1. level_reached' \in 0..3
    BY <1>2
  <2>2. status' \in 0..3
    BY <1>3 DEF IInv, TypeOK
  <2>3. exit_code' \in 0..2
    <3>1. exit_code' = exit_code \/ exit_code' = 2
      BY <1>4
    <3> QED
      BY <3>1 DEF IInv, TypeOK
  <2>4. verdict' \in Verdicts \cup {NoVerdict}
    BY <1>4 DEF IInv, TypeOK, Verdicts
  <2>5. headline' \in Headlines \cup {NoVerdict}
    BY <1>4 DEF IInv, TypeOK, Headlines
  <2> QED
    BY <1>1, <1>3, <1>4, <2>1, <2>2, <2>3, <2>4, <2>5 DEF IInv, TypeOK
<1>6. status' = Running
    BY <1>2, <1>3 DEF IInv, StageInv
<1>7. StageInv'
  <2>1. /\ level_reached' # 3 /\ session = "idle" /\ session' = session
        /\ verdict = NoVerdict
    BY <1>2, <1>3 DEF IInv, StageInv, probeVars
  <2> QED
    BY <1>4, <1>6, <2>1 DEF StageInv
<1>8. AnswerInv'
    BY <1>2, <1>6 DEF AnswerInv, Running
<1>9. NoProbeLeftRunning'
    BY <1>6 DEF NoProbeLeftRunning
<1>10. HeadlineAgrees'
  <2>1. CASE UNCHANGED <<verdict, headline, exit_code>>
    BY <1>2, <2>1 DEF IInv, StageInv, HeadlineAgrees
  <2>2. CASE exit_code' = 2 /\ headline' = "L1 ONLY"
    <3>1. ~Misread(advertised, l3)
      BY <1>2, NothingToMisread DEF IInv, StageInv
    <3>2. ~Misread(advertised, l3)'
      BY <1>3, <3>1 DEF probeVars
    <3> QED
      BY <2>2, <3>2, HeadlineOfCodes DEF HeadlineAgrees
  <2> QED
    BY <1>4, <2>1, <2>2
<1> QED
    BY <1>1, <1>5, <1>7, <1>8, <1>9, <1>10 DEF IInv

\* So does a workload with a missing value.
LEMMA L2UnfilledInv ==
    ASSUME IInv, L2Unfilled
    PROVE  IInv'
<1> USE DEF L2Unfilled, probeVars, resultVars, Return, Stay
<1>1. ProbeTypeOK' /\ ProbeInv'
    BY ProbeUnchanged DEF IInv, TypeOK
<1>2. TypeOK'
  <2>1. level_reached' \in 0..3 /\ exit_code' \in 0..2 /\ status' \in 0..3
    BY DEF IInv, TypeOK
  <2>2. verdict' \in Verdicts \cup {NoVerdict}
    BY DEF IInv, TypeOK, Verdicts
  <2>3. headline' \in Headlines \cup {NoVerdict}
    BY DEF IInv, TypeOK, Headlines
  <2> QED
    BY <1>1, <2>1, <2>2, <2>3 DEF IInv, TypeOK
<1>3. StageInv'
  <2>1. session' = session /\ level_reached' # 3
    BY DEF IInv, StageInv
  <2>2. stage' # "ended" => status' = Running
    BY DEF IInv, StageInv
  <2> QED
    BY <2>1, <2>2 DEF IInv, StageInv
<1>4. AnswerInv'
  <2>1. level_reached' # 3
    BY DEF IInv, StageInv
  <2>2. status' \notin {0, 1}
    BY DEF IInv, StageInv, Running
  <2> QED
    BY <2>1, <2>2 DEF AnswerInv
<1>5. NoProbeLeftRunning'
    BY DEF IInv, StageInv, ProbeInv, PhaseInv, NoProbeLeftRunning
<1>6. HeadlineAgrees'
  <2>1. ~Misread(advertised, l3)
    BY NothingToMisread DEF IInv, StageInv
  <2>2. ~Misread(advertised, l3)'
    BY <2>1
  <2>3. exit_code' = 2 /\ headline' = "UNDETERMINED"
    OBVIOUS
  <2> QED
    BY <2>2, <2>3, HeadlineOfCodes DEF HeadlineAgrees
<1> QED
    BY <1>1, <1>2, <1>3, <1>4, <1>5, <1>6 DEF IInv

\* What the selection layer returns when it is the last one.
LEMMA L2OnlyCodes ==
    ASSUME NEW r \in L2Result
    PROVE  LET v == render_l2_only_verdict(r)
           IN  /\ v \in Verdicts
               /\ l2_only_exit_code(v) \in 0..2
               /\ render_headline(v, NoClaim) \in HeadlineOf(l2_only_exit_code(v))
               /\ render_headline(v, NoClaim) \in Headlines
               /\ v # "NO_DISPATCH_OBSERVED"
<1> DEFINE v == render_l2_only_verdict(r)
<1>1. v \in {"SILENT_FALLBACK", "L2_ADVERTISED_NO_FALLBACK_DETECTED", "L2_NO_SIGNAL"}
    BY DEF render_l2_only_verdict
<1> HIDE DEF v
<1>2. CASE v = "SILENT_FALLBACK"
  <2>1. l2_only_exit_code(v) = 1 /\ render_headline(v, NoClaim) = "MISMATCH"
    BY <1>2 DEF l2_only_exit_code, render_headline
  <2>2. HeadlineOf(l2_only_exit_code(v)) = {"MISMATCH"}
    BY <2>1, HeadlineOfCodes
  <2>3. v \in Verdicts /\ "MISMATCH" \in Headlines
    BY <1>2 DEF Verdicts, Headlines
  <2>4. l2_only_exit_code(v) \in 0..2
    BY <2>1
  <2> QED
    BY <1>2, <2>1, <2>2, <2>3, <2>4 DEF v
<1>3. CASE v = "L2_ADVERTISED_NO_FALLBACK_DETECTED"
  <2>1. l2_only_exit_code(v) = 0 /\ render_headline(v, NoClaim) = "MATCH"
    BY <1>3 DEF l2_only_exit_code, render_headline
  <2>2. HeadlineOf(l2_only_exit_code(v)) = {"MATCH"}
    BY <2>1, HeadlineOfCodes
  <2>3. v \in Verdicts /\ "MATCH" \in Headlines
    BY <1>3 DEF Verdicts, Headlines
  <2>4. l2_only_exit_code(v) \in 0..2
    BY <2>1
  <2> QED
    BY <1>3, <2>1, <2>2, <2>3, <2>4 DEF v
<1>4. CASE v = "L2_NO_SIGNAL"
  <2>1. l2_only_exit_code(v) = 2 /\ render_headline(v, NoClaim) = "UNDETERMINED"
    BY <1>4 DEF l2_only_exit_code, render_headline
  <2>2. HeadlineOf(l2_only_exit_code(v)) = {"UNDETERMINED", "L1 ONLY"}
    BY <2>1, HeadlineOfCodes
  <2>3. v \in Verdicts /\ "UNDETERMINED" \in Headlines
    BY <1>4 DEF Verdicts, Headlines
  <2>4. l2_only_exit_code(v) \in 0..2
    BY <2>1
  <2> QED
    BY <1>4, <2>1, <2>2, <2>3, <2>4 DEF v
<1> QED
    BY <1>1, <1>2, <1>3, <1>4

\* The selection layer either goes on to the debugger or returns at level 2.
LEMMA L2SelectInv ==
    ASSUME IInv, L2Select
    PROVE  IInv'
<1>1. ProbeTypeOK' /\ ProbeInv'
    BY ProbeUnchanged DEF IInv, TypeOK, L2Select
<1>2. PICK r \in L2Readings :
         /\ l2' = r
         /\ advertised' = r.adv
         /\ IF cfg.level < 3 \/ ~cfg.l3
            THEN L2Return(r)
            ELSE stage' = "l3" /\ Stay
    BY DEF L2Select
<1>3. r \in L2Result /\ advertised' \in Claims /\ l2' \in L2Result
    BY <1>2 DEF L2Readings, L2Result
<1>4. /\ stage = "l2" /\ level_reached' = 2
      /\ UNCHANGED <<probeVars, cfg, status, interrupted>>
    BY DEF L2Select
<1>5. \/ stage' = "l3" /\ UNCHANGED <<verdict, headline, exit_code>>
      \/ stage' = "returned" /\ exit_code' \in 0..2
         /\ verdict' \in Verdicts /\ headline' \in Headlines
         /\ headline' \in HeadlineOf(exit_code')
  <2>1. CASE L2Return(r) /\ cfg.l3
    <3>1. stage' = "returned" /\ exit_code' = 2
          /\ verdict' = "L2_ONLY" /\ headline' = "UNDETERMINED"
      BY <2>1 DEF L2Return, Return
    <3>2. headline' \in HeadlineOf(exit_code')
      BY <3>1, HeadlineOfCodes
    <3>3. verdict' \in Verdicts /\ headline' \in Headlines
      BY <3>1 DEF Verdicts, Headlines
    <3>4. exit_code' \in 0..2
      BY <3>1
    <3> QED
      BY <3>1, <3>2, <3>3, <3>4
  <2>2. CASE L2Return(r) /\ ~cfg.l3
    BY <1>3, <2>2, L2OnlyCodes DEF L2Return, Return
  <2>3. CASE stage' = "l3" /\ Stay
    BY <2>3 DEF Stay, resultVars
  <2> QED
    BY <1>2, <2>1, <2>2, <2>3
<1>6. verdict = NoVerdict
    BY <1>4 DEF IInv, StageInv
<1>7. TypeOK'
  <2>1. level_reached' \in 0..3
    BY <1>4
  <2>2. status' \in 0..3
    BY <1>4 DEF IInv, TypeOK
  <2>3. exit_code' \in 0..2
    BY <1>5 DEF IInv, TypeOK
  <2>4. /\ verdict' \in Verdicts \cup {NoVerdict}
        /\ headline' \in Headlines \cup {NoVerdict}
    BY <1>5 DEF IInv, TypeOK
  <2> QED
    BY <1>1, <1>3, <1>4, <1>5, <2>1, <2>2, <2>3, <2>4 DEF IInv, TypeOK
<1>8. status' = Running
    BY <1>4 DEF IInv, StageInv
<1>9. StageInv'
  <2>1. level_reached' # 3 /\ session = "idle" /\ session' = session
    BY <1>4 DEF IInv, StageInv, probeVars
  <2> QED
    BY <1>5, <1>6, <1>8, <2>1 DEF StageInv
<1>10. AnswerInv'
    BY <1>4, <1>8 DEF AnswerInv, Running
<1>11. NoProbeLeftRunning'
    BY <1>8 DEF NoProbeLeftRunning
<1>12. HeadlineAgrees'
  <2>1. ~Misread(r.adv, l3)
    BY <1>4, NothingToMisread DEF IInv, StageInv
  <2>2. ~Misread(advertised, l3)'
    BY <1>2, <1>4, <2>1 DEF probeVars
  <2> QED
    BY <1>5, <1>6, <2>2 DEF HeadlineAgrees
<1> QED
    BY <1>1, <1>7, <1>9, <1>10, <1>11, <1>12 DEF IInv

-----------------------------------------------------------------------------
\* A session is only started where candidates are listed.
LEMMA StartL3Inv ==
    ASSUME IInv, StartL3
    PROVE  IInv'
<1>1. stage = "l3" /\ UNCHANGED checkVars
    BY DEF StartL3
<1>2. ChosenDebugger \in Debuggers \cup {"none"}
    BY ConfigAssumption
       DEF IInv, TypeOK, TargetConfig, ChosenDebugger, Debuggers
<1>3. \/ \E d \in Debuggers \cup {"none"} : Decline(d)
      \/ Listed # {} /\ \E d \in Debuggers : Begin(d)
  <2>1. CASE ChosenDebugger = "none" /\ Decline("none")
    BY <2>1
  <2>2. CASE ChosenDebugger # "none" /\ \E ok \in SUBSET Modes :
                IF nm_symbol_lines(ok) = {}
                THEN Decline(ChosenDebugger)
                ELSE Begin(ChosenDebugger)
    <3>1. PICK ok \in SUBSET Modes :
                IF nm_symbol_lines(ok) = {}
                THEN Decline(ChosenDebugger)
                ELSE Begin(ChosenDebugger)
      BY <2>2
    <3>2. nm_symbol_lines(ok) # {} => Listed # {}
      BY DEF nm_symbol_lines, Listed
    <3> QED
      BY <1>2, <2>2, <3>1, <3>2
  <2> QED
    BY <2>1, <2>2 DEF StartL3
<1>4. ProbeTypeOK' /\ ProbeInv'
    BY <1>3, BeginInv, DeclineInv DEF IInv, TypeOK
<1>5. TypeOK'
    BY <1>1, <1>4 DEF IInv, TypeOK, checkVars
<1>6. status' = Running /\ level_reached' # 3
    BY <1>1 DEF IInv, StageInv, checkVars
<1>7. StageInv'
  <2>1. session' \notin {"idle", "done"} => Listed # {}
    BY <1>3 DEF Decline, Begin, Finish
  <2> QED
    BY <1>1, <1>6, <2>1 DEF IInv, StageInv, checkVars
<1>8. AnswerInv' /\ NoProbeLeftRunning'
    BY <1>6 DEF AnswerInv, NoProbeLeftRunning, Running
<1>9. HeadlineAgrees'
    BY <1>1 DEF IInv, StageInv, HeadlineAgrees, checkVars
<1> QED
    BY <1>4, <1>5, <1>7, <1>8, <1>9 DEF IInv

\* The session's own steps come after the start and before the verdict; a
\* program that outlives the check changes no result.
LEMMA ProbeStepInv ==
    ASSUME IInv, ProbeStep
    PROVE  IInv'
<1>1. UNCHANGED checkVars
    BY DEF ProbeStep
<1>2. \/ stage = "l3" /\ ProbeNext
      \/ stage = "ended" /\ ProgramNext
    BY DEF ProbeStep
<1>3. ProbeTypeOK' /\ ProbeInv'
    BY <1>2, ProbeNextInv, ProgramInv DEF IInv, TypeOK, StageInv
<1>4. TypeOK'
    BY <1>1, <1>3 DEF IInv, TypeOK, checkVars
<1>5. CASE stage = "l3" /\ ProbeNext
  <2>1. status' = Running /\ level_reached' # 3
    BY <1>1, <1>5 DEF IInv, StageInv, checkVars
  <2>2. session \notin {"idle", "done"}
    BY <1>5 DEF IInv, ProbeInv, PhaseInv, ProbeNext, DriverNext, ProgramNext,
       DebuggerMissing, Enumerate, SkipEnumerate, Instrument, Launch,
       PrintResults, ScriptAborts, ParseGdb, ParseLldb, LoadLibrary,
       InferiorEnds, CallKernel, DebuggerDies, ProbeTimeout, DebuggerUp
  <2>3. StageInv'
    BY <1>1, <1>5, <2>1, <2>2 DEF IInv, StageInv, checkVars
  <2>4. AnswerInv' /\ NoProbeLeftRunning'
    BY <2>1 DEF AnswerInv, NoProbeLeftRunning, Running
  <2>5. HeadlineAgrees'
    BY <1>1, <1>5 DEF IInv, StageInv, HeadlineAgrees, checkVars
  <2> QED
    BY <1>3, <1>4, <2>3, <2>4, <2>5 DEF IInv
<1>6. CASE stage = "ended" /\ ProgramNext
  <2>1. UNCHANGED <<l3, session>> /\ inferior = "running"
    BY <1>6 DEF ProgramNext, LoadLibrary, InferiorEnds, CallKernel
  <2>2. StageInv'
    BY <1>1, <1>6, <2>1 DEF IInv, StageInv, checkVars
  <2>3. AnswerInv'
    BY <1>1, <2>1 DEF IInv, AnswerInv, Claimed, checkVars
  <2>4. NoProbeLeftRunning'
    BY <1>1, <2>1 DEF IInv, NoProbeLeftRunning, checkVars
  <2>5. HeadlineAgrees'
    BY <1>1, <2>1 DEF IInv, HeadlineAgrees, checkVars
  <2> QED
    BY <1>3, <1>4, <2>2, <2>3, <2>4, <2>5 DEF IInv
<1> QED
    BY <1>2, <1>5, <1>6

-----------------------------------------------------------------------------
\* The verdict: the exit code is 0 or 1 only on a completed result, and 0
\* only if that result holds a hit of a claimed kernel.
LEMMA JudgeInv ==
    ASSUME IInv, Judge
    PROVE  IInv'
<1> DEFINE v == compute_verdict(advertised, l3)
           Hit == \E s \in Symbols : l3.hits[s] > 0 /\ Claimed(s)
<1>1. ProbeTypeOK' /\ ProbeInv'
    BY ProbeUnchanged DEF IInv, TypeOK, Judge
<1>2. /\ stage = "l3" /\ session = "done" /\ level_reached' = 3
      /\ stage' = "returned"
      /\ UNCHANGED <<probeVars, cfg, l2, advertised, status, interrupted>>
    BY DEF Judge, Return
<1>3. advertised \in Claims /\ l3 \in L3Result
    BY DEF IInv, TypeOK, ProbeTypeOK
<1>4. ASSUME ImplicitClaim
      PROVE  /\ l3.completed
             /\ \/ Hit /\ exit_code' = 0 /\ verdict' = "DISPATCHED_ADHOC"
                   /\ headline' = "MATCH"
                \/ ~Hit /\ exit_code' = 1 /\ verdict' = "NO_DISPATCH_OBSERVED"
                   /\ headline' = "MISMATCH"
  <2>1. Hit <=> AnyHit(l3.hits)
    BY <1>4 DEF ImplicitClaim, Claimed, AnyHit
  <2>2. CASE AnyHit(l3.hits)
    BY <1>4, <2>1, <2>2 DEF Judge, Return, ImplicitClaim
  <2>3. CASE ~AnyHit(l3.hits)
    BY <1>4, <2>1, <2>3 DEF Judge, Return, ImplicitClaim
  <2> QED
    BY <2>2, <2>3
<1>5. ASSUME ~ImplicitClaim
      PROVE  /\ verdict' = v
             /\ headline' = render_headline(v, advertised)
             /\ exit_code' = cli_exit_code(advertised, l3)
             /\ exit_code' # 2 => l3.completed /\ (exit_code' = 0 <=> Hit)
  <2>1. /\ verdict' = v
        /\ headline' = render_headline(v, advertised)
        /\ exit_code' = cli_exit_code(advertised, l3)
    BY <1>5 DEF Judge, Return
  <2>2. ASSUME exit_code' # 2
        PROVE  l3.completed /\ (exit_code' = 0 <=> Hit)
    <3>1. l3.available /\ ~l3.timed_out /\ l3.completed
          /\ ~NamesNothing(strip(advertised))
      BY <2>1, <2>2 DEF cli_exit_code
    <3>2. exit_code' = 0 <=> FamilyHit(l3.hits, advertised.word)
      BY <2>1, <3>1 DEF cli_exit_code, ClaimHit, strip, Text
    <3>3. advertised # NoClaim
      <4>1. strip(NoClaim) = NoClaim
        BY DEF strip, NoClaim, Text
      <4> QED
        BY <3>1, <4>1 DEF NamesNothing
    <3>4. \A s \in Symbols :
             Claimed(s) <=> classify_symbol_family(s) = advertised.word
      BY <3>3, ClassifyIsBelongs DEF Claimed
    <3> QED
      BY <3>1, <3>2, <3>4 DEF FamilyHit
  <2> QED
    BY <2>1, <2>2
<1>6. /\ verdict' \in Verdicts /\ headline' \in Headlines
      /\ exit_code' \in 0..2
  <2>1. CASE ImplicitClaim
    <3>1. verdict' \in Verdicts
      BY <1>4, <2>1 DEF Verdicts
    <3>2. headline' \in Headlines
      BY <1>4, <2>1 DEF Headlines
    <3>3. exit_code' \in 0..2
      BY <1>4, <2>1
    <3> QED
      BY <3>1, <3>2, <3>3
  <2>2. CASE ~ImplicitClaim
    BY <1>3, <1>5, <2>2, VerdictTypes
  <2> QED
    BY <2>1, <2>2
<1>7. status' = Running
    BY <1>2 DEF IInv, StageInv
<1>8. TypeOK'
  <2>1. level_reached' \in 0..3
    BY <1>2
  <2>2. status' \in 0..3
    BY <1>2 DEF IInv, TypeOK
  <2> QED
    BY <1>1, <1>2, <1>6, <2>1, <2>2 DEF IInv, TypeOK
<1>9. StageInv'
  <2>1. session' = "done"
    BY <1>2 DEF probeVars
  <2> QED
    BY <1>2, <1>7, <2>1 DEF StageInv
<1>10. AnswerInv'
  <2>1. exit_code' # 2 => l3.completed /\ (exit_code' = 0 <=> Hit)
    BY <1>4, <1>5
  <2>2. l3' = l3 /\ \A s \in Symbols : Claimed(s)' <=> Claimed(s)
    BY <1>2 DEF Claimed, probeVars
  <2> QED
    BY <1>7, <2>1, <2>2 DEF AnswerInv, Running
<1>11. NoProbeLeftRunning'
    BY <1>7 DEF NoProbeLeftRunning
<1>12. HeadlineAgrees'
  <2>1. advertised' = advertised /\ l3' = l3
    BY <1>2 DEF probeVars
  <2>2. CASE ImplicitClaim
    <3>1. headline' \in HeadlineOf(exit_code')
      BY <1>4, <2>2, HeadlineOfCodes
    <3>2. ~Misread(advertised, l3)
      BY <2>2 DEF ImplicitClaim, Misread, NoClaim, Text
    <3> QED
      BY <2>1, <3>1, <3>2 DEF HeadlineAgrees
  <2>3. CASE ~ImplicitClaim
    <3>1. headline' \in HeadlineOf(exit_code') <=> ~Misread(advertised, l3)
      BY <1>3, <1>5, <2>3, HeadlineMatchesCode
    <3> QED
      BY <2>1, <3>1 DEF HeadlineAgrees
  <2> QED
    BY <2>2, <2>3
<1> QED
    BY <1>1, <1>8, <1>9, <1>10, <1>11, <1>12 DEF IInv

-----------------------------------------------------------------------------
\* The ends of the process.
LEMMA ExitInv ==
    ASSUME IInv, Exit
    PROVE  IInv'
<1>1. ProbeTypeOK' /\ ProbeInv'
    BY ProbeUnchanged DEF IInv, TypeOK, Exit
<1>2. /\ stage' = "ended" /\ status' = exit_code
      /\ UNCHANGED <<probeVars, cfg, l2, advertised, level_reached, verdict,
                     headline, exit_code>>
    BY DEF Exit, Stay, resultVars
<1>3. TypeOK'
  <2>1. status' \in 0..3
    BY <1>2 DEF IInv, TypeOK
  <2>2. interrupted' \in BOOLEAN
    BY DEF IInv, TypeOK, Exit
  <2> QED
    BY <1>1, <1>2, <2>1, <2>2 DEF IInv, TypeOK
<1>4. StageInv'
    BY <1>2 DEF IInv, StageInv, probeVars
<1>5. AnswerInv'
  <2>1. status' \in {0, 1} => status' = exit_code'
    BY <1>2
  <2> QED
    BY <1>2, <2>1 DEF IInv, AnswerInv, Claimed, probeVars
<1>6. NoProbeLeftRunning'
    BY <1>2 DEF IInv, ProbeInv, PhaseInv, StageInv, NoProbeLeftRunning, Exit,
       probeVars
<1>7. HeadlineAgrees'
    BY <1>2 DEF IInv, HeadlineAgrees, probeVars
<1> QED
    BY <1>1, <1>3, <1>4, <1>5, <1>6, <1>7 DEF IInv

\* Any exception becomes the status 2, and no program runs by then.
LEMMA RaiseInv ==
    ASSUME IInv, Raise
    PROVE  IInv'
<1>1. ProbeTypeOK' /\ ProbeInv'
    BY ProbeUnchanged DEF IInv, TypeOK, Raise
<1>2. /\ stage' = "ended" /\ status' = 2
      /\ UNCHANGED <<probeVars, cfg, l2, advertised, level_reached, verdict,
                     headline, exit_code>>
    BY DEF Raise, Stay, resultVars
<1>3. TypeOK'
  <2>1. status' \in 0..3
    BY <1>2 DEF IInv, TypeOK
  <2>2. interrupted' \in BOOLEAN
    BY DEF IInv, TypeOK, Raise
  <2> QED
    BY <1>1, <1>2, <2>1, <2>2 DEF IInv, TypeOK
<1>4. StageInv'
    BY <1>2 DEF IInv, StageInv, probeVars
<1>5. AnswerInv'
  <2>1. status' \in {0, 1} => status' = exit_code'
    BY <1>2
  <2> QED
    BY <1>2, <2>1 DEF IInv, AnswerInv, Claimed, probeVars
<1>6. NoProbeLeftRunning'
    BY <1>2 DEF IInv, ProbeInv, PhaseInv, StageInv, NoProbeLeftRunning, Raise,
       probeVars
<1>7. HeadlineAgrees'
    BY <1>2 DEF IInv, HeadlineAgrees, probeVars
<1> QED
    BY <1>1, <1>3, <1>4, <1>5, <1>6, <1>7 DEF IInv

\* So does Ctrl-C; the program may outlive it.
LEMMA InterruptInv ==
    ASSUME IInv, Interrupt
    PROVE  IInv'
<1>1. ProbeTypeOK' /\ ProbeInv'
    BY ProbeUnchanged DEF IInv, TypeOK, Interrupt
<1>2. /\ stage' = "ended" /\ status' = 2
      /\ UNCHANGED <<probeVars, cfg, l2, advertised, level_reached, verdict,
                     headline, exit_code>>
    BY DEF Interrupt, Stay, resultVars
<1>3. TypeOK'
  <2>1. status' \in 0..3
    BY <1>2 DEF IInv, TypeOK
  <2>2. interrupted' \in BOOLEAN
    BY DEF IInv, TypeOK, Interrupt
  <2> QED
    BY <1>1, <1>2, <2>1, <2>2 DEF IInv, TypeOK
<1>4. StageInv'
    BY <1>2 DEF IInv, StageInv, probeVars
<1>5. AnswerInv'
  <2>1. status' \in {0, 1} => status' = exit_code'
    BY <1>2
  <2> QED
    BY <1>2, <2>1 DEF IInv, AnswerInv, Claimed, probeVars
<1>6. NoProbeLeftRunning'
    BY <1>2 DEF IInv, ProbeInv, PhaseInv, StageInv, NoProbeLeftRunning, Interrupt,
       probeVars
<1>7. HeadlineAgrees'
    BY <1>2 DEF IInv, HeadlineAgrees, probeVars
<1> QED
    BY <1>1, <1>3, <1>4, <1>5, <1>6, <1>7 DEF IInv

-----------------------------------------------------------------------------
\* Every step preserves IInv.
LEMMA NextIInv ==
    ASSUME IInv, [Next]_vars
    PROVE  IInv'
<1>1. CASE Next
    BY <1>1, PreflightInv, L1StaticInv, L2UnfilledInv, L2SelectInv,
       StartL3Inv, JudgeInv, ExitInv, ProbeStepInv, RaiseInv, InterruptInv
       DEF Next, CheckNext
<1>2. CASE UNCHANGED vars
  <2>1. ProbeTypeOK' /\ ProbeInv'
    BY <1>2, ProbeUnchanged DEF IInv, TypeOK, vars
  <2>2. TypeOK'
    BY <1>2, <2>1 DEF IInv, TypeOK, vars, checkVars
  <2>3. StageInv' /\ NoProbeLeftRunning' /\ HeadlineAgrees'
    BY <1>2 DEF IInv, StageInv, NoProbeLeftRunning, HeadlineAgrees, vars,
       checkVars, probeVars
  <2>4. AnswerInv'
    BY <1>2 DEF IInv, AnswerInv, Claimed, vars, checkVars, probeVars
  <2> QED
    BY <2>1, <2>2, <2>3, <2>4 DEF IInv
<1> QED
    BY <1>1, <1>2

\* IInv holds in every state of every check.
THEOREM Invariance == Spec => []IInv
BY InitIInv, NextIInv, PTL DEF Spec

-----------------------------------------------------------------------------
\* A 0 or 1 at level 3 rests on a completed result: the printed counters.
LEMMA AnswerRests ==
    ASSUME IInv, status \in {0, 1}, level_reached = 3
    PROVE  /\ l3.completed /\ ~l3.timed_out
           /\ session = "done" /\ inferior # "running"
           /\ debugger = "gdb" => created # {}
           /\ l3.hits \in Readings
           /\ status = 0 <=> \E s \in Symbols : l3.hits[s] > 0 /\ Claimed(s)
<1>1. status = exit_code /\ exit_code # 2
    BY DEF IInv, AnswerInv
<1>2. /\ l3.completed
      /\ status = 0 <=> \E s \in Symbols : l3.hits[s] > 0 /\ Claimed(s)
    BY <1>1 DEF IInv, AnswerInv
<1> QED
    BY <1>2 DEF IInv, ProbeInv, ResultInv

\* A positive counter of a claimed kernel is a call the program really made.
LEMMA WitnessFromIInv == IInv => MatchIsWitnessed
<1> SUFFICES ASSUME IInv, status = 0, level_reached = 3
             PROVE  \E s \in created : calls[s] > 0 /\ Claimed(s)
    BY DEF MatchIsWitnessed
<1>1. PICK s \in Symbols : l3.hits[s] > 0 /\ Claimed(s)
    BY AnswerRests
<1>2. hits[s] > 0
    BY <1>1, AnswerRests, ReadingsBelow DEF IInv, TypeOK
<1>3. s \in created /\ calls[s] > 0
    BY <1>2 DEF IInv, ProbeInv, CountersExact
<1> QED
    BY <1>1, <1>3

\* A 0 needs a counter that was printed, and only a program that ended by
\* itself has its counters printed.
LEMMA ConclusiveFromIInv == IInv => ConclusiveOnly
<1> SUFFICES ASSUME IInv, status \in {0, 1}, level_reached = 3
             PROVE  /\ l3.completed /\ ~l3.timed_out
                    /\ session = "done" /\ inferior # "running"
                    /\ debugger = "gdb" => created # {}
                    /\ status = 0 => /\ printed \in {"part", "results"}
                                     /\ inferior \in {"exited", "crashed"}
    BY DEF ConclusiveOnly
<1>1. ASSUME status = 0
      PROVE  printed \in {"part", "results"} /\ inferior \in {"exited", "crashed"}
  <2>1. PICK s \in Symbols : l3.hits[s] > 0
    BY <1>1, AnswerRests
  <2>2. printed \in {"part", "results"}
    BY <2>1, AnswerRests, ReadingsBelow DEF IInv, TypeOK
  <2> QED
    BY <2>2 DEF IInv, ProbeInv, PhaseInv
<1> QED
    BY <1>1, AnswerRests

\* What a session that printed its results shows of a kernel with a
\* breakpoint is all of the program's calls to it.
LEMMA NoMissFromIInv == IInv => NoDispatchMissed
<1> SUFFICES ASSUME IInv, status = 1, level_reached = 3, printed = "results",
                    NEW s \in created, Claimed(s)
             PROVE  calls[s] = 0
    BY DEF NoDispatchMissed
<1>1. s \in Symbols
    BY DEF IInv, TypeOK, ProbeTypeOK
<1>2. ~(l3.hits[s] > 0)
    BY <1>1, AnswerRests
<1>3. l3.hits = hits
    BY AnswerRests DEF Readings
<1>4. hits[s] = calls[s]
    BY <1>1 DEF IInv, ProbeInv, CountersExact
<1>5. calls[s] \in Nat
    BY <1>1, ProbeAssumption DEF IInv, TypeOK, ProbeTypeOK
<1> QED
    BY <1>2, <1>3, <1>4, <1>5

-----------------------------------------------------------------------------
\* Every state is well typed: in particular the hit counters never exceed
\* the number of calls the program can make.
THEOREM TypeCorrect == Spec => []TypeOK
<1>1. IInv => TypeOK
    BY DEF IInv
<1> QED
    BY <1>1, Invariance, PTL

\* A 0 from the debugger layer is witnessed by a real call of a claimed
\* kernel, through a breakpoint that existed.
THEOREM MatchesAreWitnessed == Spec => []MatchIsWitnessed
BY WitnessFromIInv, Invariance, PTL

\* A 0 or a 1 from the debugger layer comes from a session that was not cut
\* off, under gdb from an instrumented one; a 0 comes from a result block of a
\* program that ended by itself.
THEOREM AnswersAreConclusive == Spec => []ConclusiveOnly
BY ConclusiveFromIInv, Invariance, PTL

\* A session that printed its results misses no call of a claimed kernel that
\* has a breakpoint.
THEOREM NothingIsMissed == Spec => []NoDispatchMissed
BY NoMissFromIInv, Invariance, PTL

\* The headline and the exit code agree but for the texts and results of
\* Misread, on which they never do.
THEOREM HeadlinesAgree == Spec => []HeadlineAgrees
<1>1. IInv => HeadlineAgrees
    BY DEF IInv
<1> QED
    BY <1>1, Invariance, PTL

\* A check that was not interrupted leaves no probed program running.
THEOREM ProbesAreEnded == Spec => []NoProbeLeftRunning
<1>1. IInv => NoProbeLeftRunning
    BY DEF IInv
<1> QED
    BY <1>1, Invariance, PTL

-----------------------------------------------------------------------------
(***************************************************************************)
(* `polygraph check` implements ClaimOracle: every 0 and every 1 it exits  *)
(* with is an answer the exit-code contract allows, whatever the debugger, *)
(* the probed program and the symbol tables do.                            *)
(***************************************************************************)

\* What a step of the session can do to the result.
LEMMA ResultSteps ==
    ASSUME \/ ProbeNext \/ (\E d : Begin(d)) \/ (\E d : Decline(d))
    PROVE  \/ l3' = l3
           \/ session # "done" /\ ~l3'.completed /\ l3'.hits = NoHits
           \/ session # "done" /\ l3'.completed
<1>1. CASE UNCHANGED l3
    BY <1>1
<1>2. ASSUME NEW a, NEW b, session # "done", l3' = L3Failed(a, b)
      PROVE  ~l3'.completed /\ l3'.hits = NoHits
    BY <1>2 DEF L3Failed
<1>3. ASSUME NEW h, l3' = L3Completed(h)
      PROVE  l3'.completed
    BY <1>3 DEF L3Completed
<1>4. \/ UNCHANGED l3
      \/ session # "done" /\ \E a, b \in BOOLEAN : l3' = L3Failed(a, b)
      \/ session # "done" /\ \E h : l3' = L3Completed(h)
  <2>1. CASE DebuggerMissing \/ Enumerate \/ ProbeTimeout \/ (\E d : Decline(d))
    BY <2>1 DEF DebuggerMissing, Enumerate, ProbeTimeout, DebuggerUp, Decline,
       Finish
  <2>2. CASE ParseGdb
    <3>1. CASE printed = "nothing" \/ created = {}
      BY <2>2, <3>1 DEF ParseGdb, Finish
    <3>2. CASE ~(printed = "nothing" \/ created = {})
      BY <2>2, <3>2 DEF ParseGdb, Finish
    <3> QED
      BY <3>1, <3>2
  <2>3. CASE ParseLldb
    BY <2>3 DEF ParseLldb, Finish
  <2>4. CASE SkipEnumerate \/ Instrument \/ Launch \/ PrintResults
               \/ ScriptAborts \/ DebuggerDies \/ (\E d : Begin(d))
    BY <2>4 DEF SkipEnumerate, Instrument, Launch, PrintResults, ScriptAborts,
       DebuggerDies, Begin
  <2>5. CASE ProgramNext
    BY <2>5 DEF ProgramNext, LoadLibrary, InferiorEnds, CallKernel
  <2> QED
    BY <2>1, <2>2, <2>3, <2>4, <2>5 DEF ProbeNext, DriverNext
<1> QED
    BY <1>1, <1>2, <1>3, <1>4

\* A check that has not begun satisfies the refinement's invariant.
LEMMA InitRInv == Init => RInv
<1> SUFFICES ASSUME Init PROVE RInv
    OBVIOUS
<1>1. LevelInv
    BY DEF Init, LevelInv
<1>2. FailureReportsNothing
    BY DEF Init, ProbeInit, L3Failed, FailureReportsNothing
<1> QED
    BY <1>1, <1>2, InitIInv DEF RInv

\* Only steps of the session touch the result.
LEMMA FailureInv ==
    ASSUME RInv, [Next]_vars
    PROVE  FailureReportsNothing'
<1>1. \/ l3' = l3
      \/ ~l3'.completed /\ l3'.hits = NoHits
      \/ l3'.completed
  <2>1. CASE ProbeStep \/ StartL3
    BY <2>1, ResultSteps DEF ProbeStep, StartL3, ProbeNext
  <2>2. CASE \/ Preflight \/ L1Static \/ L2Unfilled \/ L2Select \/ Judge
             \/ Exit \/ Raise \/ Interrupt \/ UNCHANGED vars
    BY <2>2 DEF Preflight, L1Static, L2Unfilled, L2Select, Judge, Exit, Raise,
       Interrupt, vars, probeVars
  <2> QED
    BY <2>1, <2>2 DEF Next, CheckNext
<1> QED
    BY <1>1 DEF RInv, FailureReportsNothing

-----------------------------------------------------------------------------
\* What a check returns at each level.
LEMMA LevelInvStep ==
    ASSUME RInv, [Next]_vars
    PROVE  LevelInv'
<1> USE DEF RInv
<1>1. CASE Preflight \/ Exit \/ Raise \/ Interrupt
  <2>1. UNCHANGED <<level_reached, l2, exit_code, cfg, advertised>>
    BY <1>1 DEF Preflight, Exit, Raise, Interrupt, Stay, resultVars
  <2>2. stage' \in {"l1", "ended"} /\ (stage' = "l1" => stage = "preflight")
    BY <1>1 DEF Preflight, Exit, Raise, Interrupt
  <2> QED
    BY <2>1, <2>2 DEF LevelInv
<1>2. CASE L1Static
  <2>1. level_reached' \in {0, 1}
    BY <1>2 DEF L1Static
  <2>2. stage = "l1" /\ UNCHANGED l2
    BY <1>2 DEF L1Static
  <2>3. exit_code' = exit_code \/ exit_code' = 2
    BY <1>2 DEF L1Static, Return, Stay, resultVars
  <2>4. exit_code' = 2 /\ l2' = NoL2
    BY <2>2, <2>3 DEF LevelInv
  <2>5. stage' \in {"l2", "returned"}
    BY <1>2 DEF L1Static, Return
  <2> QED
    BY <2>1, <2>4, <2>5 DEF LevelInv
<1>3. CASE L2Unfilled
  <2>1. /\ stage = "l2" /\ stage' = "returned" /\ exit_code' = 2
        /\ UNCHANGED <<level_reached, l2, cfg>>
    BY <1>3 DEF L2Unfilled, Return
  <2> QED
    BY <2>1 DEF LevelInv
<1>4. CASE L2Select
  <2>1. PICK r \in L2Readings :
           /\ l2' = r
           /\ IF cfg.level < 3 \/ ~cfg.l3
              THEN L2Return(r)
              ELSE stage' = "l3" /\ Stay
    BY <1>4 DEF L2Select
  <2>2. stage = "l2" /\ level_reached' = 2 /\ cfg' = cfg
    BY <1>4 DEF L2Select
  <2>3. CASE stage' = "l3" /\ Stay /\ cfg.l3
    <3>1. exit_code' = 2
      BY <2>2, <2>3 DEF LevelInv, Stay, resultVars
    <3> QED
      BY <2>2, <2>3, <3>1 DEF LevelInv
  <2>4. CASE L2Return(r) /\ cfg.l3
    <3>1. stage' = "returned" /\ exit_code' = 2
      BY <2>4 DEF L2Return, Return
    <3> QED
      BY <2>2, <3>1 DEF LevelInv
  <2>5. CASE L2Return(r) /\ ~cfg.l3
    <3>1. /\ stage' = "returned"
          /\ exit_code' = l2_only_exit_code(render_l2_only_verdict(r))
      BY <2>5 DEF L2Return, Return
    <3>2. r.fallback => r.matched
      BY DEF L2Readings
    <3>3. l2_only_exit_code("SILENT_FALLBACK") = 1
          /\ l2_only_exit_code("L2_ADVERTISED_NO_FALLBACK_DETECTED") = 0
          /\ l2_only_exit_code("L2_NO_SIGNAL") = 2
      BY DEF l2_only_exit_code
    <3>4. exit_code' # 2 => r.matched /\ (exit_code' = 0 <=> ~r.fallback)
      <4>1. CASE r.fallback
        BY <3>1, <3>2, <3>3, <4>1 DEF render_l2_only_verdict
      <4>2. CASE ~r.fallback /\ r.matched
        BY <3>1, <3>3, <4>2 DEF render_l2_only_verdict
      <4>3. CASE ~r.fallback /\ ~r.matched
        BY <3>1, <3>3, <4>3 DEF render_l2_only_verdict
      <4> QED
        BY <4>1, <4>2, <4>3
    <3> QED
      BY <2>1, <2>2, <2>5, <3>1, <3>4 DEF LevelInv
  <2> QED
    BY <2>1, <2>3, <2>4, <2>5
<1>5. CASE Judge
  <2>1. /\ stage = "l3" /\ stage' = "returned" /\ level_reached' = 3
        /\ UNCHANGED <<cfg, l2, advertised>>
    BY <1>5 DEF Judge, Return
  <2>2. CASE ImplicitClaim
    BY <2>1, <2>2 DEF LevelInv, ImplicitClaim
  <2>3. CASE ~ImplicitClaim
    <3>1. exit_code' = cli_exit_code(advertised, l3)
      BY <1>5, <2>3 DEF Judge, Return
    <3>2. NamesNothing(strip(advertised)) => exit_code' = 2
      BY <3>1 DEF cli_exit_code
    <3>3. NamesNothing(strip(advertised))' = NamesNothing(strip(advertised))
      BY <2>1
    <3> QED
      BY <2>1, <3>2, <3>3 DEF LevelInv
  <2> QED
    BY <2>2, <2>3
<1>6. CASE StartL3 \/ ProbeStep \/ UNCHANGED vars
  <2>1. UNCHANGED checkVars
    BY <1>6 DEF StartL3, ProbeStep, vars
  <2> QED
    BY <2>1 DEF LevelInv, checkVars
<1> QED
    BY <1>1, <1>2, <1>3, <1>4, <1>5, <1>6 DEF Next, CheckNext

\* RInv is an invariant.
LEMMA NextRInv ==
    ASSUME RInv, [Next]_vars
    PROVE  RInv'
BY NextIInv, LevelInvStep, FailureInv DEF RInv

\* The level a check reports, its stage and its exit code fit one another, and
\* a debugger run that failed reports no hits.
THEOREM LevelsFit == Spec => []RInv
BY InitRInv, NextRInv, PTL DEF Spec

-----------------------------------------------------------------------------
\* Before the answer, a step that settles the claim and the evidence in the
\* ways below is one the oracle allows.
LEMMA LearnStep ==
    ASSUME status = Running, status' = status,
           ClaimSeen' = ClaimSeen \/ ClaimSeen = UndeclaredMark,
           \/ EvidenceSeen' = EvidenceSeen /\ ConclusiveSeen' = ConclusiveSeen
           \/ ~ConclusiveSeen /\ ConclusiveSeen'
    PROVE  Oracle!OracleNext
<1>1. EvidenceSeen' \subseteq Families \cup {LogMark}
    BY DEF EvidenceSeen, FamiliesHit
<1>2. Oracle!Learn
    BY <1>1 DEF Oracle!Learn, Oracle!Pending, Running
<1> QED
    BY <1>2 DEF Oracle!OracleNext

\* An exit status of 2 is always allowed, and is the only one an unfinished
\* check gives.
LEMMA GiveUpStep ==
    ASSUME status = Running, status' = 2,
           UNCHANGED <<ClaimSeen, EvidenceSeen, ConclusiveSeen>>
    PROVE  Oracle!OracleNext
<1>1. Oracle!Answer
    BY DEF Oracle!Answer, Oracle!Pending, Running
<1> QED
    BY <1>1 DEF Oracle!OracleNext

\* What the oracle sees depends on these variables only.
LEMMA SeenUnchanged ==
    ASSUME UNCHANGED <<cfg, l2, l3, advertised>>,
           level_reached' = level_reached
    PROVE  UNCHANGED <<ClaimSeen, EvidenceSeen, ConclusiveSeen>>
BY DEF ClaimSeen, EvidenceSeen, ConclusiveSeen

\* Steps of the session: a result arrives once, and only after the start.
LEMMA SessionRefines ==
    ASSUME RInv, RInv', StartL3 \/ (stage = "l3" /\ ProbeStep)
    PROVE  Oracle!OracleNext
<1>1. stage = "l3" /\ UNCHANGED checkVars
    BY DEF StartL3, ProbeStep
<1>2. status = Running /\ status' = status
    BY <1>1 DEF RInv, IInv, StageInv, checkVars
<1>3. cfg.l3 /\ cfg'.l3
    BY <1>1 DEF RInv, LevelInv, checkVars
<1>4. ClaimSeen' = ClaimSeen
    BY <1>1 DEF ClaimSeen, checkVars
<1>5. ConclusiveSeen = l3.completed /\ ConclusiveSeen' = l3'.completed
    BY <1>3 DEF ConclusiveSeen
<1>6. /\ EvidenceSeen = FamiliesHit(l3.hits)
      /\ EvidenceSeen' = FamiliesHit(l3'.hits)
    BY <1>3 DEF EvidenceSeen, FamiliesHit, FamilyHit
<1>7. \/ l3' = l3
      \/ session # "done" /\ ~l3'.completed /\ l3'.hits = NoHits
      \/ session # "done" /\ l3'.completed
    BY <1>1, ResultSteps DEF StartL3, ProbeStep
<1>8. l3.completed \in BOOLEAN /\ l3'.completed \in BOOLEAN
    BY DEF RInv, IInv, TypeOK, ProbeTypeOK, L3Result
<1>9. session # "done" => ~l3.completed /\ l3.hits = NoHits
    BY DEF RInv, IInv, ProbeInv, ResultInv, FailureReportsNothing
<1>10. \/ EvidenceSeen' = EvidenceSeen /\ ConclusiveSeen' = ConclusiveSeen
       \/ ~ConclusiveSeen /\ ConclusiveSeen'
    BY <1>5, <1>6, <1>7, <1>8, <1>9
<1> QED
    BY <1>2, <1>4, <1>10, LearnStep

\* The selection layer declares the claim, and is the evidence where there
\* is no debugger layer.
LEMMA SelectRefines ==
    ASSUME RInv, RInv', L2Select
    PROVE  Oracle!OracleNext
<1>1. /\ stage = "l2" /\ level_reached' = 2
      /\ UNCHANGED <<l3, cfg, status>>
    BY DEF L2Select, probeVars
<1>2. /\ status = Running /\ level_reached \in {0, 1} /\ l2 = NoL2
    BY <1>1 DEF RInv, IInv, StageInv, LevelInv
<1>3. ClaimSeen = UndeclaredMark
    BY <1>2 DEF ClaimSeen
<1>4. CASE cfg.l3
  <2>1. EvidenceSeen' = EvidenceSeen /\ ConclusiveSeen' = ConclusiveSeen
    BY <1>1, <1>4 DEF EvidenceSeen, ConclusiveSeen
  <2> QED
    BY <1>1, <1>2, <1>3, <2>1, LearnStep
<1>5. CASE ~cfg.l3
  <2>1. /\ EvidenceSeen = {} /\ ConclusiveSeen = FALSE
        /\ ConclusiveSeen' = l2'.matched
    BY <1>1, <1>2, <1>5 DEF EvidenceSeen, ConclusiveSeen, NoL2
  <2>2. l2'.matched \in BOOLEAN
    BY DEF RInv, IInv, TypeOK, L2Result
  <2>3. ~l2'.matched => EvidenceSeen' = {}
    BY <1>1, <1>5 DEF EvidenceSeen
  <2>4. \/ EvidenceSeen' = EvidenceSeen /\ ConclusiveSeen' = ConclusiveSeen
        \/ ~ConclusiveSeen /\ ConclusiveSeen'
    BY <2>1, <2>2, <2>3
  <2> QED
    BY <1>1, <1>2, <1>3, <2>4, LearnStep
<1> QED
    BY <1>4, <1>5

\* The exit status of a finished check is the answer the evidence demands.
LEMMA ExitRefines ==
    ASSUME RInv, Exit
    PROVE  Oracle!OracleNext
<1>1. /\ stage = "returned" /\ status' = exit_code
      /\ UNCHANGED <<cfg, l2, l3, advertised, level_reached>>
    BY DEF Exit, probeVars
<1>2. status = Running
    BY <1>1 DEF RInv, IInv, StageInv
<1>3. UNCHANGED <<ClaimSeen, EvidenceSeen, ConclusiveSeen>>
    BY <1>1, SeenUnchanged
<1>4. exit_code \in 0..2 /\ level_reached \in 0..3
    BY DEF RInv, IInv, TypeOK
<1>5. CASE exit_code = 2
    BY <1>1, <1>2, <1>3, <1>5, GiveUpStep
<1>6. CASE exit_code # 2 /\ level_reached = 2
  <2>1. ~cfg.l3 /\ l2.matched /\ (exit_code = 0 <=> ~l2.fallback)
    BY <1>6 DEF RInv, LevelInv
  <2>2. ClaimSeen = LogMark /\ ConclusiveSeen
    BY <1>6, <2>1 DEF ClaimSeen, ConclusiveSeen
  <2>3. EvidenceSeen = IF ~l2.fallback THEN {LogMark} ELSE {}
    BY <2>1 DEF EvidenceSeen
  <2>4. LogMark # AnyMark
    BY DEF LogMark, AnyMark
  <2>5. Oracle!Supported <=> ~l2.fallback
    BY <2>2, <2>3, <2>4 DEF Oracle!Supported
  <2>6. status' = IF Oracle!Supported THEN 0 ELSE 1
    BY <1>1, <1>4, <1>6, <2>1, <2>5
  <2>7. ClaimSeen \notin {UndeclaredMark, NothingMark}
    BY <2>2 DEF LogMark, UndeclaredMark, NothingMark
  <2>8. Oracle!Answer
    BY <1>2, <1>3, <2>2, <2>6, <2>7 DEF Oracle!Answer, Oracle!Pending, Running
  <2> QED
    BY <2>8 DEF Oracle!OracleNext
<1>7. CASE exit_code # 2 /\ level_reached = 3
  <2>1. /\ cfg.l3 /\ l3.completed
        /\ exit_code = 0 <=> \E s \in Symbols : l3.hits[s] > 0 /\ Claimed(s)
        /\ ~NamesNothing(strip(advertised)) \/ (cfg.implicit /\ advertised = NoClaim)
    BY <1>7 DEF RInv, LevelInv, IInv, AnswerInv
  <2>2. ConclusiveSeen /\ EvidenceSeen = FamiliesHit(l3.hits)
    BY <2>1 DEF ConclusiveSeen, EvidenceSeen
  <2>3. /\ ClaimSeen \notin {UndeclaredMark, NothingMark}
        /\ Oracle!Supported <=> \E s \in Symbols : l3.hits[s] > 0 /\ Claimed(s)
    <3>1. CASE cfg.implicit /\ advertised = NoClaim
      <4>1. ClaimSeen = AnyMark
        BY <1>7, <2>1, <3>1 DEF ClaimSeen
      <4>2. AnyMark \notin {UndeclaredMark, NothingMark}
        BY DEF AnyMark, UndeclaredMark, NothingMark
      <4>3. EvidenceSeen # {} <=> \E s \in Symbols : l3.hits[s] > 0
        BY <2>2, ClassifyInFamilies DEF FamiliesHit, FamilyHit
      <4>4. AnyMark \notin EvidenceSeen
        BY <2>2, MarkAssumption DEF FamiliesHit
      <4>5. Oracle!Supported <=> EvidenceSeen # {}
        BY <4>1, <4>4 DEF Oracle!Supported
      <4> QED
        BY <3>1, <4>1, <4>2, <4>3, <4>5 DEF Claimed
    <3>2. CASE ~(cfg.implicit /\ advertised = NoClaim)
      <4>1. ClaimSeen = advertised.word /\ ~NamesNothing(strip(advertised))
        BY <1>7, <2>1, <3>2 DEF ClaimSeen
      <4>2. advertised.word \in Words
        BY DEF RInv, IInv, TypeOK, Claims
      <4>3. advertised.word \notin {UndeclaredMark, NothingMark, AnyMark}
        BY <4>2, MarkAssumption
           DEF Words, EmptyWord, BlankWord, StrangeWord,
               UndeclaredMark, NothingMark, AnyMark
      <4>4. Oracle!Supported <=> advertised.word \in FamiliesHit(l3.hits)
        BY <2>2, <4>1, <4>3 DEF Oracle!Supported
      <4>5. \A s \in Symbols :
               Claimed(s) <=> classify_symbol_family(s) = advertised.word
        BY <3>2, ClassifyIsBelongs DEF Claimed
      <4>6. advertised.word \in FamiliesHit(l3.hits)
              <=> \E s \in Symbols : l3.hits[s] > 0 /\ Claimed(s)
        BY <4>5, ClassifyInFamilies DEF FamiliesHit, FamilyHit
      <4> QED
        BY <4>1, <4>3, <4>4, <4>6
    <3> QED
      BY <3>1, <3>2
  <2>4. status' = IF Oracle!Supported THEN 0 ELSE 1
    BY <1>1, <1>4, <1>7, <2>1, <2>3
  <2>5. Oracle!Answer
    BY <1>2, <1>3, <2>2, <2>3, <2>4 DEF Oracle!Answer, Oracle!Pending, Running
  <2> QED
    BY <2>5 DEF Oracle!OracleNext
<1>8. CASE exit_code # 2 /\ level_reached \in {0, 1}
    BY <1>8 DEF RInv, LevelInv
<1> QED
    BY <1>4, <1>5, <1>6, <1>7, <1>8

-----------------------------------------------------------------------------
\* Every step of the check is a step of the oracle, or leaves what the
\* oracle sees unchanged.
LEMMA StepRefines ==
    ASSUME RInv, RInv', [Next]_vars
    PROVE  Oracle!OracleNext \/ UNCHANGED Oracle!oracleVars
<1> USE DEF Oracle!oracleVars
<1>1. CASE Preflight
  <2>1. /\ status' = status \/ (status = Running /\ status' = 2)
        /\ UNCHANGED <<cfg, l2, l3, advertised, level_reached>>
    BY <1>1 DEF Preflight, probeVars, RInv, IInv, StageInv
  <2> QED
    BY <2>1, SeenUnchanged, GiveUpStep
<1>2. CASE L1Static
  <2>1. /\ stage = "l1" /\ level_reached' \in {0, 1}
        /\ UNCHANGED <<cfg, l2, l3, advertised, status>>
    BY <1>2 DEF L1Static, probeVars
  <2>2. level_reached \in {0, 1}
    BY <2>1 DEF RInv, LevelInv
  <2>3. ClaimSeen' = ClaimSeen
    BY <2>1, <2>2 DEF ClaimSeen
  <2> QED
    BY <2>1, <2>3 DEF EvidenceSeen, ConclusiveSeen
<1>3. CASE L2Unfilled
  <2>1. UNCHANGED <<cfg, l2, l3, advertised, level_reached, status>>
    BY <1>3 DEF L2Unfilled, probeVars
  <2> QED
    BY <2>1, SeenUnchanged
<1>4. CASE L2Select
    BY <1>4, SelectRefines
<1>5. CASE StartL3 \/ (stage = "l3" /\ ProbeStep)
    BY <1>5, SessionRefines
<1>6. CASE stage # "l3" /\ ProbeStep
  <2>1. ProgramNext /\ UNCHANGED checkVars
    BY <1>6 DEF ProbeStep
  <2>2. UNCHANGED <<cfg, l2, l3, advertised, level_reached, status>>
    BY <2>1 DEF ProgramNext, LoadLibrary, InferiorEnds, CallKernel, checkVars
  <2> QED
    BY <2>2, SeenUnchanged
<1>7. CASE Judge
  <2>1. /\ stage = "l3" /\ level_reached' = 3
        /\ UNCHANGED <<cfg, l2, l3, advertised, status>>
    BY <1>7 DEF Judge, probeVars
  <2>2. level_reached = 2
    BY <2>1 DEF RInv, LevelInv
  <2>3. ClaimSeen' = ClaimSeen
    BY <2>1, <2>2 DEF ClaimSeen
  <2> QED
    BY <2>1, <2>3 DEF EvidenceSeen, ConclusiveSeen
<1>8. CASE Exit
    BY <1>8, ExitRefines
<1>9. CASE Raise \/ Interrupt
  <2>1. /\ status = Running /\ status' = 2
        /\ UNCHANGED <<cfg, l2, l3, advertised, level_reached>>
    BY <1>9 DEF Raise, Interrupt, probeVars, RInv, IInv, StageInv
  <2> QED
    BY <2>1, SeenUnchanged, GiveUpStep
<1>10. CASE UNCHANGED vars
  <2>1. UNCHANGED <<cfg, l2, l3, advertised, level_reached, status>>
    BY <1>10 DEF vars, probeVars, checkVars
  <2> QED
    BY <2>1, SeenUnchanged
<1> QED
    BY <1>1, <1>2, <1>3, <1>4, <1>5, <1>6, <1>7, <1>8, <1>9, <1>10
       DEF Next, CheckNext

\* Before the check begins nothing is claimed, seen or answered.
LEMMA InitRefines == Init => Oracle!OracleInit
<1> SUFFICES ASSUME Init PROVE Oracle!OracleInit
    OBVIOUS
<1>1. l3.hits = NoHits /\ ~l3.completed /\ l2 = NoL2
    BY DEF Init, ProbeInit, L3Failed
<1>2. FamiliesHit(NoHits) = {}
    BY DEF FamiliesHit, FamilyHit, NoHits
<1>3. EvidenceSeen = {} /\ ConclusiveSeen = FALSE
    BY <1>1, <1>2 DEF EvidenceSeen, ConclusiveSeen, NoL2, Init, ProbeInit,
       L3Failed
<1>4. ClaimSeen = UndeclaredMark /\ status = Oracle!Pending
    BY DEF Init, ClaimSeen, Running, Oracle!Pending
<1> QED
    BY <1>3, <1>4 DEF Oracle!OracleInit

\* `polygraph check` implements its exit-code contract.
THEOREM ChecksRefineOracle == Spec => RefinesOracle
<1>1. RInv /\ RInv' /\ [Next]_vars => [Oracle!OracleNext]_(Oracle!oracleVars)
    BY StepRefines
<1> QED
    BY <1>1, LevelsFit, InitRefines, PTL
       DEF Spec, RefinesOracle, Oracle!OracleSpec
===============================================================================
