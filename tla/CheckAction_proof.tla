-------------------------- MODULE CheckAction_proof --------------------------
(***************************************************************************)
(* The action's promises, for every target, symbol table and bound.  The   *)
(* invariant of the check (IInv) is kept by every step of the action; on   *)
(* top of it AInv says what each step of the action has established.       *)
(***************************************************************************)
EXTENDS CheckAction, TargetCheck_proof

Later == {"summary", "enforce", "ended"}
Before == {"validate", "install", "locate", "run"}

\* The action starts in AInv.
LEMMA ActionInitInv == ActionInit => AInv
<1> SUFFICES ASSUME ActionInit PROVE AInv
    OBVIOUS
<1>1. IInv /\ TypeOK
    BY InitIInv DEF ActionInit, IInv
<1>2. ActionTypeOK
  <2>1. NoOutput \in Outputs
    BY DEF Outputs
  <2> QED
    BY <1>1, <2>1 DEF ActionInit, ActionTypeOK
<1>3. StepInv /\ OutcomeInv
    BY DEF ActionInit, Init, StepInv, OutcomeInv
<1>4. ReportInv
    BY DEF ActionInit, Init, ReportInv, Running
<1> QED
    BY <1>1, <1>2, <1>3, <1>4 DEF AInv

-----------------------------------------------------------------------------
\* Installing gdb before the check starts changes nothing the check has done.
LEMMA InstallIInv ==
    ASSUME IInv, InstallGdb
    PROVE  IInv'
<1>1. /\ UNCHANGED <<session, debugger, requested, created, loaded, armed,
                     inferior, calls, hits, printed, l3>>
      /\ UNCHANGED checkVars
      /\ installed' \subseteq Debuggers
    BY DEF IInv, TypeOK, ProbeTypeOK, InstallGdb, Debuggers
<1>2. ProbeTypeOK'
    BY <1>1 DEF IInv, TypeOK, ProbeTypeOK
<1>3. ProbeInv'
  <2>1. CountersExact' /\ PhaseInv' /\ BreakpointInv'
    BY <1>1 DEF IInv, ProbeInv, CountersExact, PhaseInv, BreakpointInv
  <2>2. ResultInv'
    BY <1>1 DEF IInv, ProbeInv, ResultInv, Readings
  <2> QED
    BY <2>1, <2>2 DEF ProbeInv
<1>4. TypeOK'
    BY <1>1, <1>2 DEF IInv, TypeOK, checkVars
<1>5. StageInv' /\ NoProbeLeftRunning' /\ HeadlineAgrees'
    BY <1>1 DEF IInv, StageInv, NoProbeLeftRunning, HeadlineAgrees, checkVars
<1>6. AnswerInv'
    BY <1>1 DEF IInv, AnswerInv, Claimed, checkVars
<1> QED
    BY <1>3, <1>4, <1>5, <1>6 DEF IInv

\* Every other step of the action is a step of the check, or leaves it alone.
LEMMA ActionIInv ==
    ASSUME IInv, ActionNext
    PROVE  IInv'
<1>1. CASE InstallGdb
    BY <1>1, InstallIInv
<1>2. CASE Check
  <2>1. Next
    BY <1>2 DEF Check, Next, CheckNext
  <2> QED
    BY <2>1, NextIInv
<1>3. CASE Cancel
  <2>1. Interrupt \/ UNCHANGED vars
    BY <1>3 DEF Cancel
  <2> QED
    BY <2>1, NextIInv DEF Next
<1>4. CASE Validate \/ Locate \/ RunMissing \/ RunCheck \/ Parse \/ Summary
           \/ Enforce
  <2>1. UNCHANGED vars
    BY <1>4 DEF Validate, Locate, RunMissing, RunCheck, Parse, Summary, Enforce
  <2> QED
    BY <2>1, NextIInv
<1> QED
    BY <1>1, <1>2, <1>3, <1>4 DEF ActionNext, StepNext

-----------------------------------------------------------------------------
\* run_target_check never returns without a verdict.
LEMMA ReturnsVerdict ==
    ASSUME IInv, Next, stage' = "returned", stage # "returned"
    PROVE  verdict' # NoVerdict
<1>1. NoVerdict \notin Verdicts
    BY DEF NoVerdict, Verdicts
<1>2. L1Static \/ L2Unfilled \/ L2Select \/ Judge
    BY DEF Next, CheckNext, Preflight, StartL3, Exit, ProbeStep, Raise,
       Interrupt, checkVars
<1>3. CASE L1Static \/ L2Unfilled
    BY <1>3 DEF L1Static, L2Unfilled, Return, NoVerdict
<1>4. CASE L2Select
  <2>1. PICK r \in L2Readings :
           IF cfg.level < 3 \/ ~cfg.l3
           THEN L2Return(r)
           ELSE stage' = "l3" /\ Stay
    BY <1>4 DEF L2Select
  <2>2. r \in L2Result /\ L2Return(r)
    BY <2>1 DEF L2Readings
  <2>3. verdict' \in Verdicts
    BY <2>2, L2OnlyCodes DEF L2Return, Return, Verdicts
  <2> QED
    BY <1>1, <2>3
<1>5. CASE Judge
  <2>1. \/ verdict' \in {"DISPATCHED_ADHOC", "NO_DISPATCH_OBSERVED"}
        \/ verdict' = compute_verdict(advertised, l3)
    BY <1>5 DEF Judge, Return
  <2>2. compute_verdict(advertised, l3) \in Verdicts
    BY VerdictTypes DEF IInv, TypeOK, ProbeTypeOK
  <2> QED
    BY <1>1, <2>1, <2>2 DEF Verdicts
<1> QED
    BY <1>2, <1>3, <1>4, <1>5

\* While the check has not ended no report is whole.
LEMMA NoReportYet ==
    ASSUME AInv, stage # "ended"
    PROVE  json # "whole" /\ status = Running
<1>1. status = Running /\ exit_code \in 0..2
    BY DEF AInv, IInv, StageInv, TypeOK
<1> QED
    BY <1>1 DEF AInv, ReportInv, Running

\* What one step of the running check does to its status and its report.
LEMMA CheckEffect ==
    ASSUME AInv, Check
    PROVE  /\ stage' = "ended" <=> status' # Running
           /\ stage' = "returned" => verdict' # NoVerdict
           /\ status' \in {0, 1} => json' = "whole"
           /\ json' = "whole" => status' = exit_code' /\ verdict' # NoVerdict
<1>1. stage # "ended" /\ json # "whole" /\ status = Running
    BY NoReportYet DEF AInv, StepInv, Check
<1>2. CASE Exit /\ json' = "whole"
  <2>1. exit_code \in 0..2 /\ verdict # NoVerdict
    BY <1>2 DEF AInv, IInv, TypeOK, ReportInv, Exit
  <2>2. /\ stage' = "ended" /\ status' = exit_code /\ exit_code' = exit_code
        /\ verdict' = verdict
    BY <1>2 DEF Exit, Stay, resultVars
  <2> QED
    BY <1>2, <2>1, <2>2 DEF Running
<1>3. CASE Raise /\ json' # "whole"
  <2>1. stage' = "ended" /\ status' = 2
    BY <1>3 DEF Raise
  <2> QED
    BY <1>3, <2>1 DEF Running
<1>4. CASE Preflight /\ json' = json
  <2>1. \/ stage' = "l1" /\ status' = status
        \/ stage' = "ended" /\ status' = 2
    BY <1>4 DEF Preflight
  <2> QED
    BY <1>1, <1>4, <2>1 DEF Running
<1>5. CASE /\ L1Static \/ L2Unfilled \/ L2Select \/ StartL3 \/ Judge \/ ProbeStep
           /\ json' = json
  <2>1. status' = status
    BY <1>5 DEF L1Static, L2Unfilled, L2Select, StartL3, Judge, ProbeStep,
       checkVars
  <2>2. stage' # "ended"
    BY <1>1, <1>5 DEF L1Static, L2Unfilled, L2Select, L2Return, StartL3, Judge,
       Return, ProbeStep, checkVars
  <2>3. Next /\ IInv
    BY <1>5 DEF Next, CheckNext, AInv
  <2>4. CASE stage # "returned"
    BY <1>1, <1>5, <2>1, <2>2, <2>3, <2>4, ReturnsVerdict DEF Running
  <2>5. CASE stage = "returned"
    BY <1>5, <2>5 DEF L1Static, L2Unfilled, L2Select, StartL3, Judge, ProbeStep
  <2> QED
    BY <2>4, <2>5
<1> QED
    BY <1>1, <1>2, <1>3, <1>4, <1>5 DEF Check

\* What can be read out of the report is an output of the action's.
LEMMA ParsedType ==
    ASSUME AInv
    PROVE  Parsed \in Outputs
<1>1. CASE json = "whole"
  <2>1. verdict \in Verdicts /\ level_reached \in 0..3
    BY <1>1 DEF AInv, ReportInv, IInv, TypeOK
  <2> QED
    BY <1>1, <2>1 DEF Parsed, Outputs
<1>2. CASE json # "whole"
    BY <1>2 DEF Parsed, Outputs
<1> QED
    BY <1>1, <1>2

-----------------------------------------------------------------------------
\* A step of the running check keeps AInv: only its end moves the action on.
LEMMA CheckAInv ==
    ASSUME AInv, Check
    PROVE  AInv'
<1>1. IInv' /\ TypeOK'
    BY ActionIInv DEF AInv, ActionNext, IInv
<1>2. /\ step = "checking" /\ valid /\ found /\ ~cancelled
      /\ output = NoOutput /\ outcome = "skipped"
      /\ step' = IF status' # Running THEN "parse" ELSE "checking"
      /\ UNCHANGED <<valid, fail_on, found, output, outcome, cancelled,
                     conclusion>>
    BY DEF AInv, StepInv, OutcomeInv, Check
<1>3. json' \in {"empty", "part", "whole"}
    BY DEF Check, AInv, ActionTypeOK
<1>4. ActionTypeOK'
    BY <1>1, <1>2, <1>3 DEF AInv, ActionTypeOK
<1>5. StepInv'
    BY <1>2, CheckEffect DEF StepInv, AInv
<1>6. OutcomeInv'
    BY <1>2 DEF AInv, OutcomeInv
<1>7. ReportInv'
    BY <1>2, CheckEffect DEF ReportInv
<1> QED
    BY <1>1, <1>4, <1>5, <1>6, <1>7 DEF AInv

\* The steps before the check write no report and give no answer.
LEMMA BeforeAInv ==
    ASSUME AInv, Validate \/ InstallGdb \/ Locate \/ RunMissing \/ RunCheck
    PROVE  AInv'
<1>1. IInv' /\ TypeOK'
    BY ActionIInv DEF AInv, ActionNext, StepNext, IInv
<1>2. /\ step \in Before /\ stage = "preflight"
      /\ output = NoOutput /\ outcome = "skipped"
      /\ ~cancelled
      /\ UNCHANGED <<checkVars, valid, fail_on, json, cancelled, conclusion>>
    BY DEF AInv, StepInv, OutcomeInv, Validate, InstallGdb, Locate,
       RunMissing, RunCheck, Before, vars
<1>3. UNCHANGED <<stage, level_reached, verdict, exit_code, status>>
    BY <1>2 DEF checkVars
<1>4. json # "whole" /\ status = Running
    BY <1>2, NoReportYet
<1>5. fail_on' = fail_on /\ json' = json /\ cancelled' = cancelled
      /\ conclusion' = conclusion /\ valid' = valid
    BY <1>2
<1>6. found' \in BOOLEAN /\ (found' => valid')
    BY DEF AInv, StepInv, ActionTypeOK, Validate, InstallGdb, Locate,
       RunMissing, RunCheck
<1>7. conclusion # "success"
    BY <1>2 DEF AInv, OutcomeInv, Before
<1>8. CASE /\ step' \in {"install", "locate", "run", "checking"}
           /\ output' = output /\ outcome' = outcome
  <2>1. valid' /\ (step' = "checking" => found')
    BY <1>8 DEF AInv, StepInv, Validate, InstallGdb, Locate, RunMissing,
       RunCheck
  <2>2. ActionTypeOK'
    BY <1>1, <1>5, <1>6, <1>8 DEF AInv, ActionTypeOK
  <2>3. StepInv'
    BY <1>2, <1>3, <1>5, <1>6, <1>8, <2>1 DEF StepInv
  <2>4. OutcomeInv'
    BY <1>2, <1>5, <1>7, <1>8 DEF OutcomeInv
  <2>5. ReportInv'
    BY <1>2, <1>3, <1>4, <1>5, <1>8 DEF ReportInv, Running
  <2> QED
    BY <1>1, <2>2, <2>3, <2>4, <2>5 DEF AInv
<1>9. CASE /\ step' = "summary"
           /\ \/ output' = NoOutput /\ outcome' = "skipped" /\ ~valid
              \/ output' = ToolMissing /\ outcome' = "failure" /\ ~found'
              \/ output' = Unknown /\ outcome' = "failure"
  <2>1. output' \in {NoOutput, ToolMissing, Unknown}
    BY <1>9
  <2>2. output' \in Outputs
    BY <2>1 DEF Outputs
  <2>3. ActionTypeOK'
    BY <1>1, <1>5, <1>6, <1>9, <2>2 DEF AInv, ActionTypeOK
  <2>4. StepInv'
    BY <1>2, <1>5, <1>6, <1>9 DEF StepInv
  <2>5. OutcomeInv'
    BY <1>5, <1>7, <1>9 DEF OutcomeInv
  <2>6. ReportInv'
    BY <1>2, <1>3, <1>4, <1>5, <1>9, <2>1 DEF ReportInv, Running
  <2> QED
    BY <1>1, <2>3, <2>4, <2>5, <2>6 DEF AInv
<1>10. \/ /\ step' \in {"install", "locate", "run", "checking"}
          /\ output' = output /\ outcome' = outcome
       \/ /\ step' = "summary"
          /\ \/ output' = NoOutput /\ outcome' = "skipped" /\ ~valid
             \/ output' = ToolMissing /\ outcome' = "failure" /\ ~found'
             \/ output' = Unknown /\ outcome' = "failure"
    BY <1>2 DEF Validate, InstallGdb, Locate, RunMissing, RunCheck
<1> QED
    BY <1>8, <1>9, <1>10

\* The outputs are read from the report, the outcome from the exit status.
LEMMA ParseAInv ==
    ASSUME AInv, Parse
    PROVE  AInv'
<1>1. IInv' /\ TypeOK'
    BY ActionIInv DEF AInv, ActionNext, StepNext, IInv
<1>2. /\ step = "parse" /\ step' = "summary" /\ valid /\ found
      /\ status # Running /\ ~cancelled
      /\ UNCHANGED <<stage, level_reached, verdict, exit_code, status, valid,
                     fail_on, found, json, cancelled, conclusion>>
      /\ output' = Parsed
      /\ outcome' = IF status = 0 THEN "success" ELSE "failure"
    BY DEF AInv, StepInv, Parse, vars, checkVars
<1>3. ActionTypeOK'
    BY <1>1, <1>2, ParsedType DEF AInv, ActionTypeOK
<1>4. StepInv'
    BY <1>2 DEF AInv, StepInv
<1>5. OutcomeInv'
    BY <1>2 DEF AInv, OutcomeInv
<1>6. ReportInv'
    BY <1>2 DEF AInv, ReportInv, Parsed, OutputOf
<1> QED
    BY <1>1, <1>3, <1>4, <1>5, <1>6 DEF AInv

\* A cancelled job leaves outputs of the interrupted check, or none.
LEMMA CancelAInv ==
    ASSUME AInv, Cancel
    PROVE  AInv'
<1>1. IInv' /\ TypeOK'
    BY ActionIInv DEF AInv, ActionNext, IInv
<1>2. /\ step \notin Later /\ step' = "summary" /\ cancelled'
      /\ UNCHANGED <<valid, fail_on, found, json, conclusion>>
      /\ output = NoOutput /\ outcome = "skipped"
      /\ outcome' \in {"cancelled", "skipped"} /\ output' \in {NoOutput, Parsed}
    BY DEF AInv, OutcomeInv, Cancel, Later
<1>3. /\ stage' = "returned" => stage = "returned"
      /\ UNCHANGED <<level_reached, verdict, exit_code>>
    BY DEF Cancel, Interrupt, Stay, resultVars, vars, checkVars
<1>4. status' = status \/ (status' = 2 /\ json # "whole")
  <2>1. CASE step = "checking"
    BY <2>1, NoReportYet DEF AInv, StepInv, Cancel, Interrupt
  <2>2. CASE step # "checking"
    BY <2>2 DEF Cancel, vars, checkVars
  <2> QED
    BY <2>1, <2>2
<1>5. ActionTypeOK'
  <2>1. output' \in Outputs
    BY <1>2, ParsedType DEF Outputs
  <2> QED
    BY <1>1, <1>2, <2>1 DEF AInv, ActionTypeOK
<1>6. StepInv'
    BY <1>2 DEF AInv, StepInv
<1>7. OutcomeInv'
    BY <1>2 DEF AInv, OutcomeInv, Later
<1>8. ReportInv'
    BY <1>2, <1>3, <1>4 DEF AInv, ReportInv, Parsed, OutputOf
<1> QED
    BY <1>1, <1>5, <1>6, <1>7, <1>8 DEF AInv

\* The last two steps only decide the conclusion.
LEMMA LastAInv ==
    ASSUME AInv, Summary \/ Enforce
    PROVE  AInv'
<1>1. IInv' /\ TypeOK'
    BY ActionIInv DEF AInv, ActionNext, StepNext, IInv
<1>2. /\ step \in Later
      /\ step' \in {"enforce", "ended"}
      /\ UNCHANGED <<stage, level_reached, verdict, exit_code, status, valid,
                     fail_on, found, json, output, outcome, cancelled>>
    BY DEF Summary, Enforce, Later, vars, checkVars
<1>3. \/ conclusion' = conclusion /\ step = "summary"
      \/ conclusion' = "failure"
      \/ /\ conclusion' = "success" /\ step' = "ended" /\ found /\ valid
         /\ outcome = "failure" => fail_on # "mismatch"
    BY DEF Summary, Enforce
<1>4. ActionTypeOK'
    BY <1>1, <1>2, <1>3 DEF AInv, ActionTypeOK
<1>5. StepInv'
    BY <1>2 DEF AInv, StepInv, Later
<1>6. OutcomeInv'
    BY <1>2, <1>3 DEF AInv, OutcomeInv, ActionTypeOK, Later
<1>7. ReportInv'
    BY <1>2 DEF AInv, ReportInv, Later
<1> QED
    BY <1>1, <1>4, <1>5, <1>6, <1>7 DEF AInv

\* Every step of the action preserves AInv.
LEMMA ActionNextInv ==
    ASSUME AInv, [ActionNext]_actionVars
    PROVE  AInv'
<1>1. CASE ActionNext
    BY <1>1, CheckAInv, BeforeAInv, ParseAInv, CancelAInv, LastAInv
       DEF ActionNext, StepNext
<1>2. CASE UNCHANGED actionVars
  <2>1. IInv' /\ TypeOK'
    BY <1>2, NextIInv DEF AInv, IInv, actionVars
  <2>2. UNCHANGED <<stage, level_reached, verdict, exit_code, status>>
    BY <1>2 DEF actionVars, vars, checkVars
  <2>3. UNCHANGED stepVars
    BY <1>2 DEF actionVars
  <2>4. ActionTypeOK'
    BY <2>1, <2>3 DEF AInv, ActionTypeOK, stepVars
  <2>5. StepInv' /\ OutcomeInv'
    BY <2>2, <2>3 DEF AInv, StepInv, OutcomeInv, stepVars
  <2>6. ReportInv'
    BY <2>2, <2>3 DEF AInv, ReportInv, OutputOf, stepVars
  <2> QED
    BY <2>1, <2>4, <2>5, <2>6 DEF AInv
<1> QED
    BY <1>1, <1>2

\* AInv holds in every state of every run of the action.
THEOREM ActionInvariance == ActionSpec => []AInv
BY ActionInitInv, ActionNextInv, PTL DEF ActionSpec

\* Every variable of the action keeps its type.
THEOREM ActionIsTyped == ActionSpec => []ActionTypeOK
<1>1. AInv => ActionTypeOK
    BY DEF AInv
<1> QED
    BY <1>1, ActionInvariance, PTL

-----------------------------------------------------------------------------
\* A green action, under fail-on: mismatch and if its job was not cancelled,
\* rests on a check that ended with 0.
THEOREM GreenRestsOnMatch == ActionSpec => []GreenMeansMatch
<1>1. ASSUME AInv PROVE GreenMeansMatch
  <2> SUFFICES ASSUME conclusion = "success", fail_on = "mismatch", ~cancelled
               PROVE  /\ found /\ valid /\ status = 0
                      /\ level_reached = 3 =>
                            \E s \in created : calls[s] > 0 /\ Claimed(s)
    BY DEF GreenMeansMatch
  <2>1. outcome = "success" /\ status = 0 /\ found /\ valid
    BY <1>1 DEF AInv, OutcomeInv, ActionTypeOK
  <2> QED
    BY <1>1, <2>1, WitnessFromIInv DEF AInv, MatchIsWitnessed
<1> QED
    BY <1>1, ActionInvariance, PTL

\* A green action found the tool and ran it, whatever fail-on is.
THEOREM GreenRestsOnRun == ActionSpec => []GreenMeansTried
<1>1. ASSUME AInv PROVE GreenMeansTried
    BY <1>1 DEF AInv, OutcomeInv, ActionTypeOK, GreenMeansTried, Running
<1> QED
    BY <1>1, ActionInvariance, PTL

\* The outputs are those of the check that ran.
THEOREM OutputsAreReal == ActionSpec => []OutputsAreTheChecks
<1>1. ASSUME AInv PROVE OutputsAreTheChecks
  <2>1. /\ NoOutput.verdict = "" /\ Unknown.verdict = "unknown"
        /\ ToolMissing.verdict = "TOOL_NOT_AVAILABLE"
    BY DEF NoOutput, ToolMissing, Unknown
  <2>2. {"", "unknown", "TOOL_NOT_AVAILABLE"} \cap Verdicts = {}
    BY DEF Verdicts
  <2> QED
    BY <1>1, <2>1, <2>2 DEF AInv, ReportInv, OutputsAreTheChecks
<1> QED
    BY <1>1, ActionInvariance, PTL
==============================================================================
