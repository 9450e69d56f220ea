----------------------------- MODULE CheckAction -----------------------------
(***************************************************************************)
(* The composite GitHub action .github/actions/polygraph-check: its steps  *)
(* around one `polygraph check`, which is the process of TargetCheck.      *)
(*                                                                         *)
(* What a workflow sees of a check is what this wrapper makes of its exit  *)
(* status and of the JSON on its standard output: the outputs and whether  *)
(* the action's own step is green.                                         *)
(***************************************************************************)
EXTENDS TargetCheck

\* The action's command line has no --l3-debugger, and no --model or --param:
\* a target whose workload requires one is never filled.
ASSUME ActionAssumption == \A c \in Configs : c.debugger = "auto"

VARIABLES
    step,      \* the step of the composite action
    valid,     \* the inputs name a target or a whole ad-hoc command line
    fail_on,   \* inputs.fail-on
    found,     \* steps.locate.outputs.found
    json,      \* what reached the --json file
    output,    \* steps.check.outputs.verdict and level-reached
    outcome,   \* steps.check.outcome
    cancelled, \* the job was cancelled
    conclusion \* of the action

stepVars == <<step, valid, fail_on, found, json, output, outcome, cancelled,
              conclusion>>
actionVars == <<vars, stepVars>>

NoOutput == [verdict |-> "", level |-> "0"]
ToolMissing == [verdict |-> "TOOL_NOT_AVAILABLE", level |-> "0"]
Unknown == [verdict |-> "unknown", level |-> "unknown"]
LevelText == <<"1", "2", "3">>
OutputOf(v, n) == [verdict |-> v, level |-> IF n = 0 THEN "0" ELSE LevelText[n]]

\* What the script reads out of the JSON file.
Parsed == IF json = "whole" THEN OutputOf(verdict, level_reached) ELSE Unknown

Outputs ==
    {NoOutput, ToolMissing, Unknown} \cup
    {OutputOf(v, n) : v \in Verdicts, n \in 0..3}

ActionTypeOK ==
    /\ TypeOK
    /\ step \in {"validate", "install", "locate", "run", "checking", "parse",
                 "summary", "enforce", "ended"}
    /\ valid \in BOOLEAN
    /\ fail_on \in {"mismatch", "never"}
    /\ found \in BOOLEAN
    /\ json \in {"empty", "part", "whole"}
    /\ output \in Outputs
    /\ outcome \in {"skipped", "success", "failure", "cancelled"}
    /\ cancelled \in BOOLEAN
    /\ conclusion \in {"running", "success", "failure"}

ActionInit ==
    /\ Init
    /\ step = "validate"
    /\ valid \in BOOLEAN
    /\ fail_on \in {"mismatch", "never"}
    /\ found = FALSE
    /\ json = "empty"
    /\ output = NoOutput
    /\ outcome = "skipped"
    /\ cancelled = FALSE
    /\ conclusion = "running"

-----------------------------------------------------------------------------

\* A failing step skips all that follow but the ones marked always().
Validate ==
    /\ step = "validate"
    /\ step' = IF valid THEN "install" ELSE "summary"
    /\ UNCHANGED <<vars, valid, fail_on, found, json, output, outcome,
                   cancelled, conclusion>>

\* On Linux gdb is installed when it is absent and apt-get works.
InstallGdb ==
    /\ step = "install"
    /\ step' = "locate"
    /\ installed' \in IF cfg.darwin THEN {installed}
                      ELSE {installed, installed \cup {"gdb"}}
    /\ UNCHANGED <<session, debugger, requested, created, loaded, armed,
                   inferior, calls, hits, printed, l3, checkVars, valid,
                   fail_on, found, json, output, outcome, cancelled,
                   conclusion>>

Locate ==
    /\ step = "locate"
    /\ step' = "run"
    /\ found' \in BOOLEAN
    /\ UNCHANGED <<vars, valid, fail_on, json, output, outcome, cancelled,
                   conclusion>>

\* Without tools/polygraph the step fails with outputs of its own.
RunMissing ==
    /\ step = "run" /\ ~found
    /\ step' = "summary"
    /\ output' = ToolMissing
    /\ outcome' = "failure"
    /\ UNCHANGED <<vars, valid, fail_on, found, json, cancelled, conclusion>>

\* The shell starts polygraph, or cannot open the file its JSON goes to.
RunCheck ==
    /\ step = "run" /\ found
    /\ \/ step' = "checking" /\ UNCHANGED <<output, outcome>>
       \/ step' = "summary" /\ output' = Unknown /\ outcome' = "failure"
    /\ UNCHANGED <<vars, valid, fail_on, found, json, cancelled, conclusion>>

\* The check runs; its report is the last thing it does.
Check ==
    /\ step = "checking"
    /\ \/ /\ Preflight \/ L1Static \/ L2Unfilled \/ L2Select \/ StartL3
             \/ Judge \/ ProbeStep
          /\ UNCHANGED json
       \/ Exit /\ json' = "whole"
       \/ /\ Raise
          /\ json' \in IF stage = "returned" THEN {"empty", "part"} ELSE {json}
    /\ step' = IF status' # Running THEN "parse" ELSE "checking"
    /\ UNCHANGED <<valid, fail_on, found, output, outcome, cancelled,
                   conclusion>>

\* The job is cancelled before the check's step has ended: the check, if it
\* runs, is interrupted, and only the steps marked always() follow.  The
\* script of the step may still get to its outputs in the grace period.
Cancel ==
    /\ step \notin {"summary", "enforce", "ended"}
    /\ IF step = "checking" THEN Interrupt ELSE UNCHANGED vars
    /\ step' = "summary"
    /\ cancelled' = TRUE
    /\ IF step \in {"run", "checking", "parse"}
       THEN /\ outcome' = "cancelled"
            /\ output' \in {output, Parsed}
       ELSE UNCHANGED <<outcome, output>>
    /\ UNCHANGED <<valid, fail_on, found, json, conclusion>>

\* A broken variant (the action's first version): under bash -e an exit
\* status of 1 or 2 ends the script before it has written its outputs.
Parse_errexit ==
    /\ step = "parse"
    /\ output' = IF status # 0 THEN NoOutput
                 ELSE OutputOf(verdict, level_reached)
    /\ outcome' = IF status = 0 THEN "success" ELSE "failure"
    /\ step' = "summary"
    /\ UNCHANGED <<vars, valid, fail_on, found, json, cancelled, conclusion>>

\* A broken variant: the script ends with the status of its last echo.
Parse_no_exit ==
    /\ step = "parse"
    /\ output' = Parsed
    /\ outcome' = "success"
    /\ step' = "summary"
    /\ UNCHANGED <<vars, valid, fail_on, found, json, cancelled, conclusion>>

\* A broken variant: the report is taken to be there.
Parse_blind ==
    /\ step = "parse"
    /\ output' = OutputOf(verdict, level_reached)
    /\ outcome' = IF status = 0 THEN "success" ELSE "failure"
    /\ step' = "summary"
    /\ UNCHANGED <<vars, valid, fail_on, found, json, cancelled, conclusion>>

\* A broken variant: a report that was not written counts as no check.
Parse_waits ==
    /\ step = "parse" /\ json # "empty"
    /\ output' = Parsed
    /\ outcome' = IF status = 0 THEN "success" ELSE "failure"
    /\ step' = "summary"
    /\ UNCHANGED <<vars, valid, fail_on, found, json, cancelled, conclusion>>

\* The outputs are read from the JSON, whatever the exit status; then the
\* script ends with the status of the check.
Parse ==
    /\ step = "parse"
    /\ output' = Parsed
    /\ outcome' = IF status = 0 THEN "success" ELSE "failure"
    /\ step' = "summary"
    /\ UNCHANGED <<vars, valid, fail_on, found, json, cancelled, conclusion>>

\* "if: always()": the summary is written however the steps before ended.
Summary ==
    /\ step = "summary"
    /\ step' = "enforce"
    /\ UNCHANGED <<vars, valid, fail_on, found, json, output, outcome,
                   cancelled, conclusion>>

\* A broken variant: fail-on is looked at first.
Enforce_lenient ==
    /\ step = "enforce"
    /\ step' = "ended"
    /\ conclusion' = IF valid /\ fail_on = "mismatch" /\ outcome = "failure"
                     THEN "failure" ELSE "success"
    /\ UNCHANGED <<vars, valid, fail_on, found, json, output, outcome,
                   cancelled>>

\* "if: always()": a tool that was not found fails the action whatever
\* fail-on says; a failed check fails it unless fail-on is never.  A failed
\* Validate step fails the action by itself.
Enforce ==
    /\ step = "enforce"
    /\ step' = "ended"
    /\ conclusion' =
          IF ~found \/ (outcome = "failure" /\ fail_on = "mismatch") \/ ~valid
          THEN "failure" ELSE "success"
    /\ UNCHANGED <<vars, valid, fail_on, found, json, output, outcome,
                   cancelled>>

StepNext ==
    \/ Validate \/ InstallGdb \/ Locate \/ RunMissing \/ RunCheck \/ Parse
    \/ Summary \/ Enforce

ActionNext == StepNext \/ Check \/ Cancel

\* The runner runs the steps; the check has the fairness of its own processes.
ActionFairness ==
    /\ WF_actionVars(StepNext)
    /\ WF_actionVars(Check /\ CheckNext)
    /\ WF_actionVars(Check /\ DriverNext)
    /\ WF_actionVars(Check /\ ProbeTimeout)

ActionSpec == ActionInit /\ [][ActionNext]_actionVars
FairActionSpec == ActionSpec /\ ActionFairness

-----------------------------------------------------------------------------
(***************************************************************************)
(* Properties.                                                             *)
(***************************************************************************)

\* A green action with fail-on: mismatch (and no cancelled job) rests on a
\* check that ended with 0, and out of the debugger layer on a claimed kernel
\* that really ran: none of the steps in between makes anything else green.
GreenMeansMatch ==
    conclusion = "success" /\ fail_on = "mismatch" /\ ~cancelled =>
        /\ found /\ valid /\ status = 0
        /\ level_reached = 3 =>
              \E s \in created : calls[s] > 0 /\ Claimed(s)

\* "fail-on ... never silently turns 'the tool isn't even there' into a false
\* green": whatever fail-on is, a green action located the tool and ran it
\* to its end, or the job was cancelled meanwhile; under fail-on never, where
\* the JSON file could not be opened, the output says "unknown".
GreenMeansTried ==
    conclusion = "success" =>
        /\ valid /\ found
        /\ status # Running \/ cancelled \/ output = Unknown

\* The outputs a workflow reads under fail-on: never are those of the check
\* that ran: a conclusive answer, 1 as well as 0, comes with its verdict and
\* level, and an output that names a verdict comes from a whole report.
OutputsAreTheChecks ==
    step \in {"summary", "enforce", "ended"} =>
        /\ status \in {0, 1} /\ ~cancelled =>
              output = OutputOf(verdict, level_reached)
        /\ output.verdict \in Verdicts =>
              status = exit_code /\ output = OutputOf(verdict, level_reached)

\* The action ends, whatever the checked program does.
ActionEnds == <>(step = "ended")

\* "That is the whole integration": a preset that is to look at the running
\* program, and whose check ended with a report, had the program run.
PresetIsRun ==
    step = "ended" /\ json = "whole" /\ cfg.l2 /\ cfg.level # 1
        => level_reached # 1

-----------------------------------------------------------------------------
(***************************************************************************)
(* The inductive invariant the proofs use, beyond that of the check.       *)
(***************************************************************************)

\* Where the action is, and what the check has done by then.
StepInv ==
    /\ step \in {"validate", "install", "locate", "run"} => stage = "preflight"
    /\ step = "checking" => stage # "ended" /\ ~cancelled
    /\ step = "parse" => status # Running
    /\ cancelled => step \in {"summary", "enforce", "ended"}
    /\ step \in {"install", "locate", "run", "checking", "parse"} => valid
    /\ step \in {"checking", "parse"} => found
    /\ found => valid

\* What the outcome of the step that ran the check stands for.
OutcomeInv ==
    /\ step \notin {"summary", "enforce", "ended"}
          => output = NoOutput /\ outcome = "skipped"
    /\ outcome = "success" => status = 0 /\ found
    /\ outcome = "failure" /\ found => status # Running \/ output = Unknown
    /\ outcome = "cancelled" => cancelled
    /\ outcome = "skipped" /\ step \in {"summary", "enforce", "ended"}
          => ~valid \/ cancelled
    /\ conclusion = "success" =>
          /\ step = "ended" /\ valid /\ found
          /\ outcome = "failure" => fail_on = "never"

\* A check answers 0 or 1 only after it wrote its whole report.
ReportInv ==
    /\ stage = "returned" => verdict # NoVerdict
    /\ status \in {0, 1} => json = "whole"
    /\ json = "whole" => status = exit_code /\ verdict # NoVerdict
    /\ step \in {"summary", "enforce", "ended"} =>
          \/ json = "whole" /\ output = OutputOf(verdict, level_reached)
          \/ json # "whole" /\ output \in {NoOutput, ToolMissing, Unknown}
          \/ cancelled /\ output = NoOutput

AInv == IInv /\ ActionTypeOK /\ StepInv /\ OutcomeInv /\ ReportInv

=============================================================================
