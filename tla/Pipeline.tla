------------------------------ MODULE Pipeline ------------------------------
(***************************************************************************)
(* scripts/run_all.sh and the stage scripts it runs one after another,     *)
(* among them the two that measure under run_with_timeout.  A watcher ends *)
(* the shell it waits for, not the program that shell started; run_all     *)
(* itself may be killed while a stage script goes on; runs share one file  *)
(* of stage statuses.  With CLOUD_THROUGHPUT=1 the bench stage is a loop   *)
(* of llama-bench calls under a time budget.                               *)
(***************************************************************************)
EXTENDS Naturals, Sequences, FiniteSets

CONSTANTS
    Reps,   \* CLOUD_THROUGHPUT_REPS
    Cells,  \* the number of (phase, threads) cells
    MaxRuns \* bound: invocations of run_all.sh, one after the other

ASSUME PipelineAssumption ==
    Reps \in Nat \ {0} /\ Cells \in Nat \ {0} /\ MaxRuns \in Nat \ {0}

VARIABLES
    run,     \* which invocation this is
    cloud,   \* CLOUD_THROUGHPUT=1
    at,      \* the script it is at
    shell,   \* the shell run_with_timeout waits for, if the script is so far
    cl,      \* the loop of the cloud benchmark
    live,    \* measuring programs that run, by the run and script they are of
    stray,   \* scripts a killed run_all.sh left behind
    company, \* history: did a measurement of this run share the machine
    lines,   \* stage-status.tsv; no script writes the same line twice
    ledger,  \* the lines this run put into LEDGER.md
    overall, \* overall_status
    exit     \* "running", "0", "1" or "killed"

vars == <<run, cloud, at, shell, cl, live, stray, company, lines,
          ledger, overall, exit>>

Setup == {"build_llamacpp", "fetch_model", "build_kernels"}
Timed == {"verify_dispatch", "run_bench"}
Scripts == <<"build_llamacpp", "fetch_model", "build_kernels",
             "capture_hw_features", "correctness_tests", "verify_dispatch",
             "run_bench", "emit_ledger">>
ScriptNames == {Scripts[i] : i \in DOMAIN Scripts}

script == Scripts[at]
InCloud == cloud /\ script = "run_bench"
Program(r, s) == [run |-> r, script |-> s]
Mine == Program(run, script)
Line(r, s, name, status) == [run |-> r, script |-> s, name |-> name, status |-> status]

\* record_stage, by this run's script.  SKIP counts as OK throughout: neither
\* makes a script, nor the run, fail.
Record(news) == lines' = lines \cup {Line(run, script, e.name, e.status) : e \in news}
Entry(status) == [name |-> script, status |-> status]

FreshLoop == [phase |-> "precheck", round |-> 1, cell |-> 1,
              tried |-> [c \in 1..Cells |-> 0],
              samples |-> [c \in 1..Cells |-> 0], budget_hit |-> FALSE]

Company(left) == IF left = {} THEN "none" ELSE "leftOver"

Init ==
    /\ run = 1 /\ cloud \in BOOLEAN /\ at = 1
    /\ shell = "none" /\ cl = FreshLoop
    /\ live = {} /\ stray = {} /\ company = "none"
    /\ lines = {} /\ ledger = {}
    /\ overall = "0" /\ exit = "running"

-----------------------------------------------------------------------------
(* Scripts.                                                                *)

\* A script returned: the next one, or after a failed bootstrap the last; the
\* status of the run when emit_ledger.sh returned.
Finish(ok) ==
    /\ overall' = IF ok THEN overall ELSE "1"
    /\ shell' = "none" /\ cl' = FreshLoop
    /\ IF script = "emit_ledger" THEN exit' = overall' /\ UNCHANGED at
       ELSE /\ at' = IF ~ok /\ script \in Setup THEN Len(Scripts) ELSE at + 1
            /\ UNCHANGED exit

Good == [news |-> {Entry("OK")}, ok |-> TRUE]
Bad == [news |-> {Entry("FAIL")}, ok |-> FALSE]
Unrecorded == [news |-> {}, ok |-> FALSE] \* a missing tool, or set -e ends it

\* How a script may end without a timed command: hardware capture and the
\* ledger record no failure; the timed ones have their tool, the binary and the
\* model to look for, the cloud benchmark does so in its function.
Outcomes ==
    IF script \in {"capture_hw_features", "emit_ledger"} THEN {Good, Unrecorded}
    ELSE IF InCloud THEN {Unrecorded}
    ELSE {Good, Bad, Unrecorded}

RunScript ==
    /\ shell = "none" /\ exit = "running"
    /\ \E o \in Outcomes :
          /\ Record(o.news) /\ Finish(o.ok)
          /\ ledger' = IF script = "emit_ledger" /\ o.ok
                       THEN lines ELSE ledger
    /\ UNCHANGED <<run, cloud, live, stray, company>>

-----------------------------------------------------------------------------
(* run_with_timeout.                                                       *)

\* A measuring program starts.
Launch ==
    /\ live' = live \cup {Mine}
    /\ company' = IF live # {} /\ company = "none" THEN "own" ELSE company

Begin ==
    /\ shell = "none" /\ exit = "running" /\ script \in Timed
    /\ shell' = "running"
    /\ IF InCloud THEN UNCHANGED <<live, company>> ELSE Launch
    /\ UNCHANGED <<run, cloud, at, cl, stray, lines, ledger, overall, exit>>

\* The program ends, and with it the shell that runs it.
CommandEnds ==
    /\ shell = "running" /\ exit = "running" /\ ~InCloud
    /\ live' = live \ {Mine}
    /\ shell' \in {"zero", "nonzero"}
    /\ UNCHANGED <<run, cloud, at, cl, stray, company, lines,
                   ledger, overall, exit>>

\* A broken variant: only a stage without a loop is watched.
TimesOut_plain ==
    /\ shell = "running" /\ exit = "running" /\ ~InCloud
    /\ shell' = "killed"
    /\ UNCHANGED <<run, cloud, at, cl, live, stray, company, lines, ledger, overall, exit>>

\* The watcher's TERM ends the shell; the program under it goes on.
TimesOut ==
    /\ shell = "running" /\ exit = "running"
    /\ shell' = "killed"
    /\ UNCHANGED <<run, cloud, at, cl, live, stray, company, lines, ledger, overall, exit>>

\* A broken variant: only a status of its own makes a command fail.
Succeeded_unlessFailed == shell # "nonzero"

Succeeded == shell = "zero"

\* wait returns, and the script records what came of it; the cloud benchmark
\* has recorded its own success.
Reap ==
    /\ shell \in {"zero", "nonzero", "killed"} /\ exit = "running"
    /\ IF ~Succeeded THEN Record({Entry("FAIL")})
       ELSE IF InCloud THEN Record({}) ELSE Record({Entry("OK")})
    /\ Finish(Succeeded)
    /\ UNCHANGED <<run, cloud, live, stray, company, ledger>>

-----------------------------------------------------------------------------
(* run_cloud_throughput_bench, in the shell that is waited for.            *)

CloudRuns == InCloud /\ shell = "running" /\ exit = "running"

CloudEnds(status) ==
    /\ Record({[name |-> "cloud_throughput_bench", status |-> status]})
    /\ cl' = [cl EXCEPT !.phase = "done"]

Precheck ==
    /\ CloudRuns /\ cl.phase = "precheck"
    /\ \/ cl' = [cl EXCEPT !.phase = "check"] /\ UNCHANGED <<lines, shell>>
       \/ CloudEnds("FAIL") /\ shell' = "nonzero"
    /\ UNCHANGED <<run, cloud, at, live, stray, company, ledger,
                   overall, exit>>

\* Before each call: is the budget spent, are the rounds over?
CheckBudget ==
    /\ CloudRuns /\ cl.phase = "check"
    /\ \/ /\ cl.round > Reps
          /\ cl' = [cl EXCEPT !.phase = "aggregate"]
          /\ UNCHANGED <<live, company>>
       \/ /\ cl.round <= Reps
          /\ cl' = [cl EXCEPT !.phase = "aggregate", !.budget_hit = TRUE]
          /\ UNCHANGED <<live, company>>
       \/ /\ cl.round <= Reps
          /\ cl' = [cl EXCEPT !.phase = "call"]
          /\ Launch
    /\ UNCHANGED <<run, cloud, at, shell, stray, lines, ledger,
                   overall, exit>>

\* A broken variant: all the rounds of a cell before the next cell.
Following_blocked(c) ==
    IF c.round < Reps THEN [c EXCEPT !.round = @ + 1]
    ELSE IF c.cell < Cells THEN [c EXCEPT !.cell = @ + 1, !.round = 1]
    ELSE [c EXCEPT !.round = @ + 1, !.cell = 1]

\* A broken variant: one cell too many.
Following_over(c) ==
    IF c.cell <= Cells THEN [c EXCEPT !.cell = @ + 1]
    ELSE [c EXCEPT !.cell = 1, !.round = @ + 1]

\* The next cell of the round, or the next round.
Following(c) ==
    IF c.cell < Cells THEN [c EXCEPT !.cell = @ + 1]
    ELSE [c EXCEPT !.cell = 1, !.round = @ + 1]

\* The call ends by itself or by its own watcher, unless it takes no notice of
\* TERM; only status 0 and a usable result leave a sample.
CallEnds ==
    /\ CloudRuns /\ cl.phase = "call"
    /\ live' = live \ {Mine}
    /\ \E sample \in {0, 1} :
          cl' = [Following(cl) EXCEPT !.phase = "check",
                                      !.tried[cl.cell] = @ + 1,
                                      !.samples[cl.cell] = @ + sample]
    /\ UNCHANGED <<run, cloud, at, shell, stray, company, lines,
                   ledger, overall, exit>>

\* The summary is written, even when there is nothing in it, and then judged.
Aggregate ==
    /\ CloudRuns /\ cl.phase = "aggregate"
    /\ \/ CloudEnds("FAIL") /\ shell' = "nonzero"
       \/ /\ \E c \in 1..Cells : cl.samples[c] > 0
          /\ CloudEnds("OK") /\ UNCHANGED shell
    /\ UNCHANGED <<run, cloud, at, live, stray, company, ledger,
                   overall, exit>>

CloudReturns ==
    /\ CloudRuns /\ cl.phase = "done"
    /\ shell' = "zero"
    /\ UNCHANGED <<run, cloud, at, cl, live, stray, company, lines, ledger, overall, exit>>

-----------------------------------------------------------------------------
(* What the shell cannot see.                                              *)

\* A script is killed; a program it started goes on, and so does the loop of
\* the cloud benchmark, which records its line by itself.
ScriptDies ==
    /\ shell # "none" /\ exit = "running"
    /\ Finish(FALSE)
    /\ stray' = IF InCloud /\ shell = "running" THEN stray \cup {Mine} ELSE stray
    /\ UNCHANGED <<run, cloud, live, company, lines, ledger>>

\* A program whose shell is gone ends.
OldProgramEnds ==
    /\ \E p \in live : /\ p # Mine \/ shell # "running" \/ exit # "running"
                       /\ live' = live \ {p}
    /\ UNCHANGED <<run, cloud, at, shell, cl, stray, company, lines, ledger, overall, exit>>

\* run_all.sh is killed; the script it waited for goes on.
Killed ==
    /\ exit = "running"
    /\ exit' = "killed"
    /\ stray' = stray \cup {Mine}
    /\ shell' = "none" /\ cl' = FreshLoop
    /\ UNCHANGED <<run, cloud, at, live, company, lines, ledger, overall>>

\* Such a script ends, and records its line in whatever run's file is there.
StrayEnds ==
    /\ \E p \in stray :
          /\ stray' = stray \ {p}
          /\ \/ lines' = lines \cup {Line(p.run, p.script, p.script, "OK")}
             \/ UNCHANGED lines
    /\ UNCHANGED <<run, cloud, at, shell, cl, live, company,
                   ledger, overall, exit>>

\* A broken variant: the file is not emptied.
Truncate_not == lines

\* : >"$STAGE_STATUS_FILE"
Truncate == {}

RunAgain ==
    /\ exit # "running" /\ run < MaxRuns
    /\ run' = run + 1 /\ at' = 1 /\ shell' = "none"
    /\ cl' = FreshLoop
    /\ company' = Company(live \cup stray)
    /\ lines' = Truncate /\ ledger' = {}
    /\ overall' = "0" /\ exit' = "running"
    /\ UNCHANGED <<cloud, live, stray>>

-----------------------------------------------------------------------------
Shell == RunScript \/ Begin \/ Reap \/ Precheck \/ CheckBudget \/ Aggregate
         \/ CloudReturns

Next == Shell \/ TimesOut \/ CommandEnds \/ CallEnds \/ ScriptDies
        \/ OldProgramEnds \/ Killed \/ StrayEnds \/ RunAgain

\* The scripts are sequential shells, and the commands they run without a time
\* limit are taken to end; a watcher's sleep is over some day.  A measuring
\* program need not end.
Spec == Init /\ [][Next]_vars /\ WF_vars(Shell) /\ WF_vars(TimesOut)

-----------------------------------------------------------------------------
(* Properties.                                                             *)

\* Types and ranges.
TypeOK ==
    /\ run \in 1..MaxRuns /\ cloud \in BOOLEAN /\ at \in DOMAIN Scripts
    /\ shell \in {"none", "running", "zero", "nonzero", "killed"}
    /\ cl.cell \in 1..Cells /\ cl.round \in 1..(Reps + 1)
    /\ live \cup stray \subseteq [run : 1..MaxRuns, script : ScriptNames]
    /\ company \in {"none", "leftOver", "own"}
    /\ overall \in {"0", "1"}
    /\ exit \in {"running", "0", "1", "killed"}

\* Status 0 means that every script left one line, and no FAIL, and that, if
\* the run found the machine quiet, none of its measurements ran beside a
\* program the pipeline had given up waiting for.
GreenMeansClean ==
    exit = "0" =>
        /\ \A s \in ScriptNames :
              LET own == {l \in lines : l.run = run /\ l.script = s}
              IN  Cardinality(own) = 1 /\ \A l \in own : l.status # "FAIL"
        /\ company # "own"

\* The cloud benchmark drops calls but hides none: the cells were called in
\* turn, and its OK means that something was measured and, unless it says the
\* budget was hit, that each cell had all its calls.
CloudIsHonest ==
    /\ \A c, d \in 1..Cells : c < d => cl.tried[c] - cl.tried[d] \in {0, 1}
    /\ cl.phase = "done" /\ shell \in {"running", "zero"} =>
          /\ \E c \in 1..Cells : cl.samples[c] > 0
          /\ cl.budget_hit \/ \A c \in 1..Cells : cl.tried[c] = Reps

\* LEDGER.md lists this run's lines and no other's, unless an earlier run
\* left a script behind.
LedgerIsThisRuns ==
    exit = "0" /\ company # "leftOver" =>
        /\ \A l \in ledger : l.run = run
        /\ \A s \in ScriptNames \ {"emit_ledger"} :
              \E l \in ledger : l.script = s

\* A run ends even if what it measures never does, and even if a llama-bench
\* call takes no notice of its own watcher.
PipelineEnds == (exit = "running") ~> (exit # "running")
=============================================================================
