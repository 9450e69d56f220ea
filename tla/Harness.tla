------------------------------ MODULE Harness ------------------------------
(***************************************************************************)
(* The three commands that measure: crossover.py, crossover.py             *)
(* --autodefault-compare and bench.py.  Each is a chain of stages; a       *)
(* measuring stage goes round its cells once per round, runs one process   *)
(* per cell, retries the ones that timed out, and at the end the command   *)
(* writes its JSON and then, two of them, a report in Markdown.            *)
(***************************************************************************)
EXTENDS Measurement, Functions

CONSTANTS
    ThreadsList,  \* --threads, in order
    SmeList,      \* --sme-modes, in order
    BenchPhases,  \* --phases of bench.py, in order
    BenchSmeList, \* --sme-modes of bench.py, in order
    Reps,         \* --reps
    Retries,      \* --retries
    RatesOf(_),   \* the speeds a call of this phase may report
    MaxFaults     \* bound: calls that do not simply report a speed

ASSUME CountAssumption ==
    Reps \in Nat \ {0} /\ Retries \in Nat /\ MaxFaults \in Nat

\* A thread count named twice would be measured as one cell and listed as two.
ASSUME ListAssumption ==
    /\ ThreadsList \in Seq(Int) /\ ThreadsList # <<>> /\ IsInjective(ThreadsList)
    /\ SmeList \in Seq({"on", "off"}) /\ SmeList # <<>> /\ IsInjective(SmeList)
    /\ BenchPhases \in Seq(STRING) /\ BenchPhases # <<>> /\ IsInjective(BenchPhases)
    /\ BenchSmeList \in Seq({"on", "off"}) /\ BenchSmeList # <<>>
    /\ IsInjective(BenchSmeList)

VARIABLES
    args,     \* the command line: mode, skip, ledger, external
    stage,    \* where the command is
    round, pos, attempt, \* in a measuring stage: the call it is at
    hung,     \* the process it waits for will not end by itself
    samples,  \* stage -> cell -> the samples kept
    errors,   \* stage -> cell -> the rounds with an entry in an error list
    tried,    \* history: stage -> cell -> the calls that ended, after retries
    last,     \* history: of the latest call, which attempts timed out
    optima,   \* phase -> the best cell of the sweep, or 0
    rows,     \* bench.py: the dispatch of each configuration so far
    files,    \* the JSON and the Markdown file: "old", "torn" or "new"
    exit,     \* "running", or how the process ended
    faults    \* how much of the bound is used

vars == <<args, stage, round, pos, attempt, hung, samples, errors, tried, last,
          optima, rows, files, exit, faults>>

place == <<stage, round, pos, attempt, hung>>
results == <<samples, errors, tried, last>>

mode == args.mode

-----------------------------------------------------------------------------
(* The stages and their cells.                                             *)

Phases == <<"decode", "prefill">>
SME_MODES == <<"on", "off">>
Measuring == {"sweep", "default", "warmup", "split", "compare"}

\* for phase: for threads: for sme_mode, as one list.
SweepCells ==
    LET t == Len(ThreadsList)
        s == Len(SmeList)
    IN  [i \in 1..(Len(Phases) * t * s) |->
            [phase |-> Phases[((i - 1) \div (t * s)) + 1],
             threads |-> ThreadsList[(((i - 1) \div s) % t) + 1],
             sme |-> SmeList[((i - 1) % s) + 1]]]

\* build_config_grid, with one thread count: for phase: for quant: for sme_mode.
Grid(quants) ==
    LET q == Len(quants)
        s == Len(BenchSmeList)
    IN  [i \in 1..(Len(BenchPhases) * q * s) |->
            [phase |-> BenchPhases[((i - 1) \div (q * s)) + 1],
             quant |-> quants[(((i - 1) \div s) % q) + 1],
             sme |-> BenchSmeList[((i - 1) % s) + 1]]]

\* The Q8_0 model is absent: its configurations are listed, and passed over.
BenchConfigs == Grid(<<"Q4_0", "Q8_0">>)
Available == Grid(<<"Q4_0">>)

\* The phase of each cell of a stage; llama-cli reports both at once.
PhasesIn(s) ==
    LET cells == IF mode = "bench" THEN Available ELSE SweepCells
        modes == IF mode = "compare" THEN 1..4 ELSE DOMAIN SME_MODES
    IN  CASE s = "sweep" -> [i \in DOMAIN cells |-> cells[i].phase]
          [] s = "default" -> Phases
          [] OTHER -> [i \in modes |-> "both"]

Cells(s) == DOMAIN PhasesIn(s)
Rounds(s) == IF s = "warmup" THEN 1 ELSE Reps
RetriesIn == IF mode = "bench" THEN 0 ELSE Retries

FirstStage == IF mode = "compare" THEN "warmup" ELSE "sweep"

\* What follows a measuring stage, given the optima known after it.
After(s, best) ==
    CASE s = "sweep" -> IF mode = "bench" THEN "ledger" ELSE "default"
      [] s = "default" ->
            IF ~args.skip /\ (\A p \in DOMAIN best : best[p] # 0) THEN "warmup"
            ELSE "json"
      [] s = "warmup" -> IF mode = "compare" THEN "compare" ELSE "split"
      [] OTHER -> "json"

-----------------------------------------------------------------------------
\* The command lines told apart; --skip-dispatch-verify leaves no other choice.
Args ==
    [mode : {"crossover"}, skip : BOOLEAN, ledger : {"none"}, external : {"none"}]
    \cup [mode : {"compare"}, skip : {FALSE}, ledger : {"none"}, external : {"none"}]
    \cup [mode : {"bench"}, skip : {TRUE}, ledger : {"none", "malformed"},
          external : {"none"}]
    \cup [mode : {"bench"}, skip : {FALSE},
          ledger : {"none", "covers", "malformed"},
          external : {"none", "missing", "fails", "answers"}]

Empty(v) == [s \in Measuring |-> [i \in Cells(s) |-> v]]

Init ==
    /\ args \in Args
    /\ stage = "start" /\ round = 1 /\ pos = 1 /\ attempt = 0
    /\ hung = FALSE
    /\ samples = Empty(<<>>) /\ errors = Empty({}) /\ tried = Empty(0)
    /\ last = <<>>
    /\ optima = [p \in {"decode", "prefill"} |-> 0]
    /\ rows = <<>>
    /\ files = [json |-> "old", md |-> "old"]
    /\ exit = "running" /\ faults = 0

\* The binaries and the model are looked for first.
Start ==
    /\ stage = "start" /\ exit = "running"
    /\ \/ /\ exit' = "usage"
          /\ UNCHANGED stage
       \/ /\ stage' = FirstStage
          /\ UNCHANGED exit
    /\ UNCHANGED <<args, round, pos, attempt, hung, results, optima, rows, files,
                   faults>>

-----------------------------------------------------------------------------
(* The measuring stages.                                                   *)

Result(s, o) == IF s \in {"sweep", "default"} THEN run_llama_bench_once(o)
                ELSE run_llama_cli_config_once(o)

\* Calls that report a speed and end well are free, others are faults; a
\* call's further attempts, and a cell that failed a round ago, are free again.
Clean(o) == o.rc = "zero" /\ o.text = "speed"
Possible == {o \in Outcome : o.rate \in RatesOf(PhasesIn(stage)[pos])}
Again == attempt > 0 \/ round - 1 \in errors[stage][pos]
Spend(cost) == faults + cost <= MaxFaults /\ faults' = faults + cost

\* A broken variant: a process is run without a time limit.
CanEnd_untimed(end) == ~hung

\* run() waits for a process no longer than its time limit: one that hangs
\* comes back as timed out.
CanEnd(end) == hung => end = "timeout"

\* Best cell per phase, once the sweep is over: a phase's cells are a block.
PerPhase == Len(ThreadsList) * Len(SmeList)
OptimaOf(samplesOf) ==
    [p \in {"decode", "prefill"} |->
        IF p = Phases[1] THEN Optimum(1, PerPhase, samplesOf)
        ELSE Optimum(PerPhase + 1, 2 * PerPhase, samplesOf)]

\* A broken variant: all the rounds of a cell, then the next cell.
MoveOn_blocked ==
    /\ attempt' = 0
    /\ IF round < Rounds(stage)
       THEN round' = round + 1 /\ UNCHANGED <<stage, pos, optima>>
       ELSE IF pos + 1 \in Cells(stage)
       THEN round' = 1 /\ pos' = pos + 1 /\ UNCHANGED <<stage, optima>>
       ELSE /\ round' = 1 /\ pos' = 1
            /\ optima' = IF stage = "sweep" /\ mode = "crossover"
                         THEN OptimaOf(samples'["sweep"]) ELSE optima
            /\ stage' = After(stage, optima')

\* The next cell, the next round, the next stage.
MoveOn ==
    /\ attempt' = 0
    /\ IF pos + 1 \in Cells(stage)
       THEN pos' = pos + 1 /\ UNCHANGED <<stage, round, optima>>
       ELSE IF round < Rounds(stage)
       THEN pos' = 1 /\ round' = round + 1 /\ UNCHANGED <<stage, optima>>
       ELSE /\ round' = 1 /\ pos' = 1
            /\ optima' = IF stage = "sweep" /\ mode = "crossover"
                         THEN OptimaOf(samples'["sweep"]) ELSE optima
            /\ stage' = After(stage, optima')

\* A broken variant: an empty result of the sweep is no error.
Failed_quiet(r) == mode # "bench" /\ ~r.ok

\* Is an entry added to an error list?  bench.py has none; a default
\* configuration whose call reports no sample gets none either.
Failed(r) == /\ mode # "bench"
             /\ ~r.ok \/ (stage = "sweep" /\ r.samples = <<>>)

\* Did this attempt fail because its time was up?
TimedOut(o, r) == ~r.ok /\ o.rc = "timeout"

Call ==
    /\ stage \in Measuring /\ exit = "running"
    /\ \E o \in Possible :
          LET r == Result(stage, o) IN
          /\ CanEnd(o.rc)
          /\ Spend(IF Clean(o) \/ Again \/ hung THEN 0 ELSE 1)
          /\ last' = Append(IF attempt = 0 THEN <<>> ELSE last, TimedOut(o, r))
          /\ IF TriesAgain(r, attempt, RetriesIn)
             THEN /\ attempt' = attempt + 1
                  /\ UNCHANGED <<stage, round, pos, samples, errors, tried, optima>>
             ELSE /\ tried' = [tried EXCEPT ![stage][pos] = @ + 1]
                  /\ IF stage = "warmup" THEN UNCHANGED <<samples, errors>>
                     ELSE /\ samples' = [samples EXCEPT ![stage][pos] = @ \o r.samples]
                          /\ errors' = [errors EXCEPT ![stage][pos] =
                                           IF Failed(r) THEN @ \cup {round} ELSE @]
                  /\ MoveOn
    /\ hung' = FALSE
    /\ UNCHANGED <<args, rows, files, exit>>

-----------------------------------------------------------------------------
(* bench.py: the dispatch of each configuration.                           *)

LoadLedger ==
    /\ stage = "ledger" /\ exit = "running"
    /\ IF args.ledger = "malformed"
       THEN exit' = "died" /\ UNCHANGED stage
       ELSE stage' = "verify" /\ UNCHANGED exit
    /\ UNCHANGED <<args, round, pos, attempt, hung, results, optima, rows, files,
                   faults>>

\* The families the kernels of the configuration belong to, and what a
\* debugger lists of them: the fast tier stops at the first hit.
Fast(truth) == {t \in Transcript :
    /\ t.hits \subseteq truth
    /\ t.end = "listed" /\ truth # {} => t.hits # {}}
Thorough(truth) == {t \in Transcript :
    /\ t.hits \subseteq truth
    /\ t.end = "listed" => t.hits = truth}

\* Where the row's record comes from, and what was true when it did.
Row(from, dispatch, truth) == [from |-> from, dispatch |-> dispatch, truth |-> truth]

Builtin(c) ==
    \E truth \in SUBSET Families, lldb \in BOOLEAN :
    \E fast \in Fast(truth), thorough \in Thorough(truth) :
        /\ hung => lldb
        /\ CanEnd(fast.end) \/ (c.phase # "decode" /\ CanEnd(thorough.end))
        /\ rows' = Append(rows, Row("debugger",
              verify_dispatch_builtin(lldb, fast, thorough, c.phase # "decode"),
              truth))

\* A record somebody else wrote.
Recorded ==
    \E fires \in SUBSET Families :
        rows' = Append(rows, Row("record",
            [verified |-> TRUE, fires |-> fires, counted |-> FALSE], {}))

\* An external verifier that fails, or none, leaves it to the built-in one.
FallsBack == {"none", "fails"}

InLedger(c) == args.ledger = "covers" /\ c.phase = "decode"
Debugged(c) == /\ c.quant # "Q8_0" /\ ~args.skip
               /\ ~InLedger(c) /\ args.external \in FallsBack

VerifyRow ==
    /\ stage = "verify" /\ exit = "running"
    /\ LET c == BenchConfigs[pos] IN
       \/ /\ c.quant = "Q8_0"
          /\ rows' = Append(rows, Row("notAvailable", Unverified, {}))
       \/ /\ c.quant # "Q8_0" /\ args.skip
          /\ rows' = Append(rows, Row("skipped", Unverified, {}))
       \/ /\ c.quant # "Q8_0" /\ ~args.skip
          /\ InLedger(c) \/ args.external = "answers"
          /\ Recorded
       \/ Debugged(c) /\ Builtin(c)
    /\ IF pos + 1 \in DOMAIN BenchConfigs THEN pos' = pos + 1 /\ UNCHANGED stage
       ELSE pos' = 1 /\ stage' = "json"
    /\ hung' = FALSE
    /\ UNCHANGED <<args, round, attempt, results, optima, files, exit, faults>>

\* The external verifier's command is not there: the error is not caught.
VerifierMissing ==
    /\ stage = "verify" /\ exit = "running"
    /\ LET c == BenchConfigs[pos] IN
          c.quant # "Q8_0" /\ ~args.skip /\ ~InLedger(c)
    /\ args.external = "missing"
    /\ exit' = "died"
    /\ UNCHANGED <<args, place, results, optima, rows, files, faults>>

-----------------------------------------------------------------------------
(* The end of the run.                                                     *)

\* A broken variant: the evidence is written last.
WriteJson_second ==
    /\ stage = "json" /\ exit = "running"
    /\ files.json = "old"
    /\ IF mode = "compare" THEN files' = [files EXCEPT !.json = "new"] /\ exit' = "ok" /\ UNCHANGED stage
       ELSE files' = files /\ stage' = "md" /\ UNCHANGED exit
    /\ UNCHANGED <<args, round, pos, attempt, hung, results, optima, rows, faults>>

\* write_text empties the file first; the process may end in between.
WriteJson ==
    /\ stage = "json" /\ exit = "running"
    /\ \/ /\ files.json = "old"
          /\ files' = [files EXCEPT !.json = "torn"]
          /\ UNCHANGED <<stage, exit>>
       \/ /\ files.json = "torn"
          /\ files' = [files EXCEPT !.json = "new"]
          /\ IF mode = "compare" THEN exit' = "ok" /\ UNCHANGED stage
             ELSE stage' = "md" /\ UNCHANGED exit
    /\ UNCHANGED <<args, round, pos, attempt, hung, results, optima, rows, faults>>

WriteMd ==
    /\ stage = "md" /\ exit = "running"
    /\ \/ /\ files.md = "old"
          /\ files' = [files EXCEPT !.md = "torn"]
          /\ UNCHANGED exit
       \/ /\ files.md = "torn"
          /\ files' = [files EXCEPT !.md = "new"]
          /\ exit' = "ok"
    /\ UNCHANGED <<args, place, results, optima, rows, faults>>

\* The process is killed, or an error that is not caught ends it: run() lets
\* all but a time-out through, so a program that cannot be executed, or output
\* that is not UTF-8, loses the run, even in crossover.py's last call, which
\* only asks for the build's commit.
Die ==
    /\ exit = "running" /\ Spend(1)
    /\ exit' = "died"
    /\ UNCHANGED <<args, place, results, optima, rows, files>>

\* The process the command waits for, a measured program or a debugger run of
\* bench.py, hangs.
Hang ==
    /\ exit = "running" /\ ~hung
    /\ \/ stage \in Measuring
       \/ stage = "verify" /\ Debugged(BenchConfigs[pos])
    /\ hung' = TRUE
    /\ Spend(IF stage \in Measuring /\ Again THEN 0 ELSE 1)
    /\ UNCHANGED <<args, stage, round, pos, attempt, results, optima, rows, files,
                   exit>>

Work == Start \/ Call \/ LoadLedger \/ VerifyRow \/ VerifierMissing
        \/ WriteJson \/ WriteMd

Next == Work \/ Hang \/ Die

\* The command goes on when it can.  Measured programs and debuggers run under
\* a time limit; what runs without one (cpu_brand's sysctl) is taken to end.
Spec == Init /\ [][Next]_vars /\ WF_vars(Work)

-----------------------------------------------------------------------------
(* Properties.                                                             *)

\* Types and ranges.
TypeOK ==
    /\ args \in Args
    /\ stage \in Measuring \cup {"start", "ledger", "verify", "json", "md"}
    /\ round \in 1..Reps /\ attempt \in 0..Retries /\ pos \in Nat \ {0}
    /\ stage \in Measuring => pos \in Cells(stage)
    /\ \A s \in Measuring : \A i \in Cells(s) :
          /\ \A k \in DOMAIN samples[s][i] : samples[s][i][k].rate \in Rates
          /\ errors[s][i] \subseteq 1..Reps
    /\ \A p \in DOMAIN optima : optima[p] \in {0} \cup DOMAIN SweepCells
    /\ hung \in BOOLEAN
    /\ files \in [json : {"old", "torn", "new"}, md : {"old", "torn", "new"}]
    /\ exit \in {"running", "usage", "died", "ok"}
    /\ faults \in 0..MaxFaults

\* Round-robin: at no moment has one cell of a stage been measured more than
\* once more than another, so drift over the run falls on all alike.
Interleaved ==
    \A s \in Measuring : \A i, j \in Cells(s) :
        i < j => tried[s][i] - tried[s][j] \in {0, 1}

\* crossover.py drops no failed call and invents none: in the sweep, the split
\* configuration and the comparison each call left a sample or an error entry
\* of its round, and a JSON file has as many as were asked for.
Accounted ==
    mode # "bench" => \A s \in {"sweep", "split", "compare"} : \A i \in Cells(s) :
        /\ Len(samples[s][i]) + Cardinality(errors[s][i]) = tried[s][i]
        /\ files.json # "old" => tried[s][i] \in {0, Reps}

\* "a cell is reported only from calls that actually completed": true of every
\* stage that uses llama-bench.
OnlyWholeRuns ==
    \A s \in {"sweep", "default"} : \A i \in Cells(s) :
        \A k \in DOMAIN samples[s][i] : samples[s][i][k].rc = "zero"

\* The optimum of a phase is a measured cell of that phase with no better one,
\* the first such; there is none only if no cell of the phase was measured.
OptimumIsBest ==
    (mode = "crossover" /\ stage \notin {"start", "sweep"}) =>
        \A p \in {"decode", "prefill"} :
            LET cells == {i \in Cells("sweep") : SweepCells[i].phase = p}
                med(i) == Median2(samples["sweep"][i])
                o == optima[p]
            IN  IF o = 0 THEN \A i \in cells : samples["sweep"][i] = <<>>
                ELSE /\ o \in cells /\ samples["sweep"][o] # <<>>
                     /\ \A i \in cells : med(i) <= med(o) /\ (i < o => med(i) < med(o))

\* A call is repeated after a time-out only, at most Retries times, and it is
\* given up as timed out only when those are spent.
GivesUpLate ==
    /\ Len(last) <= RetriesIn + 1
    /\ \A k \in 1..(Len(last) - 1) : last[k]
    /\ attempt = 0 /\ last # <<>> /\ last[Len(last)] => Len(last) = RetriesIn + 1

\* What a label claims bench.py's debugger saw did run, and a label with counts
\* names every family that ran, unless it names none.
LabelIsWitnessed ==
    \A k \in DOMAIN rows : rows[k].from = "debugger" =>
        LET claimed == Claimed(dispatch_label(rows[k].dispatch)) IN
        /\ claimed \subseteq rows[k].truth
        /\ rows[k].dispatch.counted => claimed \in {{}, rows[k].truth}

\* A report is never newer than the evidence it was rendered from, wherever
\* the run ends, and status 0 means both are whole.
ReportFollowsEvidence ==
    /\ files.md # "old" => files.json = "new"
    /\ exit = "ok" => files.json = "new" /\ (mode # "compare" => files.md = "new")

\* A run ends, with a status, although the programs it measures and the
\* debugger it asks may hang at any of their runs.
RunEnds == <>(exit # "running")
=============================================================================
