# A TLA+ model of arm-dispatch-ledger

arm-dispatch-ledger (the `polygraph` tool) asks one question of a program that claims to run
accelerated kernels: *did the kernels it advertises really execute?* It answers with an exit
status (0 match, 1 mismatch, 2 undetermined), which CI gates read, and with ledgers of
measurements, which people cite. The model is about whether these answers can be trusted when a
debugger misbehaves, a probe is cut short, two sweeps overlap, or a wrapper reads a report that
was never finished; and about the tools around it: the MCP server that answers the same question
over a pipe, the commands that measure, the pipeline that runs them all, and the gate on the
numbers the repository prints.

Everything is written in TLA+, checked with TLC on small instances and, where it matters most,
proved with TLAPS for every value of the constants.

## 1. The system

| component | source | state | operations | talks to | modelled by |
|---|---|---|---|---|---|
| verdict functions | `tools/verify_dispatch.py` 150-247, 879-914, 1141-1223 | none | classify a symbol, verdict, exit code, headline | called by check and sweep | `Evidence` |
| debugger probe (L3) | `tools/verify_dispatch.py` 256-326, 638-860, `dispatch_probe.gdb`, `dispatch_probe.lldb` | the session, its breakpoints and counters, the probed program, the result | enumerate symbols, set breakpoints, run, count, print, parse, time out | gdb/lldb process, the probed program, nm | `DispatchProbe` |
| `polygraph check` | `tools/polygraph`, `tools/verify_dispatch.py` 1101-1457 | the result dictionary, the exit status | preflight, L1, L2, L3, verdict, report, exception and Ctrl-C handling | probe; its caller reads status and JSON | `TargetCheck`, `ClaimOracle` |
| sweep and ledger | `tools/verify_dispatch.py` 1464-1734 | rows, the model digest and size, the ledger file | loop over points, hash, guard on existing evidence, write, `--assert` | other sweeps, `fetch_model.sh`, `run_all.sh` (shared files) | `SweepLedger` |
| GitHub action | `.github/actions/polygraph-check/action.yml` | step outputs and outcome | validate, install gdb, locate, run, summarise, enforce | starts `polygraph check`, read by workflows | `CheckAction` |
| L1 scan, platform detection | `tools/verify_dispatch.py` 295-560 | none | nm/otool scans, CPU name | report only | the union of nm's tables, in `DispatchProbe` |
| `polygraph list`/`explain` | `tools/polygraph` | none | print target files | - | not modelled |
| reproduction pipeline | `scripts/run_all.sh`, `scripts/common.sh`, `scripts/lib/*.sh` | stage-status.tsv, LEDGER.md, watcher processes, the overall status | run the scripts in order, time limits, record a stage, the cloud benchmark's budgeted loop | sweep, benchmarks, other runs (shared files, shared machine) | `Pipeline`; the model's replacement in `SweepLedger` |
| crossover, bench | `tools/crossover.py`, `tools/bench.py` | samples and error entries per cell, optima, rows, the JSON and Markdown files | round-robin sweep, retry, choice of optima, split-phase and four-way comparison, dispatch of each configuration, write | llama-bench, llama-cli, lldb, an external verifier | `Measurement`, `Harness` |
| MCP server | `mcp/server.py` | read-ahead buffer, the message it is at | initialise, list and call four tools | client (pipe), the probed binary and lldb (which inherit its standard input) | `McpMessages`, `McpServer`, `Conversation` |
| claims gate | `tools/check_claims.py` | none between runs | retraction guard, registry, live claims, manifest | the documents, results/, docs/CLAIMS.md | `ClaimsGate` |
| kernel dispatch | `kernels/dispatch.c` | the chosen kernel | feature detection, choice | kernels | not modelled |
| kernel numerics | `kernels/*_gemm.c`, ... | none | floating point | - | not modelled |
| site, plots, demo | `site/`, `tools/plot_results.py`, ... | none | presentation | - | not modelled |

### What is hard in it, and what makes each part correct

*Probe.* Four actors run concurrently: the Python driver, the debugger with its script, the
probed program, and the driver's timeout. The program maps its kernels with `dlopen` after the
breakpoints are set; gdb may create only some of the breakpoints; the run may be refused, the
program may crash or hang; the script may be aborted before it prints. Correct means: the counts
handed back are calls the program really made, and *no evidence* is never read as *evidence of
zero calls*. The second half does not hold for a refused run, for an lldb that fails before it has
set its breakpoint, and for a kernel only a failed nm run lists (section 5).

*Check.* Verdict, headline and exit code are computed by three functions over the same fields,
and overwritten for ad-hoc claims; there are nine early returns; any exception would reach the
shell as status 1, which means mismatch. Correct means: 0 only with a call of a claimed kernel,
1 only with complete evidence, 2 for the rest, always one answer, and the three renderings agree.
They do not always: the three functions read one advertised text, and only one strips it.

*Sweep.* Minutes pass between the start of a sweep and the write; the model path is opened again
for every run, for the digest and for the size; the guard that protects committed evidence and
the `open(..., "w")` are two steps; a kill may come inside `json.dump`. Correct means: a ledger
that is whole has every point once and in order, evidence is not clobbered, `--assert` says what
it says.

*Action.* GitHub starts the script with `bash -e`; a failed or cancelled step skips some of the
rest; two steps always run. Correct means: green rests on a check that ran and passed, outputs
belong to the check that ran, the action ends.

*MCP server.* One thread reads, answers and probes, through a read-ahead buffer of Python's own;
the programs it probes inherit its standard input and may take lines from it; the client may stop
reading or go. Correct means: at most one answer to each request, with its id and in order, none
to a notification, and none missing unless a child took the line or the server fell over it; and
that a verdict about a program is true of it.

*Measuring commands.* Hundreds of processes are run in turn, and any of them may fail, time out, or
print nothing. Correct means: cells stay interleaved, each call is a sample or an error entry,
what is called an optimum was measured and is one, a dispatch label names only what ran, and a
report is never newer than its evidence.

*Pipeline.* A time limit ends a shell, not the program under it; a killed run leaves scripts
behind; runs share a status file. Correct means: status 0 stands for eight clean stages measured on
a machine the run itself kept quiet, and the ledger is about this run.

*Claims gate.* The exit status is a function of a hundred files. Correct means: nothing out of a
figure's own section can excuse it, and every claim has something behind it.

`PROJECT.json` lists every hazard at its line with the properties that cover it.

## 2. Modules

```
Evidence            verdict functions, no state
  DispatchProbe     one debugger session          DispatchProbe_proof (and the functions)
    TargetCheck     one polygraph check           TargetCheck_proof
      |             ... implements ClaimOracle    (there too)
      CheckAction   the action around a check     CheckAction_proof
  SweepLedger       concurrent sweeps             SweepLedger_proof
McpMessages         lines and answers, no state
  Conversation      what the client is promised
  McpServer         the loop and its probes;      McpServer_proof
                    implements Conversation
Measurement         one measured process, medians, labels, no state
  Harness           the three measuring commands  Harness_proof
Pipeline            run_all.sh, its scripts,      Pipeline_proof
                    the cloud benchmark
ClaimsGate          the gate, no state            ClaimsGate_proof
MCTargetCheck, MCSweepLedger, MCCheckAction,
MCMcpServer, MCHarness, MCPipeline                instances for TLC
```

**Evidence.** A symbol name is abstracted to the set of family tokens that occur in it
(`TokensIn`), because `classify_symbol_family` looks at nothing else; the advertised text to a
word and whether white space surrounds it. The word is a family or one of three the code tells
apart (`EmptyWord`: nothing, or white space only; `BlankWord`: "none"/"unknown"; `StrangeWord`: a
word no symbol's family equals). `compute_verdict`, `cli_exit_code`, `render_headline` and the
L2-only pair are translated test by test; `cli_exit_code` strips the text, the other two do not, so
" sme2" is a claim of `sme2` to one and of an unknown family to the others. `Misread` says which
texts and results this makes the headline and the exit code differ on.

**DispatchProbe.** `session` is the driver's place in `run_l3_gdb_argv` / `run_l3_lldb_argv`;
`created`, `armed`, `hits`, `printed` are the debugger's side; `inferior`, `loaded`, `calls` the
program's. `calls` is the truth no line of the code can read: the properties compare it with what
is reported. `nm_symbol_lines(ok)` is the union over the nm modes that answered, so a failing
`nm -D` silently shrinks the set of breakpoints. `Instrument` makes any subset of the requested
breakpoints with gdb (each may fail with DP_BPFAIL), and with lldb, which is given a regex and asks
nobody else, any set of kernels, the empty one included. `Launch` may be refused (`"denied"`).
`DebuggerDies` may strike from the debugger's start-up to the end of the program's run
(`DebuggerUp`), with its output whole, lost, or cut inside the result block (`printed = "part"`).
`Readings` are the counts that can be read then. `ParseGdb` treats a missing count, or a count of
zero, as an error and a missing result block as zero hits, as lines 812-839 do; `ParseLldb` tests
nothing.

**TargetCheck.** `stage` runs through preflight, L1, L2, L3, "returned" and "ended". One action
per early return; `Judge` is everything after the probe, the ad-hoc override included. `cfg` is a
target file merged with the command line, reduced to the fields that decide control. `Exit` is
the printing of the report and the return of `exit_code`, `Raise` is main's `except Exception`,
`Interrupt` its `except KeyboardInterrupt`. After an interrupt the program the debugger started
may keep running: `ProbeStep` keeps it in the model.

**ClaimOracle** is the exit-code contract in 60 lines: a claim becomes known at most once,
conclusive evidence arrives at most once, one answer is given; 0 needs a claim and evidence for
it, 1 a claim and conclusive evidence without any for it, 2 is always allowed. `TargetCheck`
implements it under the mapping `ClaimSeen`, `EvidenceSeen`, `ConclusiveSeen`, `status`.

**SweepLedger.** Any number of sweeps, each with its command line, share the ledger paths and the
model file. The file's version stands for its bytes: `measured` collects the versions the runs of
a sweep loaded, `digest` and `size` the versions hashed and measured afterwards. A ledger file is
absent, cut short, whole, or a mixture of two sweeps' texts. `Raise` and `Kill` may strike at any
point; `ReplaceModel` is `fetch_one`'s `mv`.

**CheckAction** composes the steps of the composite action with the actions of `TargetCheck`:
while `step = "checking"` the check's own actions run, before and after it they do not. `json` is
how much of the report reached the file. `Cancel` is the runner's cancellation: the check gets an
interrupt, the steps without `always()` are skipped, and the script may or may not get to its
outputs in the grace period.

**McpMessages, McpServer, Conversation.** A line is a record of what `serve_stdio` and `_dispatch`
tell apart. `sent` is everything the client wrote; `pulled`, `ahead` and `handled` are places in
it: what has left the pipe, the end of what Python's buffer holds, the line being answered.
`ChildReads` moves `pulled` without the server seeing the line: `subprocess.run` is called without
`stdin=`. `answer` and `dispatch` give the answer as a function of the line and of how its tool
fared; `QuickOutcomes` says how the three quick tools can fare, and `verify_dispatch` is the states
"plain" and "lldb" with the steps of the two processes. `Fatal` lines end the loop: a method that
is a list reaches `dict.get` outside every `try`, and a line that is not UTF-8 raises in the `for`.
`Conversation` is the promise in 30 lines (`Ask`, `Answer`, `Lose`), and `McpServer` implements it
with `replies <- out`, `lost <- eaten`.

**Measurement, Harness.** A call's outcome is its exit status, what its output holds, and a speed.
`Harness` walks through the stages of a command: `After` is the control flow of `main`, `Call` one
process with its place in the round-robin, its retries and what is kept of it, `VerifyRow` one
configuration's dispatch in bench.py, `WriteJson` and `WriteMd` the two `write_text`. `Hang` makes
the process that is waited for one that never ends; `CanEnd` is the `timeout=` of `run`: such a
process comes back as timed out, and only so. `tried` and `last` (which attempts of the latest call
timed out) are history variables. A sample remembers how its process ended, which the program does
not, so that `OnlyWholeRuns` can be said. `Row.truth` is what really ran under the debugger.

**Pipeline.** `at` is the script run_all.sh is at, `shell` the background shell
`run_with_timeout` waits for, `cl` the state of the cloud benchmark's loop in it. `live` are the
measuring programs that run: `TimesOut` ends the shell and leaves the program in `live`, as the
TERM goes to `$!` alone. `ScriptDies`, `Killed` and `StrayEnds` are kills of a script and of
run_all.sh, whose script goes on and records its line in whatever file is there by then.

**ClaimsGate** is operators only. Where the program walks and remembers the last thing it saw
(`_enclosing_heading`, the parent, the nearest byte count) the operator is a set with at most one
member. A printed number is its digits and how many are decimals, so that rounding is arithmetic
on integers.

Each definition's source lines are in `PROJECT.json` under `map`. Definitions with a lower-case suffix
(`Parse_errexit`, `ProbeTimeout_leaks`, ...) stand directly before the definition they are a
broken variant of; each passing property is violated when the variant takes the definition's
place.

## 3. What the runs check

| run | states | question |
|---|---|---|
| `target_check` | 4.1e5 | can an exit status of `polygraph check` be trusted? |
| `sweep_ledger` | 4.8e5 | is a ledger on disk a complete sweep, and does evidence survive? |
| `check_action` | 1.4e6 | what may a workflow conclude from the action? |
| `mcp_server` | 2.7e5 | does the MCP server keep its promise to its client? |
| `harness` | 8.2e5 | can the numbers and labels the measuring commands write be trusted? |
| `pipeline` | 5.6e5 | what does a status 0 of `run_all.sh` stand for? |
| `no_permission`, `uninstrumented`, `missed_symbol`, `evidence_race`, `model_digest`, `preset_is_run` | - | what the repository says and the code does not do (section 5) |

**target_check.** `MatchIsWitnessed` (a 0 out of L3 has a real call of a claimed kernel, through a
breakpoint that existed), `ConclusiveOnly` (0 or 1 out of L3 needs a session that was not timed out
and, with gdb, a breakpoint; 0 also a program that ended by itself and a result block that was
read. A 1 does not need these: the program may have been refused or killed, and lldb may have set
nothing), `NoDispatchMissed` (1 is never given over a call of a kernel that has a breakpoint when
the results were printed), `HeadlineAgrees` (headline and exit code fit if and only if the
advertised text is not `Misread`), `NoProbeLeftRunning` (no orphan unless interrupted), `RInv` (the inductive invariant of the
proofs), `RefinesOracle`, and `EveryCheckAnswers` under fairness.

**sweep_ledger.** `LedgerIsComplete`, `ExitMeans` (a refusal leaves nothing on disk; what
`--assert`'s 0 and 1 stand for), `DigestIsNotOlder` (the digest and the size are never of *older*
bytes than the ones measured), `EvidenceStands` (a ledger that was there before all sweeps is only
replaced by a sweep with an explicit `--out`, at every step), `EverySweepEnds`.

**check_action.** `GreenMeansMatch`, `GreenMeansTried`, `OutputsAreTheChecks`, the invariant
`AInv`, and `ActionEnds`.

**mcp_server.** `KeepsPromise` (the server implements `Conversation`, whatever its children read),
`VerdictIsTrue` (a verdict is about a program lldb saw to its end, and agrees with what ran),
`RequestsSettle` (every request is answered, unless a child read it or the server fell), and
`ServerEnds` (the server does not outlive a closed standard input).

**harness.** `Interleaved`, `Accounted` (a sample or an error entry for each call, in the stages
that promise it), `OnlyWholeRuns` (no sample from a process that failed, in the stages that use
llama-bench), `OptimumIsBest`, `GivesUpLate` (an attempt is followed by another only if it timed
out, there are no more than the retries, and a call is not given up as timed out before), `LabelIsWitnessed` (a label names no family that did not run, and one with
counts none that is missing), `ReportFollowsEvidence`, `RunEnds`.

**pipeline.** `GreenMeansClean` (status 0: one line per script, no FAIL, and none of the run's
measurements beside a program it had given up), `CloudIsHonest` (OK only with a sample, and with
all the calls unless the budget is said to be hit), `LedgerIsThisRuns`, `PipelineEnds`.

### Bounds, and why they are enough

* Two kernels of two families, one of whose names holds two tokens (`sme2` and `sme`): the least
  instance in which the token order matters and a hit can be of the wrong family.
* Two symbol tables, one without the second kernel: the least in which a failing nm loses a
  breakpoint. `check_action` uses one table, since the action does not depend on it.
* `MaxCalls = 1` call of each kernel: every decision asks whether a count is positive.
* 17 targets: the shapes of the committed target files (KleidiAI and whisper.cpp with a claim,
  catch-a-liar with the ad-hoc claim, cpu-variants without a claim, onnxruntime without L3, ad hoc
  without `--run`), each level, each debugger choice, both systems, a missing workload parameter,
  and a pattern that captures white space with the family (`LooseTarget`: no committed
  pattern does, but a target's author is free to write one).
  `check_action` takes those of them the action can express: its command line has no
  `--l3-debugger` (assumed in `ActionAssumption`) and no workload parameters.
* Two sweeps, up to two points, one of them empty (`--threads ""`): two rows are needed for an
  order, two sweeps for a race. The pipeline's sweep always passes `--out`, as `run_all.sh` does.
  `MaxModel = 2` versions of the model file.

* `MaxSent = 3` lines of eight kinds, one for each way through the loop: a probe, a line read
  ahead, and a line a child may take are three. `MaxCalls = 1`: a verdict asks whether a count is
  positive.
* `MCHarness`: two cells per phase, two rounds, one retry, two speeds in decode (the least in which
  an optimum can be wrong); `MaxFaults = 2` calls that do not simply report a speed, where further
  attempts at one call and a cell that keeps failing count once.
* `MCPipeline`: two rounds of two cells, and two runs, for what one leaves to the next.

`CHECK_DEADLOCK FALSE` is set in every configuration: a check, a sweep, an action, a server, a
command and a pipeline end.

### Fairness

* The driver and the debugger take their enabled steps, and `communicate(timeout=...)` expires if
  the session does not end (`_run_with_timeout`): weak fairness on the driver's actions and on
  `ProbeTimeout`. *Nothing* is assumed of the probed program: it may hang.
* A sweep's steps are weakly fair: its child processes have timeouts of their own.
* The runner runs the steps of a composite action.
* The MCP server's loop blocks on input only, and both its children are run with `timeout=`: weak
  fairness on `Loop` and `TimesOut`. Nothing is assumed of the client, of lldb or of the program.
* The processes that are measured, and bench.py's debugger, are run with `timeout=`: weak fairness on
  `Work`. They may hang (`Hang`); what `CanEnd` says of the time limit is what makes `RunEnds` hold.
  A few helpers run without a limit (`cpu_brand`'s sysctl, crossover.py:187) and are taken to end.
* A stage script is a sequential shell and a watcher's `sleep` ends: weak fairness on `Shell` and
  `TimesOut`, none on the programs that are measured. The scripts' steps without a time limit
  (building, fetching, testing) are taken to end.

Assumed of the environment, and not checked: killing the process group ends the traced program
(a descendant that left the group keeps the pipe open and the second `communicate()`, which has no
timeout, waiting: listed as a hazard); the traced program does not survive the debugger's death.

## 4. What is proved

Every invariant and every action property that a run checks, and both refinements, are theorems:
what the run shows on an instance holds for every value of the constants.

| theorem | module | for every value of the constants |
|---|---|---|
| `ClassifyIsBelongs` | DispatchProbe_proof | the CHOOSE of the classifier is the most specific token |
| `HeadlineMatchesCode` | DispatchProbe_proof | headline and code of one result agree if and only if the text is not `Misread` |
| `ProbeNextInv` | DispatchProbe_proof | a step of a session keeps `ProbeInv` |
| `Invariance`, `TypeCorrect` | TargetCheck_proof | `Spec => []IInv`, `[]TypeOK` |
| `MatchesAreWitnessed`, `AnswersAreConclusive`, `NothingIsMissed`, `HeadlinesAgree`, `ProbesAreEnded`, `LevelsFit` | TargetCheck_proof | the invariants of `target_check` |
| `ChecksRefineOracle` | TargetCheck_proof | `Spec => Oracle!OracleSpec` |
| `ActionInvariance`, `ActionIsTyped`, `GreenRestsOnMatch`, `GreenRestsOnRun`, `OutputsAreReal` | CheckAction_proof | the invariants of `check_action` |
| `SweepInvariance`, `SweepsAreTyped`, `LedgersAreComplete`, `ExitsAreEarned`, `DigestsAreNotOlder` | SweepLedger_proof | the invariants of `sweep_ledger`, for any number of sweeps |
| `CommittedEvidenceStands` | SweepLedger_proof | the action property `EvidenceStands` |
| `EverySweepRunsDown` | SweepLedger_proof | what a sweep has left to do is a number that each statement it finishes makes smaller and nothing makes larger |
| `TypesHold`, `VerdictsAreTrue` | McpServer_proof | the invariants of `mcp_server` |
| `PromiseIsKept` | McpServer_proof | `Spec => KeepsPromise`: the server implements `Conversation` |
| `HarnessInvariance`, `HarnessIsTyped`, `CellsAreInterleaved`, `CallsAreAccountedFor`, `RunsAreWhole`, `OptimaAreTheBest`, `RetriesAreSpent`, `LabelsAreWitnessed`, `ReportsFollowEvidence` | Harness_proof | the invariants of `harness`, for any command line, speeds, rounds and retries |
| `OptimumIsTheBest` | Harness_proof | the search for the best cell finds the first best one of any table |
| `PipelineInvariance`, `PipelineIsTyped`, `GreenRunsAreClean`, `CloudBenchIsHonest`, `LedgersAreTheRuns` | Pipeline_proof | the invariants of `pipeline`, for any number of runs, rounds and cells |
| `ContextStaysInSection`, `RetractedAreExcused`, `LiveClaimsAreBacked`, `ProseMayRestOnJson`, `ManifestPairsAreOneToOne` | ClaimsGate_proof | what the gate's status 0 means, for any repository |

*The argument.* `MatchIsWitnessed` is not inductive: a state in which the counters are positive
although nothing was called would satisfy it and lead to a wrong 0. `ProbeInv` closes the gap:
the counters are the program's calls restricted to the symbols with a breakpoint
(`CountersExact`), because nothing runs before the launch (`PhaseInv`) and breakpoints are armed
whenever the library is mapped (`BreakpointInv`); and a completed result is what can be
read of what was printed of them (`ResultInv`), whether or not the debugger lived to print it. Nothing
in it says that lldb set a breakpoint: that is not so, and what is lost by it is the property of
`uninstrumented`. `StageInv` says where a session may be at each stage, and that a session only
starts where the symbol tables list something. `AnswerInv` ties exit code and
status to the completed result. The conjunction `IInv` is inductive (`NextIInv`), and each safety
invariant follows from it in a few lines.

The refinement needs two more facts (`LevelInv`, which layer an exit code belongs to;
`FailureReportsNothing`), proved inductive together with `IInv` as `RInv`. Each step of the check
is then a `Learn`, an `Answer`, or a stutter of the oracle.

For the action, every step but the gdb installation either is a step of the check or leaves it
alone, so `IInv` is kept by `NextIInv`; `StepInv`, `OutcomeInv` and `ReportInv` add what each step
has established. `ReportInv` is the heart: an answer of 0 or 1 comes with a whole report, a whole
report with the status it names.

For the MCP server the question is who has a line. `BufferIsTheServers`: no line is both in the
buffer and a child's, and what left the pipe after the last fill went to a child; so a fill, which
moves `handled` to `pulled`, skips only lines children had. `NothingLeftBehind` follows: of the lines
up to `handled` each due one is answered or eaten, the one being probed excepted, unless the server
crashed. `AtHand` draws from both what `Answer` of `Conversation` asks of the line being answered, and
`ProbeOfCall` what `Lose` asks: while a child can read, an earlier call is open. `AnswersFit` unfolds
the dispatcher: an answer is sent exactly when one is due, with a code that fits.

For the sweeps every part of `IInv` gives something as a function of where a sweep is.
`RowsFollowPlan`: the rows are the points 1, 2, ... so far, and all of them once the loop is over.
`TextIsOpened`: a file's text is of a sweep that has got to the write, so its rows no longer change;
`LedgerIsComplete` is these two. `DigestFollowsLoads` orders three versions of the model file, the ones
loaded, the one hashed and the one measured, which only grow. `GuardHolds` is what the guard leaves
behind it: a sweep with the default path that got past it did not find the committed file there, and
as nobody can put that file back, it cannot overwrite it, however long it takes to open the path.

For the measuring commands everything rests on `TriedInv`: in the stage the command is in, a cell
before the current position was called once per round so far, one from there on once less; in any
other stage the calls are all made or none is. Hence `Interleaved`; with `KeptInv`, by which the
round a call is in has no error entry yet, `Accounted`; and, when the last cell of the sweep is
settled, that the optima are those of all its samples (`OptimaInv`). That these are the best ones is
`OptimumIsTheBest`: the loop over the cells is a recursive function, and a least cell at which what it
remembers is not the best of the cells before leads to a contradiction. The comparison needs medians
to be numbers: `RankedExists` shows that among any samples there is a k-th smallest one, from the
cardinalities of the sets below and up to each of them (`LeastOf`, `GreatestOf`). `GivesUpLate` needs
`AttemptsInv`: within a call the attempts so far are the ones remembered, and the latest timed out.
For the labels,
`LabelClaims` shows that a label says what the record holds, and `BuiltinIsWitnessed` that the record
holds what one of the two transcripts lists.

For the pipeline the notion is `Unspoilt`: nothing of the run has failed so far, and it was not killed.
`GreenMeansClean` speaks of a finished run only; the invariant has to say of an unspoilt run at each
moment that it has one OK of each script behind it and nothing of those ahead (`SoFar`, in `LinesInv`),
that only the program that is waited for runs, or one whose shell was just killed (`LiveInv`), and that
the scripts left behind are not its own (`StrayInv`). That is enough because a single FAIL or time-out
sets `overall` for good. `ShellInv` says in which scripts a shell may be waited for, and `LoopInv` gives
the calls of each cell of the cloud benchmark as a function of its round and cell, as `TriedInv` does.

The gate needs no invariant: its theorems unfold `main` and follow a finding back to its absence.
`ContextStaysInSection` is the one with an argument: a block lies within the bound it was looked
for in (`BlockInRange`), the bound is the next heading of any level (`PreambleIsSection`), so no
heading stands between a line and what excuses it. No run evaluates the gate's
operators; those for contexts, tables and the manifest were compared with the Python functions on
random documents instead, and agreed.

*Assumptions* (each evaluated by TLC on the instances): `EvidenceAssumption` (the token list is a
sequence of strings, the three words that name no family are no family), `ProbeAssumption` (nm
lists symbols; the bound is a natural number), `MarkAssumption` (the refinement's markers are no
family), `ConfigAssumption` (a target has the fields of `TargetConfig`), `ActionAssumption`,
`PlanAssumption` (a sweep without `--out` writes the default path; selections and probe results have
their types), `CommittedAssumption` (the mark of a committed file is no sweep), `IdAssumption` (null is
an id, "no id" is none), `TrafficAssumption` (the client writes lines), `RatesAssumption` (speeds are
natural numbers), `ListAssumption` (the lists of the command line are not empty and name nothing
twice), `CountAssumption`, `PipelineAssumption` and `BoundAssumption` (counts and bounds are natural
numbers, and there is a round and a cell where the code takes one for granted).

*Only model-checked*: the liveness properties, which are out of the prover's reach:
`EveryCheckAnswers`, `EverySweepEnds`, `ActionEnds`, `RequestsSettle`, `ServerEnds`, `RunEnds`,
`PipelineEnds`. Of `EverySweepEnds` the prover has the part without fairness: `EverySweepRunsDown`
gives a measure, two statements for each point to come and the place in `main`, that every finished statement
decreases and nothing increases. What is left to TLC is that a statement that can run does. TLC found
the measure to hold on the instance of `sweep_ledger` and to fail once the loop ran one point too far.
The six disagreements of section 5 are counterexamples, found by TLC. Before they
were proved the inductive invariants were checked by TLC on the instances of section 3, those of
`TargetCheck` and `CheckAction` in the runs themselves (`RInv`, `AInv`).

## 5. Where the code and its documents disagree

| run | what the code does |
|---|---|
| `no_permission` | a system that refuses the trace makes the check exit 1; the documented answer is 2 |
| `uninstrumented` | an lldb that fails before it has set its breakpoint completes with zero hits: exit 1, where the code says it fails closed |
| `missed_symbol` | one of the two nm runs fails: a kernel that ran without a breakpoint gives exit 1, "the one failure this tool cannot afford" |
| `evidence_race` | two default sweeps pass the guard together, and the later one truncates the earlier one's ledger |
| `model_digest` | a model replaced during a sweep is hashed instead of the measured one |
| `preset_is_run` | the documented adoption of the action with `target: kleidiai` never gets past L1: the action has no input for the model the preset requires |

Each counterexample's property is in the last section of its module, with the sentence it is
taken from; the quotes with their lines are in `PROJECT.json`.

More observations are recorded here; most of them no property states.

*Check.* The headline contradicts the exit code for exactly the texts and results of `Misread`
(`HeadlineAgrees` says so in both directions). Three examples: " sme2" advertised and hits of `sme2` give
exit 0 with verdict SILENT_FALLBACK and headline MISMATCH; white space alone gives MISMATCH with exit
2, and so does "none" without a hit. The comment at verify_dispatch.py:1441-1443 avoids such a pair
for ad-hoc claims. `level_reached` is 3 also when the debugger was missing (1432); docs/CI.md:55
calls it the level "actually reached".

*MCP server.* Requests the client has already written can be read by the probed program and are
never answered (`Lose` in `Conversation` is that concession). The text of NOT DISPATCHED says
"DESPITE L1/L2 above both still reporting SME2" without looking at L1 or L2; the program's exit
status under lldb is not looked at either, though the note says it "ran to completion". A request
with an id that is named `notifications/...` is never answered.

*Measuring commands.* In the default stage a call that reports no sample leaves no error entry, in
the sweep it does (crossover.py 497-499 and 998), so `Accounted` leaves that stage out. The split
and compare stages take the summary line of a llama-cli that timed out or failed, although the
report says its cells come "only from calls that actually completed" (766-767), so `OnlyWholeRuns`
leaves them out. `run` catches a time-out only, so one program that cannot be executed, or prints
what is not UTF-8, loses the whole sweep (`Die`; the docstring at 132-137 says one failed cell
cannot). `verify_dispatch_external` "never raises" if the tool is missing; it does
(`VerifierMissing`). An lldb that fails without timing out gives a verified "neither fired".

*Pipeline.* A timed-out stage leaves its program running, beside the next stage: the run is not
green then (`GreenMeansClean`), but a later run may be, and its measurements share the machine.
The success of the cloud benchmark leaves a line of its own and none for `run_bench`. Its tables
are written before it is known whether anything was measured, although the header says the stage
fails "rather than emitting an all-empty table".

*Claims gate.* A comment says prose figures "must always be explicitly registered"
(check_claims.py:485); the code takes any agreeing leaf of any results file, table or not
(`ProseMayRestOnJson`). A live claim on a line with a retracted figure is not checked at all;
aliases of a registry entry are indexed and never verified; `verify_compute` with a zero divisor
raises, which is status 1 without a report.

*Sweep.* `run_all.sh` names its
ledger after `uname -s`, which on a case-insensitive file system is the committed file's name, so
its `--out` bypasses the guard. And the sweep's lldb lane does not refuse an empty candidate list,
which the check does for both debuggers.

## 6. What is abstracted or left out

Report formatting, notes, CPU names, instruction counts and token rates reach no decision. L1's
scan is not a step of its own: it decides nothing but `level_reached`. Regular expressions and
target files are reduced to what they can match (`L2Readings`), and nm's output to which symbols
it lists. gdb, lldb, nm, the probed program, the shell and the runner are environment: each may do
anything its actions list, at any time. An exit status of 120, which the interpreter gives when it
cannot flush the report, is 2 in the model: both are "neither match nor mismatch". The kernels'
arithmetic, the web site and the plots have no behaviour of this kind.

The MCP model writes and reads whole lines, and a client that is there drains the answers: a
server blocked on a full pipe is not modelled. In `Harness` a thread count or mode is named once
(`ListAssumption`); naming one twice would list a cell twice and measure it as one. Two concurrent
runs of a measuring command, which would share their output paths, are left out. In `Pipeline` a
pid is never reused, and runs follow one another; what a build, a fetch or a test suite does inside
is left out. The claims gate's regular expressions are reduced to what they match, numbers to six
decimals, and lines to those both `splitlines()` and `count("\n")` agree on.

Kernel dispatch (`kernels/dispatch.c`) chooses once from detected features and keeps no state; the
kernels are floating-point arithmetic.

## 7. Plan

The model covers what section 1 lists and every safety property is proved. What would be next:

1. **Termination.** `EverySweepRunsDown` has the measure of a sweep; the calls left in a stage of
   `Harness` and the scripts left in the pipeline are measures of the same kind, in reach of the prover.
2. **A survey as an abstract specification** of the measuring commands (each call of the plan leaves one
   entry, nothing is published before the last), implemented by `Harness`.
