---------------------------- MODULE Pipeline_proof ----------------------------
(***************************************************************************)
(* The safety of run_all.sh and of its cloud benchmark, for any number of  *)
(* runs, rounds and cells.  A run is unspoilt while nothing has failed:    *)
(* IInv says what is then recorded, what still runs, and whose it is.      *)
(***************************************************************************)
EXTENDS Pipeline, FiniteSetTheorems, TLAPS

\* Nothing of this run has failed so far, and it was not killed.
Unspoilt == overall = "0" /\ exit \in {"running", "0"}

\* The run's lines of script s, and that they are one OK.
Own(s) == {l \in lines : l.run = run /\ l.script = s}
Clean(s) == \E n : Own(s) = {Line(run, s, n, "OK")}

\* The cloud benchmark's function has recorded its line.
CloudRecorded == InCloud /\ cl.phase = "done"

Phase == {"precheck", "check", "call", "aggregate", "done"}
Round == 1..(Reps + 1)
Cell == 1..Cells
Count == [1..Cells -> Nat]
LoopState == [phase : Phase, round : Round, cell : Cell, tried : Count,
              samples : Count, budget_hit : BOOLEAN]

\* The round and the cell tell how often each cell was called.
LoopInv ==
    /\ cl \in LoopState
    /\ \A c \in 1..Cells :
          cl.tried[c] = IF c < cl.cell THEN cl.round ELSE cl.round - 1
    /\ cl.round = Reps + 1 => cl.cell = 1
    /\ cl.phase = "call" => cl.round <= Reps
    /\ cl.phase = "aggregate" => cl.budget_hit \/ cl.round = Reps + 1
    /\ cl.phase = "done" /\ shell \in {"running", "zero"} =>
          /\ \E c \in 1..Cells : cl.samples[c] > 0
          /\ cl.budget_hit \/ cl.round = Reps + 1

\* A shell is waited for in a timed script of a running run only; the loop is
\* fresh in between, and the shell of a cloud benchmark ends well when it is done.
ShellInv ==
    /\ shell = "none" \/ ~InCloud => cl = FreshLoop
    /\ shell # "none" => script \in Timed /\ exit = "running"
    /\ InCloud /\ shell = "zero" => cl.phase = "done"

\* Scripts left behind are of earlier runs, unless this one is spoilt.
StrayInv ==
    /\ \A p \in stray : p.run <= run
    /\ Unspoilt => \A p \in stray : p.run # run
    /\ Unspoilt /\ company # "leftOver" => stray = {}

\* An unspoilt run has one OK of each script behind it and nothing of those
\* ahead; of the script at hand it has one when the cloud benchmark recorded it.
SoFar ==
    /\ \A i \in DOMAIN Scripts : i < at => Clean(Scripts[i])
    /\ \A i \in DOMAIN Scripts : i > at => Own(Scripts[i]) = {}
    /\ shell \in {"none", "running", "zero"} =>
          IF CloudRecorded THEN Clean(script) ELSE Own(script) = {}

\* What is recorded, while a run is unspoilt and when it has ended with 0.
LinesInv ==
    /\ overall = "0" /\ exit = "running" => SoFar
    /\ exit = "0" => overall = "0" /\ \A s \in ScriptNames : Clean(s)
    /\ Unspoilt /\ company # "leftOver" => \A l \in lines : l.run = run

\* In an unspoilt run that found the machine quiet only the program that is
\* waited for runs, or one whose shell was just killed.
LiveInv ==
    Unspoilt /\ company # "leftOver" =>
        /\ company = "none"
        /\ exit = "running" /\ live # {} =>
              /\ live = {Mine}
              /\ \/ shell = "killed"
                 \/ shell = "running" /\ (InCloud => cl.phase = "call")

IInv == /\ TypeOK
        /\ LoopInv
        /\ ShellInv
        /\ StrayInv
        /\ LinesInv
        /\ LiveInv
        /\ LedgerIsThisRuns

-----------------------------------------------------------------------------
(* The scripts.                                                            *)

\* The eight scripts, the last of which writes the ledger; two are timed, the
\* set-up comes before them.
LEMMA ScriptFacts ==
    /\ DOMAIN Scripts = 1..8 /\ Len(Scripts) = 8
    /\ \A i \in 1..8 : /\ Scripts[i] = "emit_ledger" <=> i = 8
                       /\ Scripts[i] \in Timed => i \in 6..7
                       /\ Scripts[i] \in Setup => i \in 1..3
                       /\ Scripts[i] \in ScriptNames
    /\ \A i, j \in 1..8 : Scripts[i] = Scripts[j] => i = j
<1>1. DOMAIN Scripts = 1..8 /\ Len(Scripts) = 8
    BY DEF Scripts
<1>2. \A i \in 1..8 : i \in {1, 2, 3, 4, 5, 6, 7, 8}
    OBVIOUS
<1>3. /\ Scripts[1] = "build_llamacpp" /\ Scripts[2] = "fetch_model"
      /\ Scripts[3] = "build_kernels" /\ Scripts[4] = "capture_hw_features"
      /\ Scripts[5] = "correctness_tests" /\ Scripts[6] = "verify_dispatch"
      /\ Scripts[7] = "run_bench" /\ Scripts[8] = "emit_ledger"
    BY DEF Scripts
<1>4. \A i \in 1..8 : /\ Scripts[i] = "emit_ledger" <=> i = 8
                      /\ Scripts[i] \in Timed => i \in 6..7
                      /\ Scripts[i] \in Setup => i \in 1..3
    BY <1>2, <1>3 DEF Timed, Setup
<1>5. \A i \in 1..8 : Scripts[i] \in ScriptNames
    BY <1>1 DEF ScriptNames
<1>6. \A i, j \in 1..8 : Scripts[i] = Scripts[j] => i = j
    BY <1>2, <1>3
<1> QED
    BY <1>1, <1>4, <1>5, <1>6

\* A script that failed spoils its run; one that did not hands on to the next,
\* and the last one ends the run with its status.
LEMMA FinishFacts ==
    ASSUME TypeOK, exit = "running", NEW ok \in BOOLEAN, Finish(ok)
    PROVE  /\ shell' = "none" /\ cl' = FreshLoop /\ at' \in 1..8
           /\ exit' \in {"running", "0", "1"} /\ overall' \in {"0", "1"}
           /\ ~ok => overall' = "1" /\ exit' # "0"
           /\ ok => /\ overall' = overall
                    /\ script = "emit_ledger" => at' = at /\ exit' = overall
                    /\ script # "emit_ledger" => at' = at + 1 /\ exit' = exit
<1>1. at \in 1..8 /\ overall \in {"0", "1"}
    BY ScriptFacts DEF TypeOK
<1>2. script = "emit_ledger" <=> at = 8
    BY <1>1, ScriptFacts DEF script
<1> QED
    BY <1>1, <1>2, ScriptFacts DEF Finish

\* A script comes to its end in three ways; the last of them is no success.
LEMMA FinishingSteps ==
    ASSUME RunScript \/ Reap \/ ScriptDies
    PROVE  /\ exit = "running"
           /\ \E ok \in BOOLEAN : Finish(ok)
<1>1. CASE RunScript
  <2>1. PICK o \in Outcomes : Finish(o.ok) /\ exit = "running"
      BY <1>1 DEF RunScript
  <2>2. o \in {Good, Bad, Unrecorded}
      BY DEF Outcomes
  <2>3. Good.ok \in BOOLEAN /\ Bad.ok \in BOOLEAN /\ Unrecorded.ok \in BOOLEAN
      BY DEF Good, Bad, Unrecorded
  <2> QED
      BY <2>1, <2>2, <2>3
<1>2. CASE Reap
  <2>1. Succeeded \in BOOLEAN /\ Finish(Succeeded) /\ exit = "running"
      BY <1>2 DEF Reap, Succeeded
  <2> QED
      BY <2>1
<1>3. CASE ScriptDies
    BY <1>3 DEF ScriptDies
<1> QED
    BY <1>1, <1>2, <1>3

\* What an unspoilt run's script leaves when it ends: one more OK, if the cloud
\* benchmark has not recorded it already.
LEMMA GoodEndings ==
    ASSUME TypeOK, ShellInv, RunScript \/ Reap \/ ScriptDies, overall' = "0"
    PROVE  /\ overall = "0" /\ exit = "running" /\ cl' = FreshLoop
           /\ shell' = "none" /\ shell \in {"none", "zero"}
           /\ UNCHANGED <<run, cloud, live, stray, company>>
           /\ IF CloudRecorded THEN lines' = lines
              ELSE lines' = lines \cup {Line(run, script, script, "OK")}
           /\ script # "emit_ledger" =>
                 at' = at + 1 /\ exit' = "running" /\ ledger' = ledger
           /\ script = "emit_ledger" =>
                 at' = at /\ exit' = "0" /\ ledger' = lines
<1>1. CASE RunScript
  <2>1. PICK o \in Outcomes : Finish(o.ok) /\ Record(o.news) /\ ledger' =
            IF script = "emit_ledger" /\ o.ok THEN lines ELSE ledger
      BY <1>1 DEF RunScript
  <2>2. exit = "running" /\ shell = "none"
        /\ UNCHANGED <<run, cloud, live, stray, company>>
      BY <1>1 DEF RunScript
  <2>3. /\ Good.ok = TRUE /\ Bad.ok = FALSE /\ Unrecorded.ok = FALSE
        /\ Good.news = {Entry("OK")}
        /\ Entry("OK").name = script /\ Entry("OK").status = "OK"
      BY DEF Good, Bad, Unrecorded, Entry
  <2>4. o \in {Bad, Unrecorded} => Finish(FALSE)
      BY <2>1, <2>3
  <2>5. ~Finish(FALSE)
      BY <2>2, FinishFacts
  <2>6. o = Good /\ ~InCloud
    <3>1. o \in {Good, Bad, Unrecorded}
        BY DEF Outcomes
    <3>2. o = Good
        BY <2>4, <2>5, <3>1
    <3>3. Good # Unrecorded
        BY <2>3
    <3>4. InCloud => script = "run_bench"
        BY DEF InCloud
    <3>5. ~InCloud
        BY <3>2, <3>3, <3>4 DEF Outcomes
    <3> QED
        BY <3>2, <3>5
  <2>7. Finish(TRUE) /\ Record({Entry("OK")})
      BY <2>1, <2>3, <2>6
  <2>8. lines' = lines \cup {Line(run, script, script, "OK")}
      BY <2>3, <2>7 DEF Record
  <2>9. ledger' = IF script = "emit_ledger" THEN lines ELSE ledger
      BY <2>1, <2>3, <2>6
  <2>10. ~CloudRecorded
      BY <2>6 DEF CloudRecorded
  <2> QED
      BY <2>2, <2>7, <2>8, <2>9, <2>10, FinishFacts
<1>2. CASE Reap
  <2>1. /\ exit = "running" /\ shell \in {"zero", "nonzero", "killed"}
        /\ UNCHANGED <<run, cloud, live, stray, company, ledger>>
        /\ Finish(Succeeded) /\ Succeeded \in BOOLEAN
      BY <1>2 DEF Reap, Succeeded
  <2>2. Succeeded /\ shell = "zero"
      BY <2>1, FinishFacts DEF Succeeded
  <2>3. Finish(TRUE)
    <3>1. Succeeded = TRUE
        BY <2>1, <2>2
    <3> QED
        BY <2>1, <3>1
  <2>4. script # "emit_ledger"
      BY <2>2 DEF ShellInv, Timed
  <2>5. CloudRecorded <=> InCloud
      BY <2>2 DEF ShellInv, CloudRecorded
  <2>6. IF InCloud THEN Record({}) ELSE Record({Entry("OK")})
      BY <1>2, <2>2 DEF Reap
  <2>7. Entry("OK").name = script /\ Entry("OK").status = "OK"
      BY DEF Entry
  <2>8. IF InCloud THEN lines' = lines
        ELSE lines' = lines \cup {Line(run, script, script, "OK")}
      BY <2>6, <2>7 DEF Record
  <2> QED
      BY <2>1, <2>2, <2>3, <2>4, <2>5, <2>8, FinishFacts
<1>3. CASE ScriptDies
  <2>1. exit = "running" /\ Finish(FALSE)
      BY <1>3 DEF ScriptDies
  <2> QED
      BY <2>1, FinishFacts
<1> QED
    BY <1>1, <1>2, <1>3

\* The fresh loop.
LEMMA FreshFacts ==
    /\ FreshLoop \in LoopState
    /\ FreshLoop.phase = "precheck" /\ FreshLoop.round = 1 /\ FreshLoop.cell = 1
    /\ \A c \in 1..Cells : FreshLoop.tried[c] = 0
BY PipelineAssumption DEF FreshLoop, LoopState, Phase, Round, Cell, Count

-----------------------------------------------------------------------------
(* The first state.                                                        *)

\* A first run begins with nothing recorded, nothing running, nothing spoilt.
LEMMA InitIInv == Init => IInv
<1> SUFFICES ASSUME Init PROVE IInv
    OBVIOUS
<1>0. script # "emit_ledger" /\ at \in DOMAIN Scripts /\ at = 1
    BY ScriptFacts DEF Init, script
<1>1. TypeOK
    BY <1>0, FreshFacts, PipelineAssumption DEF Init, TypeOK
<1>2. LoopInv
    BY FreshFacts, PipelineAssumption DEF Init, LoopInv
<1>3. ShellInv /\ StrayInv /\ LiveInv
    BY DEF Init, ShellInv, StrayInv, LiveInv, Company
<1>4. \A s : Own(s) = {}
    BY DEF Init, Own
<1>5. ~CloudRecorded
    BY FreshFacts DEF Init, CloudRecorded
<1>6. LinesInv /\ LedgerIsThisRuns
    BY <1>0, <1>4, <1>5, ScriptFacts DEF Init, LinesInv, SoFar,
       LedgerIsThisRuns
<1> QED
    BY <1>1, <1>2, <1>3, <1>6 DEF IInv

-----------------------------------------------------------------------------
(* Types.                                                                  *)

\* The program of the script at hand has a name.
LEMMA MineTyped ==
    TypeOK => Mine \in [run : 1..MaxRuns, script : ScriptNames]
BY ScriptFacts DEF TypeOK, Mine, Program, script

\* Updates of a loop's fields by values of their types.
LEMMA LoopUpdates ==
    ASSUME NEW x \in LoopState
    PROVE  /\ \A c \in Cell : [x EXCEPT !.cell = c] \in LoopState
           /\ \A c \in Cell, r \in Round :
                 [x EXCEPT !.cell = c, !.round = r] \in LoopState
           /\ \A p \in Phase : [x EXCEPT !.phase = p] \in LoopState
           /\ \A p \in Phase, b \in BOOLEAN :
                 [x EXCEPT !.phase = p, !.budget_hit = b] \in LoopState
           /\ \A p \in Phase, t, m \in Count :
                 [x EXCEPT !.phase = p, !.tried = t, !.samples = m] \in LoopState
BY DEF LoopState

\* What a call leaves of the loop.
LEMMA CallFacts ==
    ASSUME LoopInv, CallEnds
    PROVE  /\ cl.phase = "call" /\ cl.round \in 1..Reps
           /\ cl' \in LoopState
           /\ cl'.phase = "check"
           /\ cl'.cell = IF cl.cell < Cells THEN cl.cell + 1 ELSE 1
           /\ cl'.round = IF cl.cell < Cells THEN cl.round ELSE cl.round + 1
           /\ \A c \in 1..Cells : cl'.tried[c] =
                 IF c = cl.cell THEN cl.tried[c] + 1 ELSE cl.tried[c]
<1>1. PICK sample \in {0, 1} :
          cl' = [Following(cl) EXCEPT !.phase = "check",
                                      !.tried[cl.cell] = @ + 1,
                                      !.samples[cl.cell] = @ + sample]
    BY DEF CallEnds
<1>2. cl.phase = "call"
    BY DEF CallEnds
<1>3. /\ cl \in LoopState /\ cl.round \in 1..Reps /\ cl.cell \in 1..Cells
      /\ cl.tried \in [1..Cells -> Nat] /\ cl.samples \in [1..Cells -> Nat]
    BY <1>2, PipelineAssumption DEF LoopInv, LoopState, Round, Cell, Count
<1> DEFINE next == Following(cl)
<1>4. /\ next \in LoopState
      /\ next.cell = IF cl.cell < Cells THEN cl.cell + 1 ELSE 1
      /\ next.round = IF cl.cell < Cells THEN cl.round ELSE cl.round + 1
      /\ next.tried = cl.tried /\ next.samples = cl.samples
  <2>1. /\ cl.cell < Cells => cl.cell + 1 \in 1..Cells
        /\ 1 \in 1..Cells /\ cl.round + 1 \in 1..(Reps + 1)
      BY <1>3, PipelineAssumption
  <2>2. CASE cl.cell < Cells
    <3>1. next = [cl EXCEPT !.cell = cl.cell + 1]
        BY <2>2 DEF Following
    <3>2. next \in LoopState
        BY <1>3, <2>1, <2>2, <3>1, LoopUpdates DEF Cell
    <3> QED
        BY <1>3, <2>2, <3>1, <3>2 DEF LoopState
  <2>3. CASE ~(cl.cell < Cells)
    <3>1. next = [cl EXCEPT !.cell = 1, !.round = cl.round + 1]
        BY <2>3 DEF Following
    <3>2. next \in LoopState
      <4>1. 1 \in Cell /\ cl.round + 1 \in Round
          BY <2>1 DEF Cell, Round
      <4>2. \A c \in Cell, r \in Round :
                [cl EXCEPT !.cell = c, !.round = r] \in LoopState
          BY <1>3, LoopUpdates
      <4>3. [cl EXCEPT !.cell = 1, !.round = cl.round + 1] \in LoopState
          BY <4>1, <4>2
      <4> QED
          BY <3>1, <4>3
    <3> QED
        BY <1>3, <2>3, <3>1, <3>2 DEF LoopState
  <2> QED
      BY <2>2, <2>3
<1> DEFINE tried == [next.tried EXCEPT ![cl.cell] = @ + 1]
           samples == [next.samples EXCEPT ![cl.cell] = @ + sample]
<1>5. cl' = [next EXCEPT !.phase = "check", !.tried = tried, !.samples = samples]
    BY <1>1
<1>6. tried \in [1..Cells -> Nat] /\ samples \in [1..Cells -> Nat]
  <2>1. \A f \in [1..Cells -> Nat], k \in 1..Cells, n \in {0, 1} :
            [f EXCEPT ![k] = @ + n] \in [1..Cells -> Nat]
      OBVIOUS
  <2> HIDE DEF next
  <2> QED
      BY <1>3, <1>4, <2>1
<1>7. \A c \in 1..Cells :
          tried[c] = IF c = cl.cell THEN cl.tried[c] + 1 ELSE cl.tried[c]
    BY <1>3, <1>4
<1> HIDE DEF next, tried, samples
<1>8. cl' \in LoopState
    BY <1>4, <1>5, <1>6, LoopUpdates DEF Count, Phase
<1>9. /\ cl'.phase = "check" /\ cl'.cell = next.cell /\ cl'.round = next.round
      /\ cl'.tried = tried
    BY <1>4, <1>5 DEF LoopState
<1> QED
    BY <1>2, <1>3, <1>4, <1>7, <1>8, <1>9

\* Types, whatever happens: programs are named after their scripts.
LEMMA NextTypeOK == TypeOK /\ LoopInv /\ [Next]_vars => TypeOK'
<1> SUFFICES ASSUME TypeOK, LoopInv, [Next]_vars PROVE TypeOK'
    OBVIOUS
<1> DEFINE Programs == [run : 1..MaxRuns, script : ScriptNames]
<1>1. Mine \in Programs
    BY MineTyped
<1>2. run' \in 1..MaxRuns /\ cloud' \in BOOLEAN
  <2>1. CASE RunAgain
      BY <2>1, PipelineAssumption DEF TypeOK, RunAgain
  <2>2. CASE ~RunAgain
    <3>1. UNCHANGED <<run, cloud>>
        BY <2>2 DEF Next, Shell, RunScript, Begin, Reap, Precheck, CheckBudget,
           Aggregate, CloudReturns, TimesOut, CommandEnds, CallEnds, ScriptDies,
           OldProgramEnds, Killed, StrayEnds, vars
    <3> QED
        BY <3>1 DEF TypeOK
  <2> QED
      BY <2>1, <2>2
<1>3. live' \cup stray' \subseteq Programs
  <2>1. live' \subseteq live \cup {Mine} /\ stray' \subseteq stray \cup {Mine}
      BY DEF Next, Shell, RunScript, Begin, Launch, Reap, Precheck, CheckBudget,
         Aggregate, CloudReturns, TimesOut, CommandEnds, CallEnds, ScriptDies,
         OldProgramEnds, Killed, StrayEnds, RunAgain, vars
  <2> QED
      BY <1>1, <2>1 DEF TypeOK
<1>4. company' \in {"none", "leftOver", "own"}
    BY DEF TypeOK, Next, Shell, RunScript, Begin, Launch, Reap,
       Precheck, CheckBudget, Aggregate, CloudReturns, TimesOut, CommandEnds,
       CallEnds, ScriptDies, OldProgramEnds, Killed, StrayEnds, RunAgain, vars,
       Company
<1>5. /\ at' \in DOMAIN Scripts /\ overall' \in {"0", "1"}
      /\ exit' \in {"running", "0", "1", "killed"}
      /\ shell' \in {"none", "running", "zero", "nonzero", "killed"}
  <2>1. ASSUME NEW ok \in BOOLEAN, exit = "running", Finish(ok)
        PROVE  /\ at' \in DOMAIN Scripts /\ overall' \in {"0", "1"}
               /\ exit' \in {"running", "0", "1", "killed"}
               /\ shell' \in {"none", "running", "zero", "nonzero", "killed"}
      BY <2>1, FinishFacts, ScriptFacts
  <2>2. CASE RunScript \/ Reap \/ ScriptDies
      BY <2>1, <2>2, FinishingSteps
  <2>3. CASE ~(RunScript \/ Reap \/ ScriptDies)
      BY <2>3, ScriptFacts DEF TypeOK, Next, Shell, Begin, Precheck, CheckBudget,
         Aggregate, CloudReturns, TimesOut, CommandEnds, CallEnds, OldProgramEnds,
         Killed, StrayEnds, RunAgain, vars
  <2> QED
      BY <2>2, <2>3
<1>6. cl'.cell \in 1..Cells /\ cl'.round \in 1..(Reps + 1)
  <2>1. CASE CallEnds
      BY <2>1, CallFacts DEF LoopState, Round, Cell
  <2>2. CASE Precheck \/ CheckBudget \/ Aggregate
    <3>1. cl'.cell = cl.cell /\ cl'.round = cl.round
        BY <2>2 DEF Precheck, CheckBudget, Aggregate, CloudEnds, LoopInv, LoopState
    <3> QED
        BY <3>1 DEF TypeOK
  <2>3. CASE ~(CallEnds \/ Precheck \/ CheckBudget \/ Aggregate)
    <3>1. cl' = cl \/ cl' = FreshLoop
        BY <2>3 DEF Next, Shell, RunScript, Begin, Reap, CloudReturns, TimesOut,
           CommandEnds, ScriptDies, OldProgramEnds, Killed, StrayEnds, RunAgain,
           Finish, vars
    <3> QED
        BY <3>1, FreshFacts, PipelineAssumption DEF TypeOK
  <2> QED
      BY <2>1, <2>2, <2>3
<1> QED
    BY <1>2, <1>3, <1>4, <1>5, <1>6 DEF TypeOK

-----------------------------------------------------------------------------
(* The loop of the cloud benchmark.                                        *)

\* Every step of the loop keeps its counts a function of round and cell.
LEMMA NextLoopInv == IInv /\ [Next]_vars => LoopInv'
<1> SUFFICES ASSUME IInv, [Next]_vars PROVE LoopInv'
    OBVIOUS
<1> USE PipelineAssumption
<1>0. LoopInv /\ cl \in LoopState /\ cl.round \in 1..(Reps + 1) /\ cl.cell \in 1..Cells
      /\ cl.tried \in [1..Cells -> Nat]
    BY DEF IInv, LoopInv, LoopState, Round, Cell, Count
<1>1. CASE cl' = FreshLoop
    BY <1>1, FreshFacts DEF LoopInv
<1>2. CASE CallEnds
  <2>1. /\ cl.round \in 1..Reps /\ cl' \in LoopState /\ cl'.phase = "check"
        /\ cl'.cell = IF cl.cell < Cells THEN cl.cell + 1 ELSE 1
        /\ cl'.round = IF cl.cell < Cells THEN cl.round ELSE cl.round + 1
        /\ \A c \in 1..Cells : cl'.tried[c] =
              IF c = cl.cell THEN cl.tried[c] + 1 ELSE cl.tried[c]
      BY <1>0, <1>2, CallFacts
  <2>2. \A c \in 1..Cells :
            cl'.tried[c] = IF c < cl'.cell THEN cl'.round ELSE cl'.round - 1
    <3> TAKE c \in 1..Cells
    <3>1. /\ cl.tried[c] = IF c < cl.cell THEN cl.round ELSE cl.round - 1
          /\ cl'.tried[c] = IF c = cl.cell THEN cl.tried[c] + 1 ELSE cl.tried[c]
        BY <1>0, <2>1 DEF LoopInv
    <3>2. CASE cl.cell < Cells
        BY <1>0, <2>1, <3>1, <3>2
    <3>3. CASE ~(cl.cell < Cells)
        BY <1>0, <2>1, <3>1, <3>3
    <3> QED
        BY <3>2, <3>3
  <2>3. cl'.round = Reps + 1 => cl'.cell = 1
      BY <1>0, <2>1
  <2> QED
      BY <2>1, <2>2, <2>3 DEF LoopInv
<1>3. CASE CheckBudget
  <2>1. /\ cl' \in LoopState /\ cl'.cell = cl.cell /\ cl'.round = cl.round
        /\ cl'.tried = cl.tried
        /\ \/ cl'.phase = "aggregate" /\ (cl.round > Reps \/ cl'.budget_hit)
           \/ cl'.phase = "call" /\ cl.round <= Reps
    <3>1. \/ cl' = [cl EXCEPT !.phase = "aggregate"] /\ cl.round > Reps
          \/ cl' = [cl EXCEPT !.phase = "aggregate", !.budget_hit = TRUE]
          \/ cl' = [cl EXCEPT !.phase = "call"] /\ cl.round <= Reps
        BY <1>3 DEF CheckBudget
    <3>2. cl' \in LoopState
        BY <1>0, <3>1, LoopUpdates DEF Phase
    <3> QED
        BY <1>0, <3>1, <3>2 DEF LoopState
  <2> QED
      BY <1>0, <2>1 DEF LoopInv
<1>4. CASE Precheck \/ Aggregate
  <2>1. /\ cl' \in LoopState /\ cl'.cell = cl.cell /\ cl'.round = cl.round
        /\ cl'.tried = cl.tried /\ cl'.samples = cl.samples
        /\ cl'.budget_hit = cl.budget_hit /\ cl'.phase \in {"check", "done"}
    <3>1. \/ cl' = [cl EXCEPT !.phase = "check"]
          \/ cl' = [cl EXCEPT !.phase = "done"]
        BY <1>4 DEF Precheck, Aggregate, CloudEnds
    <3>2. cl' \in LoopState
        BY <1>0, <3>1, LoopUpdates DEF Phase
    <3> QED
        BY <1>0, <3>1, <3>2 DEF LoopState
  <2>2. cl'.phase = "done" /\ shell' \in {"running", "zero"} =>
            /\ \E c \in 1..Cells : cl.samples[c] > 0
            /\ cl.budget_hit \/ cl.round = Reps + 1
    <3>1. CASE Precheck
        BY <1>0, <3>1 DEF Precheck, CloudEnds, LoopState
    <3>2. CASE Aggregate
      <4>1. cl.phase = "aggregate"
          BY <3>2 DEF Aggregate
      <4> QED
          BY <1>0, <3>2, <4>1 DEF Aggregate, LoopInv
    <3> QED
        BY <1>4, <3>1, <3>2
  <2> QED
      BY <1>0, <2>1, <2>2 DEF LoopInv
<1>5. CASE cl' = cl
  <2>1. shell' \in {"running", "zero"} /\ cl.phase = "done" =>
            shell \in {"running", "zero"}
      BY <1>5, FreshFacts DEF IInv, ShellInv, Next, Shell, RunScript, Begin, Reap,
         Precheck, CheckBudget, Aggregate, CloudReturns, CloudRuns, TimesOut,
         CommandEnds, CallEnds, ScriptDies, OldProgramEnds, Killed, StrayEnds,
         RunAgain, Finish, vars
  <2> QED
      BY <1>0, <1>5, <2>1 DEF LoopInv
<1> QED
    BY <1>1, <1>2, <1>3, <1>4, <1>5 DEF Next, Shell, RunScript, Begin, Reap,
       CloudReturns, TimesOut, CommandEnds, ScriptDies, OldProgramEnds, Killed,
       StrayEnds, RunAgain, Finish, vars

-----------------------------------------------------------------------------
(* The shell and the scripts left behind.                                  *)

\* The steps that leave the script where it is.
Inside == \/ Begin \/ Precheck \/ CheckBudget \/ Aggregate \/ CloudReturns
          \/ TimesOut \/ CommandEnds \/ CallEnds \/ OldProgramEnds \/ StrayEnds

\* Every step is of one of these kinds.
LEMMA Kinds ==
    [Next]_vars => \/ RunScript \/ Reap \/ ScriptDies
                   \/ Inside \/ Killed \/ RunAgain \/ UNCHANGED vars
BY DEF Next, Shell, Inside

\* What they leave alone.
LEMMA InsideFacts ==
    ASSUME Inside
    PROVE  /\ UNCHANGED <<run, cloud, at, ledger, overall, exit>>
           /\ script' = script /\ (InCloud' <=> InCloud) /\ Mine' = Mine
<1>1. UNCHANGED <<run, cloud, at, ledger, overall, exit>>
  <2>1. CASE CallEnds
      BY <2>1 DEF CallEnds
  <2>2. CASE ~CallEnds
      BY <2>2 DEF Inside, Begin, Precheck, CheckBudget, Aggregate, CloudReturns,
         TimesOut, CommandEnds, OldProgramEnds, StrayEnds
  <2> QED
      BY <2>1, <2>2
<1> QED
    BY <1>1 DEF script, InCloud, Mine, Program

\* Every step leaves a shell and a loop that fit the script.
LEMMA NextShellInv == IInv /\ [Next]_vars => ShellInv'
<1> SUFFICES ASSUME IInv, [Next]_vars PROVE ShellInv'
    OBVIOUS
<1>1. TypeOK /\ LoopInv /\ ShellInv
    BY DEF IInv
<1>2. CASE shell' = "none" /\ cl' = FreshLoop
    BY <1>2 DEF ShellInv
<1>3. CASE RunScript \/ Reap \/ ScriptDies
    BY <1>1, <1>2, <1>3, FinishingSteps, FinishFacts
<1>4. CASE Killed \/ RunAgain
    BY <1>2, <1>4 DEF Killed, RunAgain
<1>5. CASE Inside
  <2>1. script' = script /\ (InCloud' <=> InCloud) /\ exit' = exit
      BY <1>5, InsideFacts
  <2>2. CASE Begin
      BY <1>1, <2>1, <2>2 DEF ShellInv, Begin
  <2>3. CASE CommandEnds \/ TimesOut
      BY <1>1, <2>1, <2>3 DEF ShellInv, CommandEnds, TimesOut
  <2>4. CASE CallEnds
      BY <1>1, <2>1, <2>4 DEF ShellInv, CallEnds, CloudRuns
  <2>5. CASE Precheck \/ CheckBudget \/ Aggregate \/ CloudReturns
    <3>1. InCloud /\ shell = "running" /\ exit = "running"
        BY <2>5 DEF Precheck, CheckBudget, Aggregate, CloudReturns, CloudRuns
    <3>2. shell' \in {"running", "nonzero", "zero"}
        BY <2>5, <3>1 DEF Precheck, CheckBudget, Aggregate, CloudReturns
    <3>3. shell' = "zero" => cl.phase = "done" /\ cl' = cl
        BY <2>5, <3>1 DEF Precheck, CheckBudget, Aggregate, CloudReturns
    <3> QED
        BY <1>1, <2>1, <3>1, <3>2, <3>3 DEF ShellInv
  <2>6. CASE OldProgramEnds \/ StrayEnds
      BY <1>1, <2>1, <2>6 DEF ShellInv, OldProgramEnds, StrayEnds
  <2> QED
      BY <1>5, <2>2, <2>3, <2>4, <2>5, <2>6 DEF Inside
<1>6. CASE UNCHANGED vars
    BY <1>1, <1>6 DEF ShellInv, vars, InCloud, script
<1> QED
    BY <1>3, <1>4, <1>5, <1>6, Kinds

\* Only a run that is spoilt by it leaves a script behind.
LEMMA NextStrayInv == IInv /\ [Next]_vars => StrayInv'
<1> SUFFICES ASSUME IInv, [Next]_vars PROVE StrayInv'
    OBVIOUS
<1>1. TypeOK /\ ShellInv /\ StrayInv /\ run \in Nat
      /\ \A p \in stray : p.run \in Nat
    BY DEF IInv, TypeOK
<1>2. Mine.run = run
    BY DEF Mine, Program
<1>3. CASE /\ run' = run /\ stray' \subseteq stray
           /\ Unspoilt' => Unspoilt /\ (company' # "leftOver" => company # "leftOver")
    BY <1>1, <1>3 DEF StrayInv
<1>4. CASE run' = run /\ stray' \subseteq stray \cup {Mine} /\ ~Unspoilt'
    BY <1>1, <1>2, <1>4 DEF StrayInv
<1>5. CASE RunScript \/ Reap \/ ScriptDies
  <2>1. CASE overall' = "0"
      BY <1>1, <1>3, <1>5, <2>1, GoodEndings DEF Unspoilt
  <2>2. CASE overall' # "0"
      BY <1>4, <1>5, <2>2 DEF Unspoilt, RunScript, Reap, ScriptDies
  <2> QED
      BY <2>1, <2>2
<1>6. CASE Killed
    BY <1>4, <1>6 DEF Killed, Unspoilt
<1>7. CASE RunAgain
    BY <1>1, <1>7 DEF RunAgain, StrayInv, Company
<1>8. CASE Inside
  <2>1. UNCHANGED <<run, overall, exit>>
      BY <1>8, InsideFacts
  <2>2. stray' \subseteq stray /\ (company' # "leftOver" => company # "leftOver")
    <3>1. CASE CallEnds
        BY <3>1 DEF CallEnds
    <3>2. CASE ~CallEnds
        BY <1>8, <3>2 DEF Inside, Begin, Launch, Precheck, CheckBudget, Aggregate,
           CloudReturns, TimesOut, CommandEnds, OldProgramEnds, StrayEnds
    <3> QED
        BY <3>1, <3>2
  <2> QED
      BY <1>3, <2>1, <2>2 DEF Unspoilt
<1>9. CASE UNCHANGED vars
    BY <1>3, <1>9 DEF vars, Unspoilt
<1> QED
    BY <1>5, <1>6, <1>7, <1>8, <1>9, Kinds

-----------------------------------------------------------------------------
(* The programs that run.                                                  *)

\* An unspoilt run that found the machine quiet launches only when it is quiet.
LEMMA NextLiveInv == IInv /\ [Next]_vars => LiveInv'
<1> SUFFICES ASSUME IInv, [Next]_vars, Unspoilt', company' # "leftOver"
             PROVE  /\ company' = "none"
                    /\ exit' = "running" /\ live' # {} =>
                          /\ live' = {Mine'}
                          /\ \/ shell' = "killed"
                             \/ shell' = "running" /\ (InCloud' => cl'.phase = "call")
    BY DEF LiveInv
<1>1. TypeOK /\ LoopInv /\ ShellInv /\ StrayInv /\ LiveInv
    BY DEF IInv
<1>2. CASE RunScript \/ Reap \/ ScriptDies
  <2>1. /\ Unspoilt /\ company' = company /\ live' = live
        /\ exit = "running" /\ shell \in {"none", "zero"}
      BY <1>1, <1>2, GoodEndings DEF Unspoilt
  <2> QED
      BY <1>1, <2>1 DEF LiveInv
<1>3. CASE Inside
  <2>1. /\ Unspoilt <=> Unspoilt'
        /\ script' = script /\ (InCloud' <=> InCloud) /\ Mine' = Mine /\ exit' = exit
      BY <1>3, InsideFacts DEF Unspoilt
  <2>2. ASSUME Unspoilt, company # "leftOver"
        PROVE  /\ company = "none"
               /\ exit = "running" /\ live # {} =>
                     /\ live = {Mine}
                     /\ \/ shell = "killed"
                        \/ shell = "running" /\ (InCloud => cl.phase = "call")
      BY <1>1, <2>2 DEF LiveInv
  <2>3. CASE Begin
      BY <2>1, <2>2, <2>3 DEF Begin, Launch
  <2>4. CASE CheckBudget
    <3>1. shell = "running" /\ InCloud /\ cl.phase = "check" /\ exit = "running"
          /\ shell' = shell
        BY <2>4 DEF CheckBudget, CloudRuns
    <3>2. CASE UNCHANGED <<live, company>>
        BY <2>1, <2>2, <3>1, <3>2
    <3>3. CASE Launch /\ cl' = [cl EXCEPT !.phase = "call"]
      <4>1. cl'.phase = "call"
          BY <1>1, <3>3 DEF LoopInv, LoopState
      <4> QED
          BY <2>1, <2>2, <3>1, <3>3, <4>1 DEF Launch
    <3> QED
        BY <2>4, <3>2, <3>3 DEF CheckBudget
  <2>5. CASE CallEnds
      BY <2>1, <2>2, <2>5 DEF CallEnds
  <2>6. CASE CommandEnds
      BY <2>1, <2>2, <2>6 DEF CommandEnds
  <2>7. CASE TimesOut
      BY <2>1, <2>2, <2>7 DEF TimesOut
  <2>8. CASE Precheck \/ Aggregate \/ CloudReturns
    <3>1. /\ shell = "running" /\ InCloud /\ exit = "running"
          /\ cl.phase # "call" /\ UNCHANGED <<live, company>>
        BY <2>8 DEF Precheck, Aggregate, CloudReturns, CloudRuns
    <3> QED
        BY <2>1, <2>2, <3>1
  <2>9. CASE OldProgramEnds
      BY <2>1, <2>2, <2>9 DEF OldProgramEnds
  <2>10. CASE StrayEnds
      BY <2>1, <2>2, <2>10 DEF StrayEnds
  <2> QED
      BY <1>3, <2>3, <2>4, <2>5, <2>6, <2>7, <2>8, <2>9, <2>10 DEF Inside
<1>4. CASE Killed
    BY <1>4 DEF Killed, Unspoilt
<1>5. CASE RunAgain
    BY <1>5 DEF RunAgain, Company
<1>6. CASE UNCHANGED vars
    BY <1>1, <1>6 DEF vars, Unspoilt, LiveInv, Mine, Program, InCloud, script
<1> QED
    BY <1>2, <1>3, <1>4, <1>5, <1>6, Kinds

-----------------------------------------------------------------------------
(* The lines.                                                              *)

\* What one more line of the script at hand changes.
LEMMA OneMore ==
    ASSUME NEW n, NEW status, run' = run,
           lines' = lines \cup {Line(run, script, n, status)}
    PROVE  /\ \A s : s # script => Own(s)' = Own(s)
           /\ Own(script) = {} =>
                 {l \in lines' : l.run = run /\ l.script = script}
                     = {Line(run, script, n, status)}
<1>1. Line(run, script, n, status).run = run
      /\ Line(run, script, n, status).script = script
    BY DEF Line
<1> QED
    BY <1>1 DEF Own

\* What one more line of another run changes.
LEMMA NotMine ==
    ASSUME NEW p, p.run # run, NEW n, NEW status, run' = run,
           lines' = lines \cup {Line(p.run, p.script, n, status)}
    PROVE  \A s : Own(s)' = Own(s)
<1>1. Line(p.run, p.script, n, status).run # run
    BY DEF Line
<1> QED
    BY <1>1 DEF Own

\* A script that ends well leaves its one OK.
LEMMA ScriptIsClean ==
    ASSUME TypeOK, ShellInv, SoFar, RunScript \/ Reap \/ ScriptDies, overall' = "0"
    PROVE  /\ \A i \in 1..8 : i <= at => Clean(Scripts[i])'
           /\ \A i \in 1..8 : i > at => Own(Scripts[i])' = {}
<1>1. /\ shell \in {"none", "zero"} /\ run' = run
      /\ IF CloudRecorded THEN lines' = lines
         ELSE lines' = lines \cup {Line(run, script, script, "OK")}
    BY GoodEndings
<1>2. at \in 1..8 /\ \A i \in 1..8 : i # at => Scripts[i] # script
    BY ScriptFacts DEF TypeOK, script
<1>3. \A s : s # script => Own(s)' = Own(s)
  <2>1. CASE CloudRecorded
      BY <1>1, <2>1 DEF Own
  <2>2. CASE ~CloudRecorded
      BY <1>1, <2>2, OneMore
  <2> QED
      BY <2>1, <2>2
<1>4. \E n : {l \in lines' : l.run = run /\ l.script = script}
                = {Line(run, script, n, "OK")}
  <2>1. CASE CloudRecorded
      BY <1>1, <2>1 DEF SoFar, Clean, Own
  <2>2. CASE ~CloudRecorded
      BY <1>1, <2>2, OneMore DEF SoFar
  <2> QED
      BY <2>1, <2>2
<1>5. \A s : s = script => Clean(s)'
    BY <1>1, <1>4 DEF Clean, Own, Line
<1>6. \A s : s # script => (Clean(s) => Clean(s)')
    BY <1>1, <1>3 DEF Clean
<1> QED
  <2>1. \A i \in 1..8 : i <= at => Clean(Scripts[i])'
    <3> TAKE i \in 1..8
    <3>1. CASE i = at
        BY <1>5, <3>1 DEF script
    <3>2. CASE i < at
        BY <1>2, <1>6, <3>2, ScriptFacts DEF SoFar
    <3> QED
        BY <1>2, <3>1, <3>2
  <2>2. \A i \in 1..8 : i > at => Own(Scripts[i])' = {}
      BY <1>2, <1>3, ScriptFacts DEF SoFar
  <2> QED
      BY <2>1, <2>2

\* The lines of an unspoilt run, in each of its steps.
LEMMA NextSoFar ==
    IInv /\ [Next]_vars /\ overall' = "0" /\ exit' = "running" => SoFar'
<1> SUFFICES ASSUME IInv, [Next]_vars, overall' = "0", exit' = "running" PROVE SoFar'
    OBVIOUS
<1>1. TypeOK /\ LoopInv /\ ShellInv /\ StrayInv /\ LinesInv
      /\ (overall = "0" /\ exit = "running" => SoFar)
    BY DEF IInv, LinesInv
<1>2. at \in 1..8 /\ \A i \in 1..8 : i # at => Scripts[i] # script
    BY <1>1, ScriptFacts DEF TypeOK, script
<1>3. CASE RunScript \/ Reap \/ ScriptDies
  <2>1. /\ SoFar /\ at' = at + 1 /\ cl' = FreshLoop /\ shell' = "none"
        /\ script # "emit_ledger"
    <3>1. exit' # "0"
        OBVIOUS
    <3> QED
        BY <1>1, <1>3, <3>1, GoodEndings
  <2>2. /\ \A i \in 1..8 : i <= at => Clean(Scripts[i])'
        /\ \A i \in 1..8 : i > at => Own(Scripts[i])' = {}
      BY <1>1, <1>3, <2>1, ScriptIsClean
  <2>3. at + 1 \in 1..8
      BY <1>2, <2>1, ScriptFacts DEF script
  <2>4. ~CloudRecorded'
      BY <2>1, FreshFacts DEF CloudRecorded
  <2>5. \A i \in 1..8 : i = at' => Own(Scripts[i])' = {}
      BY <1>2, <2>1, <2>2
  <2>6. Own(script)' = {}
    <3>1. script' = Scripts[at + 1]
        BY <2>1 DEF script
    <3> QED
        BY <2>1, <2>3, <2>5, <3>1 DEF Own
  <2>7. \A i \in 1..8 : i < at' => Clean(Scripts[i])'
      BY <1>2, <2>1, <2>2
  <2>8. \A i \in 1..8 : i > at' => Own(Scripts[i])' = {}
      BY <1>2, <2>1, <2>2
  <2> QED
      BY <2>4, <2>6, <2>7, <2>8, ScriptFacts DEF SoFar
<1>4. CASE Inside
  <2>1. /\ SoFar /\ UNCHANGED <<run, at, exit>> /\ Unspoilt
        /\ script' = script /\ (InCloud' <=> InCloud)
      BY <1>1, <1>4, InsideFacts DEF Unspoilt
  <2>2. ASSUME \A s : Own(s)' = Own(s), CloudRecorded' <=> CloudRecorded,
               shell' \in {"none", "running", "zero"} =>
                   shell \in {"none", "running", "zero"}
        PROVE  SoFar'
    <3>1. \A s : Clean(s)' <=> Clean(s)
        BY <2>1, <2>2 DEF Clean
    <3>2. Own(script)' = Own(script) /\ (Clean(script)' <=> Clean(script))
        BY <2>1, <2>2, <3>1 DEF Own, Clean
    <3> QED
        BY <2>1, <2>2, <3>1, <3>2 DEF SoFar
  <2>3. ASSUME lines' = lines PROVE \A s : Own(s)' = Own(s)
      BY <2>1, <2>3 DEF Own
  <2>4. CASE StrayEnds
    <3>1. PICK p \in stray : \/ lines' = lines
                             \/ lines' = lines \cup {Line(p.run, p.script, p.script, "OK")}
        BY <2>4 DEF StrayEnds
    <3>2. p.run # run
        BY <1>1, <2>1 DEF StrayInv
    <3>3. \A s : Own(s)' = Own(s)
        BY <2>1, <2>3, <3>1, <3>2, NotMine
    <3>4. (CloudRecorded' <=> CloudRecorded) /\ shell' = shell
        BY <2>1, <2>4 DEF StrayEnds, CloudRecorded
    <3> QED
        BY <2>2, <3>3, <3>4
  <2>5. CASE Begin \/ TimesOut \/ CommandEnds \/ CloudReturns \/ OldProgramEnds
    <3>1. lines' = lines /\ cl' = cl
        BY <2>5 DEF Begin, TimesOut, CommandEnds, CloudReturns, OldProgramEnds
    <3>2. shell' \in {"none", "running", "zero"} => shell \in {"none", "running", "zero"}
        BY <2>5 DEF Begin, TimesOut, CommandEnds, CloudReturns, CloudRuns, OldProgramEnds
    <3>3. CloudRecorded' <=> CloudRecorded
        BY <2>1, <3>1 DEF CloudRecorded
    <3> QED
        BY <2>2, <2>3, <3>1, <3>2, <3>3
  <2>6. CASE CallEnds
    <3>1. lines' = lines /\ shell' = shell /\ cl.phase = "call" /\ cl'.phase = "check"
        BY <1>1, <2>6, CallFacts DEF CallEnds
    <3>2. CloudRecorded' <=> CloudRecorded
        BY <2>1, <3>1 DEF CloudRecorded
    <3> QED
        BY <2>2, <2>3, <3>1, <3>2
  <2>7. CASE CheckBudget
    <3>1. lines' = lines /\ shell' = shell /\ cl.phase = "check"
        BY <2>7 DEF CheckBudget
    <3>2. \/ cl' = [cl EXCEPT !.phase = "aggregate"]
          \/ cl' = [cl EXCEPT !.phase = "aggregate", !.budget_hit = TRUE]
          \/ cl' = [cl EXCEPT !.phase = "call"]
        BY <2>7 DEF CheckBudget
    <3>3. cl'.phase # "done"
        BY <1>1, <3>2 DEF LoopInv, LoopState
    <3>4. CloudRecorded' <=> CloudRecorded
        BY <2>1, <3>1, <3>3 DEF CloudRecorded
    <3> QED
        BY <2>2, <2>3, <3>1, <3>4
  <2>8. CASE Precheck \/ Aggregate
    <3>1. shell = "running" /\ cl.phase \in {"precheck", "aggregate"} /\ InCloud
        BY <2>8 DEF Precheck, Aggregate, CloudRuns
    <3>2. \/ cl' = [cl EXCEPT !.phase = "check"] /\ UNCHANGED <<lines, shell>>
          \/ CloudEnds("FAIL") /\ shell' = "nonzero"
          \/ CloudEnds("OK")
        BY <2>8 DEF Precheck, Aggregate
    <3>3. CASE cl' = [cl EXCEPT !.phase = "check"] /\ UNCHANGED <<lines, shell>>
      <4>1. cl'.phase = "check"
          BY <1>1, <3>3 DEF LoopInv, LoopState
      <4>2. CloudRecorded' <=> CloudRecorded
          BY <2>1, <3>1, <4>1 DEF CloudRecorded
      <4> QED
          BY <2>2, <2>3, <3>1, <3>3, <4>2
    <3>4. CASE \E status : CloudEnds(status) /\ (shell' = "nonzero" \/ status = "OK")
      <4>1. PICK status : CloudEnds(status) /\ (shell' = "nonzero" \/ status = "OK")
          BY <3>4
      <4>2. /\ lines' = lines \cup {Line(run, script, "cloud_throughput_bench", status)}
            /\ cl'.phase = "done"
          BY <1>1, <4>1 DEF CloudEnds, Record, LoopInv, LoopState
      <4>3. /\ \A s : s # script => Own(s)' = Own(s)
            /\ Own(script) = {} =>
                  {l \in lines' : l.run = run /\ l.script = script}
                      = {Line(run, script, "cloud_throughput_bench", status)}
          BY <2>1, <4>2, OneMore
      <4>4. \A s : s # script => (Clean(s)' <=> Clean(s))
          BY <2>1, <4>3 DEF Clean
      <4>5. Own(script) = {}
          BY <2>1, <3>1 DEF SoFar, CloudRecorded
      <4>6. CloudRecorded'
          BY <2>1, <3>1, <4>2 DEF CloudRecorded
      <4>7. status = "OK" => Clean(script)'
          BY <2>1, <4>3, <4>5 DEF Clean, Own
      <4>8. /\ \A i \in 1..8 : i < at => Clean(Scripts[i])'
            /\ \A i \in 1..8 : i > at => Own(Scripts[i])' = {}
          BY <1>2, <2>1, <4>3, <4>4, ScriptFacts DEF SoFar
      <4> QED
          BY <2>1, <4>1, <4>6, <4>7, <4>8, ScriptFacts DEF SoFar
    <3> QED
        BY <3>2, <3>3, <3>4
  <2> QED
      BY <1>4, <2>4, <2>5, <2>6, <2>7, <2>8 DEF Inside
<1>5. CASE Killed
    BY <1>5 DEF Killed
<1>6. CASE RunAgain
  <2>1. at' = 1 /\ lines' = {} /\ cl' = FreshLoop
      BY <1>6 DEF RunAgain, Truncate
  <2>2. \A s : Own(s)' = {}
      BY <2>1 DEF Own
  <2>3. ~CloudRecorded' /\ Own(script)' = {}
      BY <2>1, FreshFacts DEF CloudRecorded, Own
  <2> QED
      BY <2>1, <2>2, <2>3, ScriptFacts DEF SoFar
<1>7. CASE UNCHANGED vars
  <2>1. SoFar /\ UNCHANGED <<run, at, lines, cl, cloud, shell>>
      BY <1>1, <1>7 DEF vars
  <2> QED
      BY <2>1 DEF SoFar, Clean, Own, CloudRecorded, InCloud, script
<1> QED
    BY <1>3, <1>4, <1>5, <1>6, <1>7, Kinds

\* Only the last script of an unspoilt run ends a run with 0.
LEMMA GoodEnd ==
    ASSUME IInv, RunScript \/ Reap \/ ScriptDies, exit' = "0"
    PROVE  /\ overall' = "0" /\ script = "emit_ledger" /\ at = 8 /\ SoFar
           /\ UNCHANGED <<run, company>> /\ ledger' = lines /\ Unspoilt
<1>1. TypeOK /\ ShellInv /\ LinesInv
    BY DEF IInv
<1>2. exit = "running" /\ \E ok \in BOOLEAN : Finish(ok)
    BY FinishingSteps
<1>3. overall' = "0"
    BY <1>1, <1>2, FinishFacts
<1>4. script = "emit_ledger" /\ overall = "0" /\ ledger' = lines
      /\ UNCHANGED <<run, company>>
  <2>1. exit' # "running"
      OBVIOUS
  <2> QED
      BY <1>1, <1>3, <2>1, GoodEndings
<1>5. at = 8
    BY <1>1, <1>4, ScriptFacts DEF TypeOK, script
<1> QED
    BY <1>1, <1>2, <1>3, <1>4, <1>5 DEF LinesInv, Unspoilt

\* What a run that ended leaves alone.
LEMMA Ended ==
    ASSUME IInv, Inside, exit = "0"
    PROVE  UNCHANGED <<run, exit, overall, company, ledger>>
           /\ \A s : Own(s)' = Own(s)
<1>1. OldProgramEnds \/ StrayEnds
    BY DEF Inside, Begin, Precheck, CheckBudget, Aggregate, CloudReturns, CloudRuns,
       TimesOut, CommandEnds, CallEnds
<1>2. UNCHANGED <<run, exit, overall, company, ledger>>
    BY <1>1 DEF OldProgramEnds, StrayEnds
<1>3. CASE lines' = lines
    BY <1>2, <1>3 DEF Own
<1>4. CASE StrayEnds /\ lines' # lines
  <2>1. PICK p \in stray : lines' = lines \cup {Line(p.run, p.script, p.script, "OK")}
      BY <1>4 DEF StrayEnds
  <2>2. p.run # run
      BY DEF IInv, LinesInv, StrayInv, Unspoilt
  <2> QED
      BY <1>2, <2>1, <2>2, NotMine
<1> QED
    BY <1>1, <1>2, <1>3, <1>4 DEF OldProgramEnds

\* Every step keeps the lines of an unspoilt run as they should be.
LEMMA NextLinesInv == IInv /\ [Next]_vars => LinesInv'
<1> SUFFICES ASSUME IInv, [Next]_vars PROVE LinesInv'
    OBVIOUS
<1>0. TypeOK /\ ShellInv /\ StrayInv /\ LinesInv
    BY DEF IInv
<1>1. overall' = "0" /\ exit' = "running" => SoFar'
    BY NextSoFar
<1>2. exit' = "0" => overall' = "0" /\ \A s \in ScriptNames : Clean(s)'
  <2> SUFFICES ASSUME exit' = "0"
               PROVE  overall' = "0" /\ \A s \in ScriptNames : Clean(s)'
      OBVIOUS
  <2>1. CASE RunScript \/ Reap \/ ScriptDies
    <3>1. overall' = "0" /\ SoFar /\ at = 8
        BY <2>1, GoodEnd
    <3>2. \A i \in 1..8 : Clean(Scripts[i])'
        BY <1>0, <2>1, <3>1, ScriptIsClean
    <3> QED
        BY <3>1, <3>2, ScriptFacts DEF ScriptNames
  <2>2. CASE Inside
    <3>1. exit = "0"
        BY <2>2, InsideFacts
    <3>2. UNCHANGED <<run, overall>> /\ \A s : Own(s)' = Own(s)
        BY <2>2, <3>1, Ended
    <3>3. \A s : Clean(s)' <=> Clean(s)
        BY <3>2 DEF Clean
    <3> QED
        BY <1>0, <3>1, <3>2, <3>3 DEF LinesInv
  <2>3. ~Killed /\ ~RunAgain
      BY DEF Killed, RunAgain
  <2>4. CASE UNCHANGED vars
      BY <1>0, <2>4 DEF vars, LinesInv, Clean, Own
  <2> QED
      BY <2>1, <2>2, <2>3, <2>4, Kinds
<1>3. Unspoilt' /\ company' # "leftOver" => \A l \in lines' : l.run = run'
  <2> SUFFICES ASSUME Unspoilt', company' # "leftOver"
               PROVE  \A l \in lines' : l.run = run'
      OBVIOUS
  <2>0. \A n, status : Line(run, script, n, status).run = run
      BY DEF Line
  <2>1. ASSUME Unspoilt, company # "leftOver", run' = run,
               \/ lines' = lines
               \/ \E n, status : lines' = lines \cup {Line(run, script, n, status)}
        PROVE  \A l \in lines' : l.run = run'
      BY <1>0, <2>0, <2>1 DEF LinesInv
  <2>2. CASE RunScript \/ Reap \/ ScriptDies
    <3>1. overall' = "0"
        BY DEF Unspoilt
    <3>2. /\ overall = "0" /\ exit = "running" /\ UNCHANGED <<run, company>>
          /\ IF CloudRecorded THEN lines' = lines
             ELSE lines' = lines \cup {Line(run, script, script, "OK")}
        BY <1>0, <2>2, <3>1, GoodEndings
    <3> QED
        BY <2>1, <3>2 DEF Unspoilt
  <2>3. CASE Inside
    <3>1. Unspoilt /\ run' = run
        BY <2>3, InsideFacts DEF Unspoilt
    <3>2. CASE StrayEnds
      <4>1. company # "leftOver"
          BY <3>2 DEF StrayEnds
      <4>2. FALSE
          BY <1>0, <3>1, <3>2, <4>1 DEF StrayInv, StrayEnds
      <4> QED
          BY <4>2
    <3>3. CASE CallEnds
        BY <2>1, <3>1, <3>3 DEF CallEnds
    <3>4. CASE Precheck \/ Aggregate
      <4>1. /\ company' = company
            /\ lines' = lines \/ \E status : CloudEnds(status)
          BY <3>4 DEF Precheck, Aggregate
      <4>2. \A status : CloudEnds(status) =>
                lines' = lines \cup {Line(run, script, "cloud_throughput_bench", status)}
          BY DEF CloudEnds, Record
      <4> QED
          BY <2>1, <3>1, <4>1, <4>2
    <3>5. CASE Begin \/ CheckBudget \/ CloudReturns \/ TimesOut \/ CommandEnds
               \/ OldProgramEnds
      <4>1. lines' = lines /\ company # "leftOver"
          BY <3>5 DEF Begin, CheckBudget, Launch, CloudReturns, TimesOut, CommandEnds,
             OldProgramEnds
      <4> QED
          BY <2>1, <3>1, <4>1
    <3> QED
        BY <2>3, <3>2, <3>3, <3>4, <3>5 DEF Inside
  <2>4. CASE Killed
      BY <2>4 DEF Killed, Unspoilt
  <2>5. CASE RunAgain
      BY <2>5 DEF RunAgain, Truncate
  <2>6. CASE UNCHANGED vars
      BY <2>1, <2>6 DEF vars, Unspoilt
  <2> QED
      BY <2>2, <2>3, <2>4, <2>5, <2>6, Kinds
<1> QED
    BY <1>1, <1>2, <1>3 DEF LinesInv

\* Every step keeps the ledger that of the run that wrote it.
LEMMA NextLedger == IInv /\ [Next]_vars => LedgerIsThisRuns'
<1> SUFFICES ASSUME IInv, [Next]_vars, exit' = "0", company' # "leftOver"
             PROVE  /\ \A l \in ledger' : l.run = run'
                    /\ \A s \in ScriptNames \ {"emit_ledger"} :
                          \E l \in ledger' : l.script = s
    BY DEF LedgerIsThisRuns
<1>0. LinesInv /\ LedgerIsThisRuns
    BY DEF IInv
<1>1. CASE RunScript \/ Reap \/ ScriptDies
  <2>1. /\ SoFar /\ at = 8 /\ UNCHANGED <<run, company>> /\ ledger' = lines
        /\ Unspoilt
      BY <1>1, GoodEnd
  <2>2. \A l \in lines : l.run = run
      BY <1>0, <2>1 DEF LinesInv
  <2>3. ASSUME NEW s \in ScriptNames \ {"emit_ledger"}
        PROVE  \E l \in lines : l.script = s
    <3>1. PICK i \in 1..8 : s = Scripts[i]
        BY ScriptFacts DEF ScriptNames
    <3>2. i < at
        BY <2>1, <3>1, ScriptFacts
    <3>3. Clean(s)
        BY <2>1, <3>1, <3>2, ScriptFacts DEF SoFar
    <3> QED
        BY <3>3 DEF Clean, Own
  <2> QED
      BY <2>1, <2>2, <2>3
<1>2. CASE Inside
  <2>1. exit = "0"
      BY <1>2, InsideFacts
  <2>2. UNCHANGED <<run, company, ledger>>
      BY <1>2, <2>1, Ended
  <2> QED
      BY <1>0, <2>1, <2>2 DEF LedgerIsThisRuns
<1>3. ~Killed /\ ~RunAgain
    BY DEF Killed, RunAgain
<1>4. CASE UNCHANGED vars
    BY <1>0, <1>4 DEF vars, LedgerIsThisRuns
<1> QED
    BY <1>1, <1>2, <1>3, <1>4, Kinds

-----------------------------------------------------------------------------
(* Theorems.                                                               *)

\* run_all.sh and run_cloud_throughput_bench: the parts of the invariant hold
\* together in every state, whatever is killed, outlived or left behind.
THEOREM PipelineInvariance == Spec => []IInv
<1>1. IInv /\ [Next]_vars => IInv'
    BY NextTypeOK, NextLoopInv, NextShellInv, NextStrayInv, NextLinesInv, NextLiveInv,
       NextLedger DEF IInv
<1> QED
    BY <1>1, InitIInv, PTL DEF Spec

\* The variables of run_all.sh and of its stage scripts keep their ranges: the
\* round of the cloud benchmark never goes past the one after the last.
THEOREM PipelineIsTyped == Spec => []TypeOK
<1>1. IInv => TypeOK
    BY DEF IInv
<1> QED
    BY <1>1, PipelineInvariance, PTL

\* run_all.sh exits with 0 only if every script recorded exactly one line of
\* this run, none of them FAIL, and if, on a machine it found quiet, nothing of
\* its own ran beside its measurements.
THEOREM GreenRunsAreClean == Spec => []GreenMeansClean
<1>1. IInv => GreenMeansClean
  <2> SUFFICES ASSUME IInv, exit = "0" PROVE
          /\ \A s \in ScriptNames :
                /\ Cardinality({l \in lines : l.run = run /\ l.script = s}) = 1
                /\ \A l \in {m \in lines : m.run = run /\ m.script = s} :
                      l.status # "FAIL"
          /\ company # "own"
      BY DEF GreenMeansClean
  <2>1. overall = "0" /\ \A s \in ScriptNames : Clean(s)
      BY DEF IInv, LinesInv
  <2>2. ASSUME NEW s \in ScriptNames
        PROVE  /\ Cardinality({l \in lines : l.run = run /\ l.script = s}) = 1
               /\ \A l \in {m \in lines : m.run = run /\ m.script = s} :
                     l.status # "FAIL"
    <3>1. PICK n : {l \in lines : l.run = run /\ l.script = s} = {Line(run, s, n, "OK")}
        BY <2>1 DEF Clean, Own
    <3>2. Cardinality({Line(run, s, n, "OK")}) = 1
        BY FS_Singleton
    <3>3. Line(run, s, n, "OK").status # "FAIL"
        BY DEF Line
    <3> QED
        BY <3>1, <3>2, <3>3
  <2>3. company # "own"
      BY <2>1 DEF IInv, LiveInv, Unspoilt
  <2> QED
      BY <2>2, <2>3
<1> QED
    BY <1>1, PipelineInvariance, PTL

\* run_cloud_throughput_bench calls its cells in turn and records OK only if
\* something was measured and every cell had all its rounds, unless it says
\* that the budget was hit.
THEOREM CloudBenchIsHonest == Spec => []CloudIsHonest
<1>1. IInv => CloudIsHonest
  <2> SUFFICES ASSUME IInv PROVE CloudIsHonest
      OBVIOUS
  <2> USE PipelineAssumption
  <2>1. /\ cl.round \in 1..(Reps + 1) /\ cl.cell \in 1..Cells
        /\ \A c \in 1..Cells :
              cl.tried[c] = IF c < cl.cell THEN cl.round ELSE cl.round - 1
        /\ cl.round = Reps + 1 => cl.cell = 1
        /\ cl.phase = "done" /\ shell \in {"running", "zero"} =>
              /\ \E c \in 1..Cells : cl.samples[c] > 0
              /\ cl.budget_hit \/ cl.round = Reps + 1
      BY DEF IInv, LoopInv, LoopState, Round, Cell
  <2>2. ASSUME NEW c \in 1..Cells, NEW d \in 1..Cells, c < d
        PROVE  cl.tried[c] - cl.tried[d] \in {0, 1}
    <3>1. /\ cl.tried[c] = IF c < cl.cell THEN cl.round ELSE cl.round - 1
          /\ cl.tried[d] = IF d < cl.cell THEN cl.round ELSE cl.round - 1
        BY <2>1
    <3>2. CASE c < cl.cell
        BY <2>1, <3>1, <3>2
    <3>3. CASE ~(c < cl.cell)
      <4>1. ~(d < cl.cell)
          BY <2>1, <2>2, <3>3
      <4> QED
          BY <2>1, <3>1, <3>3, <4>1
    <3> QED
        BY <3>2, <3>3
  <2>3. cl.round = Reps + 1 => \A c \in 1..Cells : cl.tried[c] = Reps
    <3> SUFFICES ASSUME cl.round = Reps + 1, NEW c \in 1..Cells
                 PROVE  cl.tried[c] = Reps
        OBVIOUS
    <3>1. cl.tried[c] = (Reps + 1) - 1
        BY <2>1
    <3> QED
        BY <3>1
  <2> QED
      BY <2>1, <2>2, <2>3 DEF CloudIsHonest
<1> QED
    BY <1>1, PipelineInvariance, PTL

\* emit_ledger.sh: the ledger of a run that exited with 0 lists its own lines
\* only, and some of every script, unless an earlier run left a script behind.
THEOREM LedgersAreTheRuns == Spec => []LedgerIsThisRuns
<1>1. IInv => LedgerIsThisRuns
    BY DEF IInv
<1> QED
    BY <1>1, PipelineInvariance, PTL
==============================================================================
