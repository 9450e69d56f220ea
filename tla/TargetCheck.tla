----------------------------- MODULE TargetCheck -----------------------------
(***************************************************************************)
(* One `polygraph check`: cmd_check's preflight, run_target_check's three  *)
(* evidence layers with their early returns, and main's exit status.       *)
(* The L3 layer is the session of DispatchProbe.                           *)
(***************************************************************************)
EXTENDS DispatchProbe

CONSTANT Configs  \* the target definitions and command lines considered

\* A target JSON file, merged with the command line.
TargetConfig ==
    [level    : 1..3,      \* --level
     l1       : BOOLEAN,   \* l1.enabled
     l2       : BOOLEAN,   \* l2.enabled
     l3       : BOOLEAN,   \* l3.enabled
     adv      : BOOLEAN,   \* l2.advertised_family_label is declared
     loose    : BOOLEAN,   \* its group can capture white space at an end
     fallback : BOOLEAN,   \* l2.fallback_indicator_label is declared
     implicit : BOOLEAN,   \* ad-hoc mode, or implicit_claim in the JSON
     filled   : BOOLEAN,   \* every workload placeholder has a value
     darwin   : BOOLEAN,   \* platform.system() = "Darwin"
     debugger : Debuggers \cup {"auto", "none"}]   \* --l3-debugger

\* The values the refinement mapping adds to the families; no family token
\* is spelled like one of them.
UndeclaredMark == "<undeclared>"
NothingMark == "<nothing claimed>"
AnyMark == "<any kernel>"
LogMark == "<selection log>"

ASSUME MarkAssumption ==
    {UndeclaredMark, NothingMark, AnyMark, LogMark} \cap Families = {}

ASSUME ConfigAssumption == Configs \subseteq TargetConfig

VARIABLES
    cfg,           \* the target and the command line
    stage,         \* the layer being worked on
    l2,            \* what the selection log showed
    advertised,    \* result["advertised"]
    level_reached,
    verdict,
    headline,
    exit_code,     \* result["exit_code"]
    status,        \* the exit status of the process, Running while it runs
    interrupted    \* the process ended on a KeyboardInterrupt

checkVars == <<cfg, stage, l2, advertised, level_reached, verdict, headline,
               exit_code, status, interrupted>>
resultVars == <<verdict, headline, exit_code>>
vars == <<probeVars, checkVars>>

Running == 3
NoVerdict == "none"

Verdicts == {"L1_ONLY", "L2_ONLY", "L2_ADVERTISED_NO_FALLBACK_DETECTED",
             "L2_NO_SIGNAL", "L3_UNAVAILABLE", "L3_TIMEOUT", "L3_ERROR",
             "NO_DISPATCH_OBSERVED", "EXECUTED_NO_ADVERTISED_FEATURE",
             "SILENT_FALLBACK", "HYBRID_DISPATCH", "DISPATCHED",
             "DISPATCHED_ADHOC"}
Headlines == {"MATCH", "MISMATCH", "UNDETERMINED", "L1 ONLY", "UNKNOWN"}

\* matched: some pattern matched; fallback: the fallback indicator did.
L2Result == [adv : Claims, fallback : BOOLEAN, matched : BOOLEAN]
NoL2 == [adv |-> NoClaim, fallback |-> FALSE, matched |-> FALSE]

TypeOK ==
    /\ ProbeTypeOK
    /\ cfg \in Configs
    /\ stage \in {"preflight", "l1", "l2", "l3", "returned", "ended"}
    /\ l2 \in L2Result
    /\ advertised \in Claims
    /\ level_reached \in 0..3
    /\ verdict \in Verdicts \cup {NoVerdict}
    /\ headline \in Headlines \cup {NoVerdict}
    /\ exit_code \in 0..2
    /\ status \in 0..3
    /\ interrupted \in BOOLEAN

Init ==
    /\ ProbeInit
    /\ cfg \in Configs
    /\ stage = "preflight"
    /\ l2 = NoL2
    /\ advertised = NoClaim
    /\ level_reached = 0
    /\ verdict = NoVerdict /\ headline = NoVerdict
    /\ exit_code = 2
    /\ status = Running
    /\ interrupted = FALSE

-----------------------------------------------------------------------------

\* run_target_check returns with this verdict, headline and exit code.
Return(v, h, code) ==
    /\ verdict' = v
    /\ headline' = h
    /\ exit_code' = code
    /\ stage' = "returned"

Stay == UNCHANGED resultVars

\* cmd_check: a bad command line, an unknown or ambiguous target, a missing
\* or non-executable binary ends with 2 before anything is probed.
Preflight ==
    /\ stage = "preflight"
    /\ \/ stage' = "l1" /\ UNCHANGED status
       \/ stage' = "ended" /\ status' = 2
    /\ Stay
    /\ UNCHANGED <<probeVars, cfg, l2, advertised, level_reached, interrupted>>

L1Static ==
    /\ stage = "l1"
    /\ level_reached' = IF cfg.l1 THEN 1 ELSE 0
    /\ IF cfg.level < 2 \/ ~cfg.l2
       THEN Return("L1_ONLY", "L1 ONLY", 2)
       ELSE stage' = "l2" /\ Stay
    /\ UNCHANGED <<probeVars, cfg, l2, advertised, status, interrupted>>

\* build_workload_command raises KeyError: a placeholder has no value.
L2Unfilled ==
    /\ stage = "l2" /\ ~cfg.filled
    /\ Return("L1_ONLY", "UNDETERMINED", 2)
    /\ UNCHANGED <<probeVars, cfg, l2, advertised, level_reached, status,
                   interrupted>>

\* What run_l2_workload can read: nothing at all after a timeout, else
\* whatever the patterns matched, an exit status other than 0 included.
\* A pattern that is not a valid regex counts as matched.
L2Readings ==
    {r \in L2Result :
        /\ r.adv # NoClaim => cfg.adv /\ r.matched
        /\ r.adv.padded => cfg.loose
        /\ r.fallback => cfg.fallback /\ r.matched}

\* L3 is capped by --level, or is not defined for this target.
L2Return(r) ==
    IF cfg.l3
    THEN Return("L2_ONLY", "UNDETERMINED", 2)
    ELSE LET v == render_l2_only_verdict(r)
         IN  Return(v, render_headline(v, NoClaim), l2_only_exit_code(v))

\* A broken variant: a presence-only pattern leaves True in advertised.
L2Select_keeps_bool ==
    /\ stage = "l2" /\ cfg.filled
    /\ \E r \in L2Readings :
          /\ l2' = r
          /\ advertised' = IF r.matched /\ r.adv = NoClaim THEN Text("True") ELSE r.adv
          /\ IF cfg.level < 3 \/ ~cfg.l3
             THEN L2Return(r)
             ELSE stage' = "l3" /\ Stay
    /\ level_reached' = 2
    /\ UNCHANGED <<probeVars, cfg, status, interrupted>>

L2Select ==
    /\ stage = "l2" /\ cfg.filled
    /\ \E r \in L2Readings :
          /\ l2' = r
          /\ advertised' = r.adv
          /\ IF cfg.level < 3 \/ ~cfg.l3
             THEN L2Return(r)
             ELSE stage' = "l3" /\ Stay
    /\ level_reached' = 2
    /\ UNCHANGED <<probeVars, cfg, status, interrupted>>

-----------------------------------------------------------------------------

\* --l3-debugger auto: lldb on macOS, gdb where it is installed, or none.
ChosenDebugger ==
    IF cfg.debugger # "auto" THEN cfg.debugger
    ELSE IF cfg.darwin THEN "lldb"
    ELSE IF "gdb" \in installed THEN "gdb"
    ELSE "none"

\* The debugger is chosen; an empty list of candidate symbols is refused
\* for both debuggers.
StartL3 ==
    /\ stage = "l3"
    /\ \/ ChosenDebugger = "none" /\ Decline("none")
       \/ /\ ChosenDebugger # "none"
          /\ \E ok \in SUBSET Modes :
                IF nm_symbol_lines(ok) = {}
                THEN Decline(ChosenDebugger)
                ELSE Begin(ChosenDebugger)
    /\ UNCHANGED checkVars

\* "implicit_claim and not advertised" and the probe completed.
ImplicitClaim ==
    /\ cfg.implicit /\ advertised = NoClaim
    /\ l3.available /\ ~l3.timed_out /\ l3.completed

Judge ==
    /\ stage = "l3" /\ session = "done"
    /\ level_reached' = 3
    /\ IF ImplicitClaim
       THEN IF AnyHit(l3.hits)
            THEN Return("DISPATCHED_ADHOC", "MATCH", 0)
            ELSE Return("NO_DISPATCH_OBSERVED", "MISMATCH", 1)
       ELSE LET v == compute_verdict(advertised, l3)
            IN  Return(v, render_headline(v, advertised),
                       cli_exit_code(advertised, l3))
    /\ UNCHANGED <<probeVars, cfg, l2, advertised, status, interrupted>>

ProbeStep ==
    /\ stage \in {"l3", "ended"}
    /\ IF stage = "l3" THEN ProbeNext ELSE ProgramNext
    /\ UNCHANGED checkVars

-----------------------------------------------------------------------------

\* cmd_check prints the report and returns result["exit_code"].
Exit ==
    /\ stage = "returned"
    /\ stage' = "ended"
    /\ status' = exit_code
    /\ Stay
    /\ UNCHANGED <<probeVars, cfg, l2, advertised, level_reached, interrupted>>

\* A broken variant: the traceback reaches the shell, which sees exit 1.
Raise_uncaught ==
    /\ stage \in {"l1", "l2", "l3", "returned"}
    /\ session \notin {"launch", "running"}
    /\ stage' = "ended"
    /\ status' = 1
    /\ Stay
    /\ UNCHANGED <<probeVars, cfg, l2, advertised, level_reached, interrupted>>

\* main: any exception is reported as undetermined.  While the debugger runs
\* the process only waits for it, so nothing can be raised there but an
\* interrupt.  A report that cannot be flushed ends the interpreter with 120,
\* for which 2 stands here.
Raise ==
    /\ stage \in {"l1", "l2", "l3", "returned"}
    /\ session \notin {"launch", "running"}
    /\ stage' = "ended"
    /\ status' = 2
    /\ Stay
    /\ UNCHANGED <<probeVars, cfg, l2, advertised, level_reached, interrupted>>

\* Ctrl-C.  The debugger is in a session of its own and does not get it.
Interrupt ==
    /\ stage # "ended"
    /\ stage' = "ended"
    /\ status' = 2
    /\ interrupted' = TRUE
    /\ Stay
    /\ UNCHANGED <<probeVars, cfg, l2, advertised, level_reached>>

CheckNext ==
    Preflight \/ L1Static \/ L2Unfilled \/ L2Select \/ StartL3 \/ Judge \/ Exit

Next == CheckNext \/ ProbeStep \/ Raise \/ Interrupt

\* The driver and the debugger run whenever they can, and communicate()'s
\* timeout expires if they never get to an end.  The program may hang.
Fairness ==
    /\ WF_vars(CheckNext)
    /\ WF_vars(stage = "l3" /\ DriverNext /\ UNCHANGED checkVars)
    /\ WF_vars(stage = "l3" /\ ProbeTimeout /\ UNCHANGED checkVars)

Spec == Init /\ [][Next]_vars
FairSpec == Spec /\ Fairness

-----------------------------------------------------------------------------
(***************************************************************************)
(* Properties.                                                             *)
(***************************************************************************)

\* s is a kernel the check's claim is about.
Claimed(s) ==
    IF cfg.implicit /\ advertised = NoClaim THEN TRUE
    ELSE Belongs(s, advertised.word)

\* A 0 that comes out of the debugger layer is witnessed: the probed process
\* really called a kernel of the claimed family, through a breakpoint that
\* existed (cli_exit_code's "never returns 0 on missing/failed evidence").
MatchIsWitnessed ==
    status = 0 /\ level_reached = 3 =>
        \E s \in created : calls[s] > 0 /\ Claimed(s)

\* What a 0 or a 1 out of the debugger layer rests on: a session that was
\* not cut off by its timeout and left no program running and, under gdb, at
\* least one breakpoint.  A 0 needs more: a result block that was read, of a
\* program that ended by itself.  A 1 does not: see NoPermissionIsUndetermined
\* and UninstrumentedIsUndetermined below.
ConclusiveOnly ==
    status \in {0, 1} /\ level_reached = 3 =>
        /\ l3.completed /\ ~l3.timed_out
        /\ session = "done" /\ inferior # "running"
        /\ debugger = "gdb" => created # {}
        /\ status = 0 => /\ printed \in {"part", "results"}
                         /\ inferior \in {"exited", "crashed"}

\* A 1 is never given while a claimed kernel ran in view of a session that
\* printed its results: a breakpoint set before the library was loaded must
\* have caught it.  (A kernel without a breakpoint is out of view: see
\* MissedSymbolIsNoFinding below.)
NoDispatchMissed ==
    status = 1 /\ level_reached = 3 /\ printed = "results"
        => \A s \in created : Claimed(s) => calls[s] = 0

\* The headline a human reads and the exit code a script reads agree, but for
\* the texts and results of Misread, and for those they never do.
HeadlineAgrees ==
    verdict # NoVerdict =>
        (headline \in HeadlineOf(exit_code) <=> ~Misread(advertised, l3))

\* However the check ends, short of an interrupt, the probed process is not
\* left running (_run_with_timeout kills the process group on timeout).
NoProbeLeftRunning ==
    status # Running /\ ~interrupted => inferior # "running"

\* The check implements the oracle: the claim is what L2 advertised, the
\* evidence is what the completed probe reported (or, for a target without
\* L3, a log that matched and showed no fallback).
ClaimSeen ==
    IF level_reached < 2 THEN UndeclaredMark
    ELSE IF ~cfg.l3 THEN LogMark
    ELSE IF cfg.implicit /\ advertised = NoClaim THEN AnyMark
    ELSE IF NamesNothing(strip(advertised)) THEN NothingMark
    ELSE advertised.word

EvidenceSeen ==
    IF cfg.l3 THEN FamiliesHit(l3.hits)
    ELSE IF l2.matched /\ ~l2.fallback THEN {LogMark} ELSE {}

ConclusiveSeen == IF cfg.l3 THEN l3.completed ELSE l2.matched

Oracle == INSTANCE ClaimOracle WITH
    Kinds <- Families \cup {LogMark},
    Undeclared <- UndeclaredMark, Nothing <- NothingMark, AnyKind <- AnyMark,
    claim <- ClaimSeen, evidence <- EvidenceSeen,
    conclusive <- ConclusiveSeen, answer <- status

RefinesOracle == Oracle!OracleSpec

\* Every check answers, whatever the probed program does (--l3-timeout).
EveryCheckAnswers == <>(status # Running)

-----------------------------------------------------------------------------
(***************************************************************************)
(* The inductive invariant the proofs use.                                 *)
(***************************************************************************)

\* Where the check is, and where the session may be then.  No session is
\* started against a library whose symbol tables list no candidate.
StageInv ==
    /\ stage \in {"preflight", "l1", "l2"} => session = "idle"
    /\ stage = "returned" => session \in {"idle", "done"}
    /\ stage \notin {"returned", "ended"}
          => level_reached # 3 /\ verdict = NoVerdict
    /\ stage # "ended" => status = Running
    /\ session \notin {"idle", "done"} => Listed # {}

\* An exit code of 0 or 1 at level 3 is the verdict on a completed result.
AnswerInv ==
    /\ status \in {0, 1} => status = exit_code
    /\ level_reached = 3 /\ exit_code # 2 =>
          /\ l3.completed
          /\ exit_code = 0 <=> \E s \in Symbols : l3.hits[s] > 0 /\ Claimed(s)

\* The counters and the result of the session, the stages, and the answer
\* agree in every state; the other invariants follow from this one.
IInv ==
    /\ TypeOK /\ ProbeInv /\ StageInv /\ AnswerInv
    /\ NoProbeLeftRunning /\ HeadlineAgrees

-----------------------------------------------------------------------------
(***************************************************************************)
(* What the refinement needs beyond IInv: which level an exit code belongs *)
(* to, what it says about the claim, and that a failed probe reports none. *)
(***************************************************************************)
LevelInv ==
    /\ stage \in {"preflight", "l1", "l2"}
          => level_reached \in {0, 1} /\ l2 = NoL2 /\ exit_code = 2
    /\ stage = "l3" => level_reached = 2 /\ cfg.l3 /\ exit_code = 2
    /\ level_reached \in {0, 1} => exit_code = 2
    /\ level_reached = 2 /\ exit_code # 2 =>
          ~cfg.l3 /\ l2.matched /\ (exit_code = 0 <=> ~l2.fallback)
    /\ level_reached = 3 => cfg.l3
    /\ level_reached = 3 /\ exit_code # 2 =>
          ~NamesNothing(strip(advertised)) \/ (cfg.implicit /\ advertised = NoClaim)

FailureReportsNothing == ~l3.completed => l3.hits = NoHits

RInv == IInv /\ LevelInv /\ FailureReportsNothing

-----------------------------------------------------------------------------
(***************************************************************************)
(* What the repository says of the program and the code does not do.       *)
(***************************************************************************)

\* "undetermined (missing debugger, no permission, ...)": a system that does
\* not let the debugger trace the program makes the check undetermined.
NoPermissionIsUndetermined ==
    inferior = "denied" /\ status # Running => status = 2

\* "Fail closed uniformly for BOTH debuggers": a session that set no
\* breakpoint at all is not answered with a 1.
UninstrumentedIsUndetermined ==
    status \in {0, 1} /\ level_reached = 3 => created # {}

\* "a missed symbol becomes '0 dispatches', which reads as a finding": the 1
\* of a gdb session that set every breakpoint it asked for and printed its
\* results means that no claimed kernel of the library ran.
MissedSymbolIsNoFinding ==
    /\ status = 1 /\ level_reached = 3 /\ debugger = "gdb"
    /\ created = requested /\ printed = "results"
    => \A s \in Listed : Claimed(s) => calls[s] = 0

=============================================================================
