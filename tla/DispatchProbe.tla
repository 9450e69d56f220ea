---------------------------- MODULE DispatchProbe ----------------------------
(***************************************************************************)
(* One debugger session (L3): tools/verify_dispatch.py's run_l3_gdb_argv   *)
(* and run_l3_lldb_argv driving tools/dispatch_probe.gdb and .lldb against *)
(* a program that loads its CPU backend with dlopen after it has started.  *)
(*                                                                         *)
(* The driver, the debugger, the probed program (the "inferior") and the   *)
(* driver's timeout are separate actors.  Behaviours of gdb, lldb, nm and  *)
(* of the program are the environment: any of them may happen.             *)
(***************************************************************************)
EXTENDS Evidence

CONSTANTS
    Modes,     \* nm invocations of nm_symbol_lines: {-gU, -D} or {-gU}
    TableOf,   \* TableOf[m]: the symbols nm prints in mode m
    MaxCalls   \* bound: calls the program makes to one kernel

ASSUME ProbeAssumption ==
    /\ TableOf \in [Modes -> SUBSET Symbols]
    /\ MaxCalls \in Nat

VARIABLES
    installed, \* the debuggers on PATH
    session,   \* where the driver is
    debugger,  \* the debugger of this session
    requested, \* symbols handed to the gdb script
    created,   \* symbols with a breakpoint, pending ones included
    loaded,    \* the backend library is mapped into the program
    armed,     \* symbols whose breakpoint is inserted in the program
    inferior,  \* the probed program
    calls,     \* what the program really called (no code reads this)
    hits,      \* the debugger's counters
    printed,   \* how far the script's output got
    l3         \* the L3Result handed back

progVars  == <<loaded, inferior, calls>>
probeVars == <<installed, session, debugger, requested, created, loaded,
               armed, inferior, calls, hits, printed, l3>>

Debuggers == {"gdb", "lldb"}
Sessions  == {"idle", "start", "instrument", "launch", "running", "parse",
              "done"}
Inferiors == {"none", "running", "denied", "exited", "crashed", "killed"}

ProbeTypeOK ==
    /\ installed \subseteq Debuggers
    /\ session \in Sessions
    /\ debugger \in Debuggers \cup {"none"}
    /\ requested \subseteq Symbols
    /\ created \subseteq Symbols
    /\ loaded \in BOOLEAN
    /\ armed \subseteq Symbols
    /\ inferior \in Inferiors
    /\ calls \in [Symbols -> 0..MaxCalls]
    /\ hits \in [Symbols -> 0..MaxCalls]
    /\ printed \in {"nothing", "created", "part", "results"}
    /\ l3 \in L3Result

ProbeInit ==
    /\ installed \in SUBSET Debuggers
    /\ session = "idle"
    /\ debugger = "none"
    /\ requested = {} /\ created = {} /\ armed = {}
    /\ loaded = FALSE
    /\ inferior = "none"
    /\ calls = NoHits /\ hits = NoHits
    /\ printed = "nothing"
    /\ l3 = L3Failed(FALSE, FALSE)

-----------------------------------------------------------------------------
(***************************************************************************)
(* Enumeration.  nm_symbol_lines runs every mode, drops a mode that fails  *)
(* or times out, and returns the union; a missing library or a missing nm  *)
(* is the case in which no mode answers.                                   *)
(***************************************************************************)
nm_symbol_lines(ok) == UNION {TableOf[m] : m \in ok}

Listed == nm_symbol_lines(Modes)

Finish(result) == session' = "done" /\ l3' = result

\* run_target_check's or main's call of a lane.
Begin(d) ==
    /\ session = "idle"
    /\ session' = "start"
    /\ debugger' = d
    /\ UNCHANGED <<installed, requested, created, loaded, armed, inferior,
                   calls, hits, printed, l3>>

\* The caller has no debugger to run, or found nothing to instrument.
Decline(d) ==
    /\ session = "idle"
    /\ debugger' = d
    /\ Finish(L3Failed(FALSE, FALSE))
    /\ UNCHANGED <<installed, requested, created, loaded, armed, inferior,
                   calls, hits, printed>>

\* shutil.which finds no such debugger.
DebuggerMissing ==
    /\ session = "start" /\ debugger \notin installed
    /\ Finish(L3Failed(FALSE, FALSE))
    /\ UNCHANGED <<installed, debugger, requested, created, loaded, armed,
                   inferior, calls, hits, printed>>

\* The gdb lane names every symbol; it refuses to run without one.
Enumerate ==
    /\ session = "start" /\ debugger = "gdb" /\ debugger \in installed
    /\ \E ok \in SUBSET Modes :
          /\ requested' = nm_symbol_lines(ok)
          /\ IF nm_symbol_lines(ok) = {}
             THEN Finish(L3Failed(FALSE, FALSE))
             ELSE session' = "instrument" /\ UNCHANGED l3
    /\ UNCHANGED <<installed, debugger, created, loaded, armed, inferior,
                   calls, hits, printed>>

\* The lldb lane hands lldb the regex itself.
SkipEnumerate ==
    /\ session = "start" /\ debugger = "lldb" /\ debugger \in installed
    /\ session' = "instrument"
    /\ UNCHANGED <<installed, debugger, requested, created, loaded, armed,
                   inferior, calls, hits, printed, l3>>

(***************************************************************************)
(* Instrumentation, before the program runs.  gdb makes one breakpoint per *)
(* requested symbol; each may fail (DP_BPFAIL) and the count of those made *)
(* is printed.  lldb's regex breakpoint covers whatever lldb's own reading *)
(* of the library finds, be it nothing, and the driver never looks at its  *)
(* list of locations.  Breakpoints wait for the library unless the program *)
(* itself holds the symbols.                                               *)
(***************************************************************************)
Instrument ==
    /\ session = "instrument"
    /\ session' = "launch"
    /\ \/ /\ debugger = "gdb"
          /\ created' \in SUBSET requested
          /\ printed' = "created"
       \/ /\ debugger = "lldb"
          /\ created' \in SUBSET Symbols
          /\ UNCHANGED printed
    /\ loaded' \in BOOLEAN
    /\ armed' = IF loaded' THEN created' ELSE {}
    /\ UNCHANGED <<installed, debugger, requested, inferior, calls, hits, l3>>

\* run / process launch: the system may refuse to let the program be traced.
Launch ==
    /\ session = "launch"
    /\ session' = "running"
    /\ inferior' \in {"running", "denied"}
    /\ UNCHANGED <<installed, debugger, requested, created, loaded, armed,
                   calls, hits, printed, l3>>

-----------------------------------------------------------------------------
(***************************************************************************)
(* The probed program and the debugger's counters.                         *)
(***************************************************************************)

\* A broken variant (rbreak in the first version of the probe): what is not
\* there when the breakpoint is set never gets one.
LoadLibrary_no_pending ==
    /\ inferior = "running" /\ ~loaded
    /\ loaded' = TRUE
    /\ UNCHANGED <<installed, session, debugger, requested, created, armed,
                   inferior, calls, hits, printed, l3>>

\* dlopen: pending breakpoints resolve before any code of the library runs.
LoadLibrary ==
    /\ inferior = "running" /\ ~loaded
    /\ loaded' = TRUE
    /\ armed' = created
    /\ UNCHANGED <<installed, session, debugger, requested, created,
                   inferior, calls, hits, printed, l3>>

\* The program calls kernel s; stop() / the auto-continue counts it.
CallKernel(s) ==
    /\ inferior = "running" /\ loaded
    /\ calls[s] < MaxCalls
    /\ calls' = [calls EXCEPT ![s] = @ + 1]
    /\ hits' = IF s \in armed THEN [hits EXCEPT ![s] = @ + 1] ELSE hits
    /\ UNCHANGED <<installed, session, debugger, requested, created, loaded,
                   armed, inferior, printed, l3>>

InferiorEnds ==
    /\ inferior = "running"
    /\ inferior' \in {"exited", "crashed"}
    /\ UNCHANGED <<installed, session, debugger, requested, created, loaded,
                   armed, calls, hits, printed, l3>>

-----------------------------------------------------------------------------
(***************************************************************************)
(* The end of the session.  After the program stops, the script prints its *)
(* result block; it never gets there when the program could not be started *)
(* or, with lldb in batch mode, when the program crashed.                  *)
(***************************************************************************)
PrintResults ==
    /\ session = "running" /\ inferior \in {"exited", "crashed"}
    /\ printed' = "results"
    /\ session' = "parse"
    /\ UNCHANGED <<installed, debugger, requested, created, loaded, armed,
                   inferior, calls, hits, l3>>

ScriptAborts ==
    /\ session = "running"
    /\ inferior = "denied" \/ (inferior = "crashed" /\ debugger = "lldb")
    /\ session' = "parse"
    /\ UNCHANGED <<installed, debugger, requested, created, loaded, armed,
                   inferior, calls, hits, printed, l3>>

(***************************************************************************)
(* The debugger dies or gives up its script: at its start-up, before or    *)
(* after it has set its breakpoints, or while the program runs.  The       *)
(* driver's communicate() just returns, and its return code is not looked  *)
(* at.  What was buffered may be lost, and the result block, when it was   *)
(* being written, may be cut.  The program traced does not survive it.     *)
(***************************************************************************)
DebuggerUp == session \in {"instrument", "launch", "running"}

DebuggerDies ==
    /\ DebuggerUp
    /\ session' = "parse"
    /\ \/ printed' \in {printed, "nothing"}
       \/ inferior \in {"exited", "crashed"} /\ printed' = "part"
    /\ inferior' = IF inferior = "running" THEN "killed" ELSE inferior
    /\ UNCHANGED <<installed, debugger, requested, created, loaded, armed,
                   calls, hits, l3>>

\* A broken variant: only the debugger is killed, not its process group.
ProbeTimeout_leaks ==
    /\ DebuggerUp
    /\ Finish(L3Failed(TRUE, TRUE))
    /\ UNCHANGED <<installed, debugger, requested, created, loaded, armed,
                   inferior, calls, hits, printed>>

\* A broken variant: the time-out does not cover the program's run.
ProbeTimeout_early ==
    /\ session \in {"instrument", "launch"}
    /\ Finish(L3Failed(TRUE, TRUE))
    /\ UNCHANGED <<installed, debugger, requested, created, loaded, armed,
                   inferior, calls, hits, printed>>

\* communicate(timeout) expires: the whole process group is killed.
ProbeTimeout ==
    /\ DebuggerUp
    /\ inferior' = IF inferior = "running" THEN "killed" ELSE inferior
    /\ Finish(L3Failed(TRUE, TRUE))
    /\ UNCHANGED <<installed, debugger, requested, created, loaded, armed,
                   calls, hits, printed>>

\* The counts read out of the result block.  A block that is cut lacks lines
\* or the last digits of one; one that is missing is read as zeros.
Readings ==
    CASE printed = "results" -> {hits}
      [] printed = "part" ->
           {h \in [Symbols -> 0..MaxCalls] : \A s \in Symbols : h[s] <= hits[s]}
      [] OTHER -> {NoHits}

\* A broken variant: the breakpoint count is read but not tested.
ParseGdb_trusts_zero ==
    /\ session = "parse" /\ debugger = "gdb"
    /\ \E h \in Readings : Finish(L3Completed(h))
    /\ UNCHANGED <<installed, debugger, requested, created, loaded, armed,
                   inferior, calls, hits, printed>>

\* No count, or a count of zero, is an error; a missing result block is not.
ParseGdb ==
    /\ session = "parse" /\ debugger = "gdb"
    /\ IF printed = "nothing" \/ created = {}
       THEN Finish(L3Failed(TRUE, FALSE))
       ELSE \E h \in Readings : Finish(L3Completed(h))
    /\ UNCHANGED <<installed, debugger, requested, created, loaded, armed,
                   inferior, calls, hits, printed>>

\* The lldb lane takes whatever locations it can read, none included.
ParseLldb ==
    /\ session = "parse" /\ debugger = "lldb"
    /\ \E h \in Readings : Finish(L3Completed(h))
    /\ UNCHANGED <<installed, debugger, requested, created, loaded, armed,
                   inferior, calls, hits, printed>>

\* What the driver and the debugger do, and what the program does.
DriverNext ==
    \/ DebuggerMissing \/ Enumerate \/ SkipEnumerate \/ Instrument \/ Launch
    \/ PrintResults \/ ScriptAborts \/ ParseGdb \/ ParseLldb

ProgramNext ==
    \/ LoadLibrary
    \/ InferiorEnds
    \/ \E s \in Symbols : CallKernel(s)

ProbeNext == DriverNext \/ ProgramNext \/ DebuggerDies \/ ProbeTimeout

-----------------------------------------------------------------------------
(***************************************************************************)
(* What every state of a session satisfies, whoever started it.  The       *)
(* counters are the program's real calls, restricted to the symbols that   *)
(* got a breakpoint, and what is handed back is what was printed of them.  *)
(***************************************************************************)
CountersExact ==
    hits = [s \in Symbols |-> IF s \in created THEN calls[s] ELSE 0]

\* Nothing ran before the launch, nothing was set before the script ran, and
\* results are printed only of a program that has ended by itself.
PhaseInv ==
    /\ session \in {"idle", "start", "instrument"} => created = {} /\ ~loaded
    /\ session \in {"idle", "start", "instrument", "launch"}
          => inferior = "none" /\ calls = NoHits
    /\ session = "running" => inferior # "none"
    /\ session = "parse" => inferior # "running"
    /\ printed \in {"part", "results"} => inferior \in {"exited", "crashed"}
    /\ inferior = "running" => session = "running"

BreakpointInv ==
    /\ loaded => armed = created
    /\ session \notin {"idle", "done"} => debugger \in Debuggers

\* Only the gdb lane tests that a breakpoint was set.
ResultInv ==
    l3.completed =>
        /\ session = "done" /\ l3.available /\ ~l3.timed_out
        /\ inferior # "running"
        /\ debugger = "gdb" => created # {}
        /\ l3.hits \in Readings

ProbeInv == CountersExact /\ PhaseInv /\ BreakpointInv /\ ResultInv

=============================================================================
