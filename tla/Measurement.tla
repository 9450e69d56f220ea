---------------------------- MODULE Measurement ----------------------------
(***************************************************************************)
(* What crossover.py and bench.py make of one process they ran: a          *)
(* llama-bench or llama-cli call that may fail, time out or print no       *)
(* numbers, and a debugger transcript that may be cut short.  No state.    *)
(***************************************************************************)
EXTENDS Integers, Sequences, FiniteSets

CONSTANTS Rates \* bound: the speeds a call may report

ASSUME RatesAssumption == Rates \subseteq Nat /\ Rates # {}

-----------------------------------------------------------------------------
(* Calls of llama-bench and llama-cli.                                     *)

\* How a process ended, what its output holds, and the speed if it names one.
\* A process that is killed when its time is up may have printed it before.  The
\* retry looks for "TIMEOUT" in the error's text: a failed process that prints
\* the word is a "timeout", too.
Outcome == [rc : {"zero", "nonzero", "timeout"},
            text : {"speed", "noSamples", "unusable"},
            rate : Rates]

\* What the caller gets: a sample, remembered with how its process ended.
Sample(o) == [rate |-> o.rate, rc |-> o.rc]
Got(samples) == [ok |-> TRUE, timeout |-> FALSE, samples |-> samples]
Error(o) == [ok |-> FALSE, timeout |-> o.rc = "timeout", samples |-> <<>>]

\* A broken variant: the exit status is not looked at.
run_llama_bench_once_lax(o) ==
    IF o.text = "unusable" THEN Error(o)
    ELSE Got(IF o.text = "speed" THEN <<Sample(o)>> ELSE <<>>)

run_llama_bench_once(o) ==
    IF o.rc # "zero" \/ o.text = "unusable" THEN Error(o)
    ELSE Got(IF o.text = "speed" THEN <<Sample(o)>> ELSE <<>>)

\* The summary line is enough, however the process ended.
run_llama_cli_config_once(o) ==
    IF o.text = "speed" THEN Got(<<Sample(o)>>) ELSE Error(o)

\* A broken variant: whatever failed is tried again.
TriesAgain_any(r, attempt, retries) == ~r.ok /\ attempt < retries

\* A broken variant: one attempt too many.
TriesAgain_more(r, attempt, retries) == ~r.ok /\ r.timeout /\ attempt <= retries

\* call_with_retries tries again after a time-out only, and not for ever.
TriesAgain(r, attempt, retries) == ~r.ok /\ r.timeout /\ attempt < retries

-----------------------------------------------------------------------------
(* Medians and optima.                                                     *)

\* The k-th smallest speed.
Ranked(samples, k) ==
    CHOOSE r \in {samples[i].rate : i \in DOMAIN samples} :
        /\ Cardinality({i \in DOMAIN samples : samples[i].rate < r}) < k
        /\ Cardinality({i \in DOMAIN samples : samples[i].rate <= r}) >= k

\* Twice the median, so that it is a whole number; of no sample, -1.
Median2(samples) ==
    LET n == Len(samples)
    IN  IF n = 0 THEN -1
        ELSE Ranked(samples, (n + 1) \div 2) + Ranked(samples, (n \div 2) + 1)

\* A broken variant: a cell without a sample can be the optimum.
Better_any(best, c, samplesOf) ==
    best = 0 \/ Median2(samplesOf[c]) > Median2(samplesOf[best])

\* Does cell c replace the best so far (0 is none)?
Better(best, c, samplesOf) ==
    /\ samplesOf[c] # <<>>
    /\ best = 0 \/ Median2(samplesOf[c]) > Median2(samplesOf[best])

\* The best of the cells from..upto, in their order: only a strictly better
\* one counts.
Optimum(from, upto, samplesOf) ==
    LET best[c \in (from - 1)..upto] ==
            IF c < from THEN 0
            ELSE IF Better(best[c - 1], c, samplesOf) THEN c ELSE best[c - 1]
    IN  best[upto]

-----------------------------------------------------------------------------
(* bench.py's debugger.                                                    *)

Families == {"sme", "neon"}

\* A run under lldb: it ended and listed its breakpoints, ended without a
\* list, or was killed at its time limit.  hits: families with a hit listed.
Transcript == {t \in [end : {"listed", "broken", "timeout"},
                      hits : SUBSET Families] :
                  t.end = "broken" => t.hits = {}}

Unverified == [verified |-> FALSE, fires |-> {}, counted |-> FALSE]

\* A broken variant: the thorough tier's time-out is not looked at.
verify_dispatch_builtin_late(lldb, fast, thorough, allow_thorough) ==
    IF ~lldb \/ fast.end = "timeout" THEN Unverified
    ELSE IF allow_thorough
    THEN [verified |-> TRUE, fires |-> thorough.hits, counted |-> TRUE]
    ELSE [verified |-> TRUE, fires |-> fast.hits, counted |-> FALSE]

\* The fast tier stops at the first hit; a thorough run that ended supersedes
\* it, and is the only one with counts.
verify_dispatch_builtin(lldb, fast, thorough, allow_thorough) ==
    IF ~lldb \/ fast.end = "timeout" THEN Unverified
    ELSE IF allow_thorough /\ thorough.end # "timeout"
    THEN [verified |-> TRUE, fires |-> thorough.hits, counted |-> TRUE]
    ELSE [verified |-> TRUE, fires |-> fast.hits, counted |-> FALSE]

\* The dispatch column of a row.
dispatch_label(d) ==
    CASE ~d.verified -> "unverified"
      [] d.verified /\ d.fires = Families ->
            IF d.counted THEN "HYBRID" ELSE "both fired"
      [] d.verified /\ d.fires = {"sme"} -> "SME2 fired"
      [] d.verified /\ d.fires = {"neon"} -> "NEON fired"
      [] d.verified /\ d.fires = {} -> "neither fired"

\* The families a label claims to have seen.
Claimed(label) ==
    CASE label \in {"HYBRID", "both fired"} -> Families
      [] label = "SME2 fired" -> {"sme"}
      [] label = "NEON fired" -> {"neon"}
      [] OTHER -> {}
=============================================================================
