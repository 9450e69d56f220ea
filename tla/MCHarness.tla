----------------------------- MODULE MCHarness -----------------------------
(* A small command line: one thread count, both SME modes, two rounds.     *)
EXTENDS Harness

MCThreadsList == <<2>>
MCSmeList == <<"on", "off">>
MCBenchPhases == <<"decode", "prefill_long">>
MCBenchSmeList == <<"on">>
MCRates == {1, 2}

\* Decode speeds differ from call to call, the others need not.
MCRatesOf(phase) == IF phase = "decode" THEN {1, 2} ELSE {1}
=============================================================================
