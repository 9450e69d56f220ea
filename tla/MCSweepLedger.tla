---------------------------- MODULE MCSweepLedger ----------------------------
(***************************************************************************)
(* Two sweeps over at most two points, a model file that is replaced once, *)
(* the default ledger path, with and without --out.                        *)
(***************************************************************************)
EXTENDS SweepLedger

MCSymbols == {"mopa", "dot"}
MCFamilyOrder == <<"sme", "dotprod">>
MCTokensIn == [s \in MCSymbols |->
                 IF s = "mopa" THEN {"sme"} ELSE {"dotprod"}]

MCSelections == {Text("sme")}

\* No debugger, and a probe that saw only the kernel that is not advertised.
MCProbes ==
    {L3Failed(FALSE, FALSE), L3Completed([NoHits EXCEPT !["dot"] = 1])}

MCPaths == {"results"}

Default(n) == [points |-> n, path |-> "results", explicit |-> FALSE,
               assert |-> FALSE]

\* run_all.sh passes --out; a developer's sweep may leave it out.
MCPlansOf ==
    [pipeline |-> {[Default(1) EXCEPT !.explicit = TRUE]},
     developer |-> {Default(0), [Default(2) EXCEPT !.assert = TRUE]}]

MCTwoDefaults ==
    [pipeline |-> {Default(1)}, developer |-> {Default(1)}]
=============================================================================
