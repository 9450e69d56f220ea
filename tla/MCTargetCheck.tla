---------------------------- MODULE MCTargetCheck ----------------------------
(***************************************************************************)
(* A small target for TLC: two kernels in a shared library, one of them    *)
(* listed only in the dynamic table, whose names hold the tokens           *)
(* {sme2, sme} and {dotprod}; the shapes of the committed targets.         *)
(***************************************************************************)
EXTENDS TargetCheck

MCFamilyOrder == <<"sme2", "sme", "dotprod">>
MCSymbols == {"mopa", "dot"}
MCTokensIn == [s \in MCSymbols |->
                 IF s = "mopa" THEN {"sme2", "sme"} ELSE {"dotprod"}]
MCModes == {"-gU", "-D"}
MCTableOf == [m \in MCModes |-> IF m = "-D" THEN MCSymbols ELSE {"mopa"}]

Kleidiai ==
    [level |-> 3, l1 |-> TRUE, l2 |-> TRUE, l3 |-> TRUE, adv |-> TRUE,
     loose |-> FALSE, fallback |-> FALSE, implicit |-> FALSE, filled |-> TRUE,
     darwin |-> FALSE, debugger |-> "auto"]
\* A target of the user's own, with a pattern such as "feature:(.*)".
LooseTarget == [Kleidiai EXCEPT !.loose = TRUE]
CatchALiar == [Kleidiai EXCEPT !.adv = FALSE, !.implicit = TRUE]
CpuVariants == [Kleidiai EXCEPT !.adv = FALSE]
Onnxruntime == [Kleidiai EXCEPT !.adv = FALSE, !.l3 = FALSE, !.fallback = TRUE]
AdhocNoRun == [CatchALiar EXCEPT !.l2 = FALSE, !.l3 = FALSE]

MCConfigs ==
    UNION {
      {[c EXCEPT !.darwin = d] : c \in {Kleidiai, CatchALiar, CpuVariants},
                                 d \in BOOLEAN},
      {[Kleidiai EXCEPT !.debugger = g] : g \in {"gdb", "lldb", "none"}},
      {[Kleidiai EXCEPT !.level = n] : n \in {1, 2}},
      {LooseTarget, Onnxruntime, [Onnxruntime EXCEPT !.level = 2],
       AdhocNoRun, [Kleidiai EXCEPT !.filled = FALSE],
       [CpuVariants EXCEPT !.l1 = FALSE]}}
=============================================================================
