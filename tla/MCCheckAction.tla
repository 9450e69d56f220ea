---------------------------- MODULE MCCheckAction ----------------------------
(***************************************************************************)
(* The action around the small target of MCTargetCheck.  Its command line  *)
(* can fill the workload of whisper-cpp, on both systems and at two levels *)
(* of evidence, and that of the ad-hoc mode, but not that of kleidiai,     *)
(* which requires a model.  The shared library has one symbol table here:  *)
(* the check of MCTargetCheck has two.                                     *)
(***************************************************************************)
EXTENDS CheckAction, MCTargetCheck

MCOneMode == {"-D"}
MCOneTable == [m \in MCOneMode |-> MCSymbols]

WhisperCpp == Kleidiai

MCActionConfigs ==
    {WhisperCpp, [WhisperCpp EXCEPT !.darwin = TRUE],
     [WhisperCpp EXCEPT !.level = 2], CatchALiar,
     [Kleidiai EXCEPT !.filled = FALSE]}
=============================================================================
