----------------------------- MODULE ClaimOracle -----------------------------
(***************************************************************************)
(* What `polygraph check` promises, without saying how: the exit-code      *)
(* contract of tools/polygraph (0: the advertised capability matches what  *)
(* executed; 1: mismatch; 2: undetermined; never 0 without evidence).      *)
(*                                                                         *)
(* A claim is declared at most once, conclusive evidence arrives at most   *)
(* once, and one answer is given.  0 needs a claim and evidence for it; 1  *)
(* needs a claim and conclusive evidence without anything for it; 2 may be *)
(* given at any time.                                                      *)
(***************************************************************************)
EXTENDS Naturals

CONSTANTS
    Kinds,      \* the kinds of evidence there are
    Undeclared, \* no claim yet
    Nothing,    \* it turned out that nothing is claimed
    AnyKind     \* the claim that evidence of some kind exists

VARIABLES
    claim,      \* what is being checked
    evidence,   \* the kinds of evidence seen
    conclusive, \* the evidence is in
    answer      \* 0, 1, 2, or Pending

oracleVars == <<claim, evidence, conclusive, answer>>

Pending == 3

OracleInit ==
    /\ claim = Undeclared
    /\ evidence = {}
    /\ conclusive = FALSE
    /\ answer = Pending

Learn ==
    /\ answer = Pending
    /\ \/ UNCHANGED claim
       \/ claim = Undeclared
    /\ \/ UNCHANGED <<evidence, conclusive>>
       \/ /\ ~conclusive /\ conclusive'
          /\ evidence' \subseteq Kinds
    /\ UNCHANGED answer

Supported == claim \in evidence \/ (claim = AnyKind /\ evidence # {})

Answer ==
    /\ answer = Pending
    /\ \/ answer' = 2
       \/ /\ conclusive
          /\ claim \notin {Undeclared, Nothing}
          /\ answer' = IF Supported THEN 0 ELSE 1
    /\ UNCHANGED <<claim, evidence, conclusive>>

OracleNext == Learn \/ Answer

OracleSpec == OracleInit /\ [][OracleNext]_oracleVars

=============================================================================
