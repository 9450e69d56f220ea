------------------------------- MODULE Evidence -------------------------------
(***************************************************************************)
(* The vocabulary of tools/verify_dispatch.py: kernel symbols, the family  *)
(* each is classified into, the claim a selection log (L2) makes, the      *)
(* result of a debugger probe (L3), and the pure functions that turn a     *)
(* claim and a probe result into a verdict, an exit code and a headline.   *)
(*                                                                         *)
(* Texts are abstracted to what the functions tell apart.  A symbol name   *)
(* is a value of Symbols together with the set of family tokens that occur *)
(* in it; a claim is a lower-cased text: the word in it, which is a family *)
(* or one of three that name none, and whether white space surrounds it    *)
(* (the functions below do not all strip it).                              *)
(***************************************************************************)
EXTENDS Naturals, Sequences, FiniteSets

CONSTANTS
    Symbols,      \* kernel entry points that match the dispatch regex
    FamilyOrder,  \* the ordered token list (sme2 before sme, ...)
    TokensIn      \* TokensIn[s]: the tokens that are substrings of s

Tokens == {FamilyOrder[i] : i \in 1..Len(FamilyOrder)}

\* classify_symbol_family's answer when no token occurs in the name.
Other == "other"

Families == Tokens \cup {Other}

\* What the word of an advertised-family text can be when it is no family:
EmptyWord == "no claim"       \* no text at all, or white space only
BlankWord == "none/unknown"   \* the log printed "none" or "unknown"
StrangeWord == "strange"      \* a word no symbol's family equals
Words == Families \cup {EmptyWord, BlankWord, StrangeWord}

Claims == [word : Words, padded : BOOLEAN]
Text(w) == [word |-> w, padded |-> FALSE]

NoClaim == Text(EmptyWord)    \* None or "": the pattern did not match
BlankClaim == Text(BlankWord)

\* str.strip()
strip(adv) == Text(adv.word)

ASSUME EvidenceAssumption ==
    /\ FamilyOrder \in Seq(STRING)
    /\ TokensIn \in [Symbols -> SUBSET Tokens]
    /\ {EmptyWord, BlankWord, StrangeWord} \cap Families = {}

-----------------------------------------------------------------------------

\* A broken variant: the order is searched from its end, so "sme" wins
\* over "sme2" in a name that holds both.
classify_unordered(s) ==
    IF TokensIn[s] = {} THEN Other
    ELSE FamilyOrder[CHOOSE i \in 1..Len(FamilyOrder) :
            /\ FamilyOrder[i] \in TokensIn[s]
            /\ \A j \in 1..Len(FamilyOrder) :
                  FamilyOrder[j] \in TokensIn[s] => j <= i]

\* The first token, in FamilyOrder, that occurs in the symbol's name.
classify_symbol_family(s) ==
    IF TokensIn[s] = {} THEN Other
    ELSE FamilyOrder[CHOOSE i \in 1..Len(FamilyOrder) :
            /\ FamilyOrder[i] \in TokensIn[s]
            /\ \A j \in 1..Len(FamilyOrder) :
                  FamilyOrder[j] \in TokensIn[s] => i <= j]

\* The reading of "symbol s belongs to family f" that the comment above
\* _FAMILY_ORDER gives: f occurs in the name and nothing more specific does.
Belongs(s, f) ==
    \/ TokensIn[s] = {} /\ f = Other
    \/ /\ f \in TokensIn[s]
       /\ \E j \in 1..Len(FamilyOrder) :
             /\ FamilyOrder[j] = f
             /\ \A i \in 1..(j - 1) : FamilyOrder[i] \notin TokensIn[s]

-----------------------------------------------------------------------------
(***************************************************************************)
(* A probe result: the fields of L3Result the verdict reads.  hits is      *)
(* hits_by_symbol, 0 for a symbol absent from the dictionary.              *)
(***************************************************************************)
L3Result == [available : BOOLEAN, timed_out : BOOLEAN,
             completed : BOOLEAN, hits : [Symbols -> Nat]]

NoHits == [s \in Symbols |-> 0]

L3Failed(avail, late) ==
    [available |-> avail, timed_out |-> late, completed |-> FALSE,
     hits |-> NoHits]

L3Completed(h) ==
    [available |-> TRUE, timed_out |-> FALSE, completed |-> TRUE, hits |-> h]

\* hits_by_family has a positive count for family f / the total is positive.
FamilyHit(h, f) == \E s \in Symbols : h[s] > 0 /\ classify_symbol_family(s) = f
AnyHit(h) == \E s \in Symbols : h[s] > 0
OtherHit(h, f) == \E s \in Symbols : h[s] > 0 /\ classify_symbol_family(s) # f

FamiliesHit(h) == {f \in Families : FamilyHit(h, f)}

\* "not adv or adv in ('none', 'unknown')"
NamesNothing(adv) == adv \in {NoClaim, BlankClaim}

\* hits_by_family.get(adv, 0) > 0: a text with white space is no key.
ClaimHit(h, adv) == ~adv.padded /\ FamilyHit(h, adv.word)

-----------------------------------------------------------------------------

\* The text is lower-cased only.
compute_verdict(adv, l3) ==
    IF ~l3.available THEN "L3_UNAVAILABLE"
    ELSE IF l3.timed_out THEN "L3_TIMEOUT"
    ELSE IF ~l3.completed THEN "L3_ERROR"
    ELSE IF ~AnyHit(l3.hits) THEN "NO_DISPATCH_OBSERVED"
    ELSE IF NamesNothing(adv) THEN "EXECUTED_NO_ADVERTISED_FEATURE"
    ELSE IF ~ClaimHit(l3.hits, adv) THEN "SILENT_FALLBACK"
    ELSE IF OtherHit(l3.hits, adv.word) THEN "HYBRID_DISPATCH"
    ELSE "DISPATCHED"

\* A broken variant: any hit at all confirms the claim.
cli_exit_code_anyhit(adv, l3) ==
    IF ~l3.available \/ l3.timed_out \/ ~l3.completed THEN 2
    ELSE IF NamesNothing(strip(adv)) THEN 2
    ELSE IF AnyHit(l3.hits) THEN 0
    ELSE 1

\* The text is stripped before it is looked at.
cli_exit_code(adv, l3) ==
    IF ~l3.available \/ l3.timed_out \/ ~l3.completed THEN 2
    ELSE IF NamesNothing(strip(adv)) THEN 2
    ELSE IF ClaimHit(l3.hits, strip(adv)) THEN 0
    ELSE 1

\* The verdict of a target whose L3 is disabled.
render_l2_only_verdict(l2) ==
    IF l2.fallback THEN "SILENT_FALLBACK"
    ELSE IF l2.matched THEN "L2_ADVERTISED_NO_FALLBACK_DETECTED"
    ELSE "L2_NO_SIGNAL"

l2_only_exit_code(verdict) ==
    CASE verdict = "SILENT_FALLBACK" -> 1
      [] verdict = "L2_ADVERTISED_NO_FALLBACK_DETECTED" -> 0
      [] OTHER -> 2

\* A broken variant: zero hits are undetermined whatever was advertised.
render_headline_shy(verdict, adv) ==
    CASE verdict \in {"L3_UNAVAILABLE", "L3_ERROR", "L3_TIMEOUT",
                      "EXECUTED_NO_ADVERTISED_FEATURE", "L2_NO_SIGNAL",
                      "NO_DISPATCH_OBSERVED"} -> "UNDETERMINED"
      [] verdict = "SILENT_FALLBACK" -> "MISMATCH"
      [] OTHER -> "MATCH"

\* The word render_headline's line starts with; any text but the empty one
\* counts as advertised.
render_headline(verdict, adv) ==
    CASE verdict \in {"L3_UNAVAILABLE", "L3_ERROR", "L3_TIMEOUT",
                      "EXECUTED_NO_ADVERTISED_FEATURE", "L2_NO_SIGNAL"}
           -> "UNDETERMINED"
      [] verdict = "SILENT_FALLBACK" -> "MISMATCH"
      [] verdict = "NO_DISPATCH_OBSERVED"
           -> IF adv = NoClaim THEN "UNDETERMINED" ELSE "MISMATCH"
      [] verdict \in {"HYBRID_DISPATCH", "DISPATCHED", "DISPATCHED_ADHOC",
                      "L2_ADVERTISED_NO_FALLBACK_DETECTED"} -> "MATCH"
      [] verdict = "L1_ONLY" -> "L1 ONLY"
      [] OTHER -> "UNKNOWN"

\* The headline that fits an exit code, as the exit-code table words it.
HeadlineOf(code) ==
    CASE code = 0 -> {"MATCH"}
      [] code = 1 -> {"MISMATCH"}
      [] OTHER -> {"UNDETERMINED", "L1 ONLY"}

\* The texts and results that the exit code and the headline judge apart:
\* one names nothing but is not empty, and the other calls that a claim; or
\* one finds the family once the white space is off, and the other does not.
Misread(adv, r) ==
    /\ r.available /\ ~r.timed_out /\ r.completed
    /\ \/ /\ NamesNothing(strip(adv)) /\ adv # NoClaim
          /\ adv.padded \/ ~AnyHit(r.hits)
       \/ adv.padded /\ FamilyHit(r.hits, adv.word)

\* --assert in verify_dispatch.py gates on these.
DEFAULT_ASSERT_FAIL_VERDICTS == {"SILENT_FALLBACK", "NO_DISPATCH_OBSERVED"}

=============================================================================
