---------------------------- MODULE Harness_proof ----------------------------
(***************************************************************************)
(* The measuring commands, for any lists of threads, modes and phases, any *)
(* number of rounds and retries: what their numbers and labels may be      *)
(* trusted for.  First what the median and the search for the best cell    *)
(* return, then the invariant of the stages.                               *)
(***************************************************************************)
EXTENDS Harness, FiniteSetTheorems, WellFoundedInduction, TLAPS

-----------------------------------------------------------------------------
(* Numbers.                                                                *)

\* Every nonempty set of naturals has a least element.
LEMMA LeastOf ==
    ASSUME NEW T, T \subseteq Nat, T # {}
    PROVE  \E x \in T : \A y \in T : x <= y
<1> DEFINE R == {ss \in Nat \X Nat : ss[1] < ss[2]}
<1>1. IsWellFoundedOn(R, Nat)
    BY NatLessThanWellFounded DEF OpToRel
<1> HIDE DEF R
<1>2. PICK x \in T : \A z \in T : ~ (<<z, x>> \in R)
    BY <1>1, WFMin
<1>3. ASSUME NEW y \in T PROVE x <= y
  <2>1. x \in Nat /\ y \in Nat /\ ~ (<<y, x>> \in R)
      BY <1>2
  <2> QED
      BY <2>1 DEF R
<1> QED
    BY <1>3

\* A bounded one has a greatest.
LEMMA GreatestOf ==
    ASSUME NEW T, T \subseteq Nat, T # {}, NEW b \in Nat, \A x \in T : x <= b
    PROVE  \E x \in T : \A y \in T : y <= x
<1> DEFINE D == {n \in Nat : \A x \in T : x <= n}
<1>1. PICK m \in D : \A n \in D : m <= n
  <2>1. D \subseteq Nat /\ b \in D
      OBVIOUS
  <2> HIDE DEF D
  <2> QED
      BY <2>1, LeastOf
<1>2. m \in T
  <2> SUFFICES ASSUME m \notin T PROVE FALSE
      OBVIOUS
  <2>1. \A x \in T : x < m
      BY <1>1
  <2>2. m # 0 /\ m - 1 \in Nat
    <3>1. PICK x \in T : TRUE
        OBVIOUS
    <3>2. x \in Nat /\ x < m /\ m \in Nat
        BY <2>1
    <3> QED
        BY <3>2
  <2>3. m - 1 \in D
      BY <2>1, <2>2
  <2> QED
      BY <1>1, <2>3
<1> QED
    BY <1>1, <1>2

-----------------------------------------------------------------------------
(* The median.                                                             *)

\* The samples kept: a speed, and how the process that reported it ended.
SampleSet == [rate : Rates, rc : {"zero", "nonzero", "timeout"}]

\* The k-th smallest speed of some samples exists, for any k of theirs.
LEMMA RankedExists ==
    ASSUME NEW kept \in Seq(SampleSet), NEW k \in 1..Len(kept)
    PROVE  Ranked(kept, k) \in Nat
<1> DEFINE D == DOMAIN kept
           rates == {kept[i].rate : i \in D}
           Below(r) == {i \in D : kept[i].rate < r}
           UpTo(r) == {i \in D : kept[i].rate <= r}
<1>1. D = 1..Len(kept) /\ Len(kept) \in Nat /\ \A i \in D : kept[i].rate \in Nat
  <2>1. D = 1..Len(kept) /\ Len(kept) \in Nat /\ \A i \in D : kept[i] \in SampleSet
      OBVIOUS
  <2>2. \A x \in SampleSet : x.rate \in Nat
      BY RatesAssumption DEF SampleSet
  <2> QED
      BY <2>1, <2>2
<1>2. IsFiniteSet(D) /\ Cardinality(D) = Len(kept)
    BY <1>1, FS_Interval
<1>3. \A S \in SUBSET D : IsFiniteSet(S) /\ Cardinality(S) \in 0..Len(kept)
  <2> TAKE S \in SUBSET D
  <2>1. IsFiniteSet(S) /\ Cardinality(S) <= Cardinality(D)
      BY <1>2, FS_Subset
  <2>2. Cardinality(S) \in Nat
      BY <2>1, FS_CardinalityType
  <2> QED
      BY <1>1, <1>2, <2>1, <2>2
<1>4. rates \subseteq Nat
    BY <1>1
<1> DEFINE Enough == {r \in rates : Cardinality(UpTo(r)) >= k}
<1>5. Enough # {}
  <2> DEFINE counts == {Cardinality(UpTo(kept[i].rate)) : i \in D}
  <2>1. counts \subseteq Nat /\ counts # {} /\ \A x \in counts : x <= Len(kept)
    <3>1. \A i \in D : Cardinality(UpTo(kept[i].rate)) \in 0..Len(kept)
        BY <1>3
    <3>2. 1 \in D
        BY <1>1
    <3>3. \A x \in 0..Len(kept) : x \in Nat /\ x <= Len(kept)
        BY <1>1
    <3>4. counts \subseteq 0..Len(kept)
        BY <3>1
    <3> QED
        BY <3>2, <3>3, <3>4
  <2>2. PICK x \in counts : \A y \in counts : y <= x
    <3> HIDE DEF counts
    <3> QED
        BY <1>1, <2>1, GreatestOf
  <2>3. PICK j \in D : x = Cardinality(UpTo(kept[j].rate))
      OBVIOUS
  <2>4. UpTo(kept[j].rate) = D
    <3> SUFFICES ASSUME NEW i \in D, kept[j].rate < kept[i].rate PROVE FALSE
        BY <1>1
    <3> DEFINE A == UpTo(kept[j].rate)
               B == UpTo(kept[i].rate)
    <3>1. i \notin A /\ A \cup {i} \subseteq B
        BY <1>1
    <3>2. IsFiniteSet(A) /\ IsFiniteSet(B) /\ Cardinality(A) \in Nat /\ Cardinality(B) \in Nat
        BY <1>3
    <3>3. Cardinality(B) <= Cardinality(A)
        BY <2>2, <2>3
    <3> HIDE DEF A, B
    <3>4. Cardinality(A \cup {i}) = Cardinality(A) + 1
        BY <3>1, <3>2, FS_AddElement
    <3>5. Cardinality(A \cup {i}) <= Cardinality(B)
        BY <3>1, <3>2, FS_Subset
    <3> QED
        BY <3>2, <3>3, <3>4, <3>5
  <2>5. kept[j].rate \in Enough
    <3>1. Cardinality(UpTo(kept[j].rate)) = Len(kept)
        BY <1>2, <2>4
    <3>2. Len(kept) >= k
        BY <1>1
    <3>3. Cardinality(UpTo(kept[j].rate)) >= k
      <4> HIDE DEF UpTo
      <4> QED
          BY <3>1, <3>2
    <3> QED
        BY <3>3
  <2> QED
      BY <2>5
<1>6. PICK r \in Enough : \A q \in Enough : r <= q
  <2>1. Enough \subseteq Nat
      BY <1>4
  <2> HIDE DEF Enough
  <2> QED
      BY <1>5, <2>1, LeastOf
<1>7. Cardinality(Below(r)) < k
  <2> SUFFICES ASSUME Cardinality(Below(r)) >= k PROVE FALSE
      BY <1>1, <1>3
  <2> DEFINE lower == {kept[i].rate : i \in Below(r)}
  <2>1. r \in Nat
      BY <1>4
  <2>2. Below(r) # {}
    <3>1. Cardinality(Below(r)) \in Nat
        BY <1>1, <1>3
    <3> HIDE DEF Below
    <3>2. Cardinality(Below(r)) # 0
        BY <1>1, <3>1
    <3> QED
        BY <3>2, FS_EmptySet
  <2>3. lower \subseteq Nat /\ lower # {} /\ \A x \in lower : x <= r
    <3>1. \A i \in Below(r) : kept[i].rate \in Nat /\ kept[i].rate <= r
        BY <1>1, <2>1
    <3> HIDE DEF Below
    <3> QED
        BY <2>2, <3>1
  <2>4. PICK q \in lower : \A x \in lower : x <= q
    <3> HIDE DEF lower
    <3> QED
        BY <2>1, <2>3, GreatestOf
  <2>5. q < r /\ q \in rates
      BY <1>1, <2>1, <2>4
  <2>6. UpTo(q) = Below(r)
      BY <1>1, <1>4, <2>1, <2>4, <2>5
  <2>7. q \in Enough
      BY <2>5, <2>6
  <2>8. r <= q /\ q \in Nat
      BY <1>4, <1>6, <2>5, <2>7
  <2> QED
      BY <2>1, <2>5, <2>8
<1>8. \E q \in rates : Cardinality(Below(q)) < k /\ Cardinality(UpTo(q)) >= k
    BY <1>6, <1>7
<1>9. Ranked(kept, k) \in rates
    BY <1>8 DEF Ranked
<1> QED
    BY <1>4, <1>9

\* aggregate: any sample makes the median a speed, none makes it less than that.
LEMMA MedianIsANumber ==
    ASSUME NEW kept \in Seq(SampleSet)
    PROVE  IF kept = <<>> THEN Median2(kept) = -1 ELSE Median2(kept) \in Nat
<1>1. CASE Len(kept) = 0
    BY <1>1 DEF Median2
<1>2. CASE Len(kept) # 0
  <2>1. /\ Len(kept) \in Nat \ {0} /\ kept # <<>>
        /\ (Len(kept) + 1) \div 2 \in 1..Len(kept)
        /\ (Len(kept) \div 2) + 1 \in 1..Len(kept)
      BY <1>2
  <2>2. /\ Ranked(kept, (Len(kept) + 1) \div 2) \in Nat
        /\ Ranked(kept, (Len(kept) \div 2) + 1) \in Nat
      BY <2>1, RankedExists
  <2> QED
      BY <2>1, <2>2 DEF Median2
<1> QED
    BY <1>1, <1>2

-----------------------------------------------------------------------------
(* The search for the best cell.                                           *)

\* f records the best cell so far, as the loop over the cells from..upto does.
Search(f, from, upto, table) ==
    f = [c \in (from - 1)..upto |->
            IF c < from THEN 0
            ELSE IF Better(f[c - 1], c, table) THEN c ELSE f[c - 1]]

\* The loop has such a record.
LEMMA SearchEnds ==
    ASSUME NEW from \in Nat \ {0}, NEW upto \in Nat, from - 1 <= upto, NEW table
    PROVE  \E f : Search(f, from, upto, table)
<1> DEFINE Endless == {m \in (from - 1)..upto : ~ \E f : Search(f, from, m, table)}
<1> SUFFICES ASSUME Endless # {} PROVE FALSE
    OBVIOUS
<1>1. Endless \subseteq Nat
    OBVIOUS
<1>2. PICK m \in Endless : \A n \in Endless : m <= n
  <2> HIDE DEF Endless
  <2> QED
      BY <1>1, LeastOf
<1>3. m \in (from - 1)..upto /\ ~ \E f : Search(f, from, m, table)
    BY <1>2
<1>4. CASE m = from - 1
  <2> DEFINE f == [c \in (from - 1)..m |-> 0]
  <2>1. \A c \in (from - 1)..m : c < from
      BY <1>4
  <2>2. Search(f, from, m, table)
      BY <2>1 DEF Search
  <2> QED
      BY <1>3, <2>2
<1>5. CASE m # from - 1
  <2>1. m - 1 \in (from - 1)..upto /\ m \in Nat /\ ~(m <= m - 1)
      BY <1>3, <1>5
  <2>2. PICK f : Search(f, from, m - 1, table)
      BY <1>2, <2>1
  <2> DEFINE g == [c \in (from - 1)..m |->
                      IF c < m THEN f[c]
                      ELSE IF Better(f[m - 1], m, table) THEN m ELSE f[m - 1]]
  <2>3. \A c \in (from - 1)..m :
            g[c] = IF c < from THEN 0
                   ELSE IF Better(g[c - 1], c, table) THEN c ELSE g[c - 1]
    <3> TAKE c \in (from - 1)..m
    <3>1. CASE c < m
      <4>1. c \in (from - 1)..(m - 1) /\ g[c] = f[c]
          BY <2>1, <3>1
      <4>2. f[c] = IF c < from THEN 0
                   ELSE IF Better(f[c - 1], c, table) THEN c ELSE f[c - 1]
          BY <4>1, <2>2 DEF Search
      <4>3. c >= from => g[c - 1] = f[c - 1]
          BY <2>1, <3>1
      <4> HIDE DEF g
      <4> QED
          BY <2>1, <4>1, <4>2, <4>3
    <3>2. CASE c = m
      <4>1. g[c - 1] = f[m - 1] /\ ~(c < from)
          BY <1>5, <2>1, <3>2
      <4>2. g[c] = IF Better(f[m - 1], m, table) THEN m ELSE f[m - 1]
          BY <3>2, <2>1
      <4> HIDE DEF g
      <4> QED
          BY <3>2, <4>1, <4>2
    <3> QED
        BY <2>1, <3>1, <3>2
  <2>4. g = [c \in (from - 1)..m |-> g[c]]
      OBVIOUS
  <2> HIDE DEF g
  <2>5. Search(g, from, m, table)
      BY <2>3, <2>4 DEF Search
  <2> QED
      BY <1>3, <2>5
<1> QED
    BY <1>4, <1>5

\* Cell b is the best of the cells from..upto, the first such; or b is 0 and
\* none of them was measured.
Best(b, from, upto, table) ==
    \/ b = 0 /\ \A c \in from..upto : table[c] = <<>>
    \/ /\ b \in from..upto /\ table[b] # <<>>
       /\ \A c \in from..upto :
             /\ Median2(table[c]) <= Median2(table[b])
             /\ c < b => Median2(table[c]) < Median2(table[b])

\* The loop ends with the best cell.
THEOREM OptimumIsTheBest ==
    ASSUME NEW from \in Nat \ {0}, NEW upto \in Nat, from - 1 <= upto, NEW table,
           \A c \in from..upto : table[c] \in Seq(SampleSet)
    PROVE  Best(Optimum(from, upto, table), from, upto, table)
<1> DEFINE best == CHOOSE f : Search(f, from, upto, table)
<1>1. Optimum(from, upto, table) = best[upto]
    BY DEF Optimum, Search
<1>2. Search(best, from, upto, table)
    BY SearchEnds
<1> HIDE DEF best
<1>3. \A c \in (from - 1)..upto :
          best[c] = IF c < from THEN 0
                    ELSE IF Better(best[c - 1], c, table) THEN c ELSE best[c - 1]
    BY <1>2 DEF Search
<1>4. \A c \in from..upto : /\ Median2(table[c]) \in Int
                            /\ table[c] = <<>> => Median2(table[c]) = -1
                            /\ table[c] # <<>> => Median2(table[c]) >= 0
  <2> TAKE c \in from..upto
  <2>1. IF table[c] = <<>> THEN Median2(table[c]) = -1 ELSE Median2(table[c]) \in Nat
      BY MedianIsANumber
  <2> QED
      BY <2>1
<1> DEFINE Wrong == {m \in (from - 1)..upto : ~ Best(best[m], from, m, table)}
<1>5. Wrong = {}
  <2> SUFFICES ASSUME Wrong # {} PROVE FALSE
      OBVIOUS
  <2>1. Wrong \subseteq Nat
      OBVIOUS
  <2>2. PICK m \in Wrong : \A n \in Wrong : m <= n
    <3> HIDE DEF Wrong
    <3> QED
        BY <2>1, LeastOf
  <2>3. m \in (from - 1)..upto /\ ~ Best(best[m], from, m, table)
      BY <2>2
  <2>4. m # from - 1
      BY <1>3, <2>3 DEF Best
  <2>5. m - 1 \in (from - 1)..upto /\ m \in from..upto /\ ~(m <= m - 1)
      BY <2>3, <2>4
  <2> DEFINE b == best[m - 1]
  <2>6. Best(b, from, m - 1, table)
      BY <2>2, <2>5
  <2>7. best[m] = IF Better(b, m, table) THEN m ELSE b
      BY <1>3, <2>5
  <2> HIDE DEF b, Wrong
  <2>8. \A c \in from..m : c = m \/ c \in from..(m - 1)
      BY <2>5
  <2>9. CASE b = 0 /\ \A c \in from..(m - 1) : table[c] = <<>>
    <3>1. CASE table[m] = <<>>
      <4>1. best[m] = 0
          BY <2>7, <2>9, <3>1 DEF Better
      <4> QED
          BY <2>3, <2>8, <2>9, <3>1, <4>1 DEF Best
    <3>2. CASE table[m] # <<>>
      <4>1. best[m] = m
          BY <2>7, <2>9, <3>2 DEF Better
      <4>2. \A c \in from..m : /\ Median2(table[c]) <= Median2(table[m])
                               /\ c < m => Median2(table[c]) < Median2(table[m])
        <5> TAKE c \in from..m
        <5>1. CASE c = m
            BY <1>4, <2>5, <5>1
        <5>2. CASE c \in from..(m - 1)
            BY <1>4, <2>5, <2>9, <3>2, <5>2
        <5> QED
            BY <2>8, <5>1, <5>2
      <4> QED
          BY <2>3, <2>5, <3>2, <4>1, <4>2 DEF Best
    <3> QED
        BY <3>1, <3>2
  <2>10. CASE /\ b \in from..(m - 1) /\ table[b] # <<>>
              /\ \A c \in from..(m - 1) :
                    /\ Median2(table[c]) <= Median2(table[b])
                    /\ c < b => Median2(table[c]) < Median2(table[b])
    <3>0. /\ b # 0 /\ b \in from..upto /\ m \in from..upto /\ b < m
          /\ Median2(table[b]) \in Int /\ Median2(table[m]) \in Int
          /\ \A c \in from..(m - 1) : Median2(table[c]) \in Int
        BY <1>4, <2>5, <2>10
    <3>1. CASE Better(b, m, table)
      <4>1. best[m] = m /\ table[m] # <<>> /\ Median2(table[b]) < Median2(table[m])
          BY <2>7, <3>0, <3>1 DEF Better
      <4>2. \A c \in from..m : /\ Median2(table[c]) <= Median2(table[m])
                               /\ c < m => Median2(table[c]) < Median2(table[m])
        <5> TAKE c \in from..m
        <5>1. CASE c = m
            BY <3>0, <5>1
        <5>2. CASE c \in from..(m - 1)
            BY <2>10, <3>0, <4>1, <5>2
        <5> QED
            BY <2>8, <5>1, <5>2
      <4> QED
          BY <2>3, <2>5, <4>1, <4>2 DEF Best
    <3>2. CASE ~Better(b, m, table)
      <4>1. best[m] = b
          BY <2>7, <3>2
      <4>2. Median2(table[m]) <= Median2(table[b])
        <5>1. CASE table[m] = <<>>
            BY <1>4, <2>10, <3>0, <5>1
        <5>2. CASE table[m] # <<>>
            BY <3>0, <3>2, <5>2 DEF Better
        <5> QED
            BY <5>1, <5>2
      <4>3. \A c \in from..m : /\ Median2(table[c]) <= Median2(table[b])
                               /\ c < b => Median2(table[c]) < Median2(table[b])
          BY <2>8, <2>10, <3>0, <4>2
      <4>4. b \in from..m
          BY <2>10, <2>5
      <4> QED
          BY <2>3, <2>10, <4>1, <4>3, <4>4 DEF Best
    <3> QED
        BY <3>1, <3>2
  <2> QED
      BY <2>6, <2>9, <2>10 DEF Best
<1>6. upto \in (from - 1)..upto
    OBVIOUS
<1> QED
    BY <1>1, <1>5, <1>6

-----------------------------------------------------------------------------
(* The invariant.                                                          *)

\* A table of values, by stage and cell.
Table(f, V) ==
    /\ f = [s \in Measuring |-> f[s]]
    /\ \A s \in Measuring : f[s] \in [Cells(s) -> V]

RowSet == [from : {"debugger", "record", "notAvailable", "skipped"},
           dispatch : [verified : BOOLEAN, fires : SUBSET Families, counted : BOOLEAN],
           truth : SUBSET Families]

\* The measuring stages that may still come.
Ahead(s) ==
    CASE s = "start" -> Measuring
      [] s = "sweep" -> {"default", "warmup", "split", "compare"}
      [] s = "default" -> {"warmup", "split", "compare"}
      [] s = "warmup" -> {"split", "compare"}
      [] OTHER -> {}

\* Types, and where a stage begins.
PlaceInv ==
    /\ args \in Args
    /\ stage \in Measuring \cup {"start", "ledger", "verify", "json", "md"}
    /\ round \in 1..Reps /\ attempt \in 0..RetriesIn /\ pos \in Nat \ {0}
    /\ stage \in Measuring => pos \in Cells(stage) /\ round <= Rounds(stage)
    /\ stage = "start" => pos = 1 /\ round = 1 /\ attempt = 0
    /\ files \in [json : {"old", "torn", "new"}, md : {"old", "torn", "new"}]
    /\ exit \in {"running", "usage", "died", "ok"}
    /\ faults \in 0..MaxFaults
    /\ hung \in BOOLEAN

TablesInv ==
    /\ Table(samples, Seq(SampleSet)) /\ Table(errors, SUBSET Nat) /\ Table(tried, Nat)
    /\ rows \in Seq(RowSet)

\* The place in a stage tells how often each cell was called.
TriedInv ==
    \A s \in Measuring :
        /\ s \in Ahead(stage) => \A i \in Cells(s) : tried[s][i] = 0
        /\ s = stage => \A i \in Cells(s) :
                            tried[s][i] = IF i < pos THEN round ELSE round - 1
        /\ s # stage => \/ \A i \in Cells(s) : tried[s][i] = 0
                        \/ \A i \in Cells(s) : tried[s][i] = Rounds(s)

\* Errors are of rounds that were called; where a call leaves either a sample
\* or an error the two add up.
KeptInv ==
    /\ \A s \in Measuring : \A i \in Cells(s) : errors[s][i] \subseteq 1..tried[s][i]
    /\ mode # "bench" =>
          \A s \in {"sweep", "split", "compare"} : \A i \in Cells(s) :
              Len(samples[s][i]) + Cardinality(errors[s][i]) = tried[s][i]

\* The optima are those of the samples of the sweep, once it is over.
OptimaInv ==
    optima = IF mode = "crossover" /\ stage \notin {"start", "sweep"}
             THEN OptimaOf(samples["sweep"])
             ELSE [p \in {"decode", "prefill"} |-> 0]

\* The files follow the stages.
FilesInv ==
    /\ stage # "md" => files.md = "old"
    /\ stage = "md" => files.json = "new" /\ mode # "compare"
    /\ files.json # "old" => stage \in {"json", "md"}
    /\ exit = "ok" => /\ files.json = "new"
                      /\ mode # "compare" => files.md = "new"

\* Within a call the attempts so far are remembered, and each timed out.
AttemptsInv ==
    /\ last \in Seq(BOOLEAN)
    /\ attempt > 0 => Len(last) = attempt /\ last[attempt]

HInv == /\ PlaceInv
        /\ TablesInv
        /\ TriedInv
        /\ KeptInv
        /\ OptimaInv
        /\ FilesInv
        /\ OnlyWholeRuns
        /\ AttemptsInv
        /\ GivesUpLate
        /\ LabelIsWitnessed

-----------------------------------------------------------------------------
(* The cells.                                                              *)

\* Products and quotients.
LEMMA Products == \A a, b \in Nat \ {0} : a * b \in Nat \ {0}
OBVIOUS

\* Below n a quotient by n is 0, from there to below 2 * n it is 1.
LEMMA Quotients ==
    \A n \in Nat \ {0}, a \in Nat : /\ a < n => a \div n = 0
                                    /\ n <= a /\ a < 2 * n => a \div n = 1
OBVIOUS

\* Every stage has cells, numbered from 1.
LEMMA CellFacts ==
    ASSUME NEW s \in Measuring
    PROVE  \E n \in Nat \ {0} : Cells(s) = 1..n
<1>1. /\ Len(ThreadsList) \in Nat \ {0} /\ Len(SmeList) \in Nat \ {0}
      /\ Len(BenchPhases) \in Nat \ {0} /\ Len(BenchSmeList) \in Nat \ {0}
    BY ListAssumption
<1>2. Len(Phases) = 2 /\ DOMAIN Phases = 1..2 /\ DOMAIN SME_MODES = 1..2
    BY DEF Phases, SME_MODES
<1>3. \E n \in Nat \ {0} : DOMAIN SweepCells = 1..n
  <2> DEFINE n == Len(Phases) * Len(ThreadsList) * Len(SmeList)
  <2>1. n \in Nat \ {0}
      BY <1>1, <1>2, Products
  <2>2. DOMAIN SweepCells = 1..n
      BY DEF SweepCells
  <2> QED
      BY <2>1, <2>2
<1>4. \E n \in Nat \ {0} : DOMAIN Available = 1..n
  <2> DEFINE n == Len(BenchPhases) * Len(<<"Q4_0">>) * Len(BenchSmeList)
  <2>1. n \in Nat \ {0}
      BY <1>1, Products
  <2>2. DOMAIN Available = 1..n
      BY DEF Available, Grid
  <2> QED
      BY <2>1, <2>2
<1>5. DOMAIN (IF mode = "bench" THEN Available ELSE SweepCells)
          = IF mode = "bench" THEN DOMAIN Available ELSE DOMAIN SweepCells
    OBVIOUS
<1>6. CASE s = "sweep"
    BY <1>3, <1>4, <1>5, <1>6 DEF Cells, PhasesIn
<1>7. CASE s = "default"
    BY <1>2, <1>7 DEF Cells, PhasesIn
<1>8. CASE s \notin {"sweep", "default"}
  <2>1. Cells(s) = IF mode = "compare" THEN 1..4 ELSE DOMAIN SME_MODES
      BY <1>8 DEF Cells, PhasesIn
  <2>2. Cells(s) = 1..4 \/ Cells(s) = 1..2
      BY <1>2, <2>1
  <2>3. 4 \in Nat \ {0} /\ 2 \in Nat \ {0}
      OBVIOUS
  <2> QED
      BY <2>2, <2>3
<1> QED
    BY <1>6, <1>7, <1>8

\* They, the rounds and the retries depend on the command line only.
LEMMA SameArgs ==
    ASSUME args' = args
    PROVE  /\ mode' = mode /\ RetriesIn' = RetriesIn
           /\ \A s : Cells(s)' = Cells(s)
BY DEF mode, RetriesIn, Cells, PhasesIn

\* The cells of a phase of the sweep are a block.
LEMMA PhaseBlocks ==
    /\ PerPhase \in Nat \ {0}
    /\ DOMAIN SweepCells = 1..(2 * PerPhase)
    /\ \A i \in 1..(2 * PerPhase) :
          SweepCells[i].phase = IF i <= PerPhase THEN "decode" ELSE "prefill"
<1> DEFINE t == Len(ThreadsList)
           m == Len(SmeList)
<1>1. t \in Nat \ {0} /\ m \in Nat \ {0}
    BY ListAssumption
<1>2. PerPhase = t * m /\ PerPhase \in Nat \ {0}
    BY <1>1, Products DEF PerPhase
<1>3. Len(Phases) * t * m = 2 * PerPhase
    BY <1>1, <1>2 DEF Phases
<1>4. DOMAIN SweepCells = 1..(2 * PerPhase)
    BY <1>3 DEF SweepCells
<1>5. \A i \in 1..(2 * PerPhase) :
          SweepCells[i].phase = Phases[((i - 1) \div PerPhase) + 1]
    BY <1>2, <1>3 DEF SweepCells
<1>6. ASSUME NEW i \in 1..(2 * PerPhase)
      PROVE  SweepCells[i].phase = IF i <= PerPhase THEN "decode" ELSE "prefill"
  <2>1. i - 1 \in Nat /\ i - 1 < 2 * PerPhase
      BY <1>2
  <2>2. (i - 1) \div PerPhase = IF i <= PerPhase THEN 0 ELSE 1
    <3>1. PerPhase \in Nat \ {0}
        BY <1>2
    <3>2. /\ i - 1 < PerPhase => (i - 1) \div PerPhase = 0
          /\ PerPhase <= i - 1 => (i - 1) \div PerPhase = 1
        BY <2>1, <3>1, Quotients
    <3>3. IF i <= PerPhase THEN i - 1 < PerPhase ELSE PerPhase <= i - 1
        BY <3>1
    <3> QED
        BY <3>2, <3>3
  <2>3. Phases[1] = "decode" /\ Phases[2] = "prefill"
      BY DEF Phases
  <2> QED
      BY <1>5, <2>2, <2>3
<1> QED
    BY <1>2, <1>4, <1>6

-----------------------------------------------------------------------------
(* The order of the stages.                                                *)

\* What may come after each stage.
LEMMA AheadFacts ==
    /\ Ahead("start") = Measuring
    /\ Ahead("sweep") = {"default", "warmup", "split", "compare"}
    /\ Ahead("default") = {"warmup", "split", "compare"}
    /\ Ahead("warmup") = {"split", "compare"}
    /\ \A s \in {"split", "compare", "ledger", "verify", "json", "md"} : Ahead(s) = {}
<1>1. Ahead("start") = Measuring
    BY DEF Ahead
<1>2. Ahead("sweep") = {"default", "warmup", "split", "compare"}
    BY DEF Ahead
<1>3. Ahead("default") = {"warmup", "split", "compare"}
    BY DEF Ahead
<1>4. Ahead("warmup") = {"split", "compare"}
    BY DEF Ahead
<1>5. \A s \in {"split", "compare", "ledger", "verify", "json", "md"} : Ahead(s) = {}
    BY DEF Ahead
<1> QED
    BY <1>1, <1>2, <1>3, <1>4, <1>5

\* A measuring stage is followed by one still ahead, or by none that measures.
LEMMA AfterFacts ==
    ASSUME NEW s \in Measuring, NEW best
    PROVE  /\ After(s, best) \in Ahead(s) \cup {"ledger", "json"}
           /\ Ahead(After(s, best)) \subseteq Ahead(s)
           /\ s \notin Ahead(s) /\ "sweep" \notin Ahead(s) /\ "start" \notin Ahead(s)
           /\ After(s, best) \notin Ahead(After(s, best))
<1>1. CASE s = "sweep"
  <2>1. After(s, best) \in {"ledger", "default"}
      BY <1>1 DEF After
  <2> QED
      BY <1>1, <2>1, AheadFacts
<1>2. CASE s = "default"
  <2>1. After(s, best) \in {"warmup", "json"}
      BY <1>2 DEF After
  <2> QED
      BY <1>2, <2>1, AheadFacts
<1>3. CASE s = "warmup"
  <2>1. After(s, best) \in {"compare", "split"}
      BY <1>3 DEF After
  <2> QED
      BY <1>3, <2>1, AheadFacts
<1>4. CASE s \in {"split", "compare"}
  <2>1. After(s, best) = "json"
      BY <1>4 DEF After
  <2> QED
      BY <1>4, <2>1, AheadFacts
<1> QED
    BY <1>1, <1>2, <1>3, <1>4 DEF Measuring

-----------------------------------------------------------------------------
(* One call.                                                               *)

\* What the caller makes of it: only a time-out is retried, a sample comes with
\* success only, and those of llama-bench come from processes that ended well.
Told(s, r) ==
    /\ r.ok \in BOOLEAN /\ r.timeout \in BOOLEAN
    /\ r.timeout => ~r.ok
    /\ \/ r.samples = <<>>
       \/ \E x \in SampleSet : /\ r.samples = <<x>> /\ r.ok
                               /\ s \in {"sweep", "default"} => x.rc = "zero"
    /\ r.ok /\ s \notin {"sweep", "default"} => r.samples # <<>>

\* Both kinds of call are told so, however the process ended.
LEMMA ResultIsTold ==
    ASSUME NEW s, NEW o \in Outcome
    PROVE  Told(s, Result(s, o))
<1>1. /\ Sample(o) \in SampleSet /\ Sample(o).rc = o.rc
      /\ o.rc \in {"zero", "nonzero", "timeout"}
    BY DEF Outcome, Sample, SampleSet
<1>2. /\ Error(o).ok = FALSE /\ Error(o).timeout \in BOOLEAN /\ Error(o).samples = <<>>
      /\ \A q : Got(q).ok = TRUE /\ Got(q).timeout = FALSE /\ Got(q).samples = q
    BY DEF Error, Got
<1>3. CASE s \in {"sweep", "default"}
  <2>1. Result(s, o) = run_llama_bench_once(o)
      BY <1>3 DEF Result
  <2>2. \/ Result(s, o) = Error(o)
        \/ Result(s, o) = Got(<<>>)
        \/ Result(s, o) = Got(<<Sample(o)>>) /\ o.rc = "zero"
      BY <2>1 DEF run_llama_bench_once
  <2> QED
      BY <1>1, <1>2, <1>3, <2>2 DEF Told
<1>4. CASE s \notin {"sweep", "default"}
  <2>1. Result(s, o) = run_llama_cli_config_once(o)
      BY <1>4 DEF Result
  <2>2. Result(s, o) = Error(o) \/ Result(s, o) = Got(<<Sample(o)>>)
      BY <2>1 DEF run_llama_cli_config_once
  <2>3. <<Sample(o)>> # <<>>
      OBVIOUS
  <2> QED
      BY <1>1, <1>2, <1>4, <2>2, <2>3 DEF Told
<1> QED
    BY <1>3, <1>4

\* A result is a time-out when the attempt it came from was one.
LEMMA TimeoutIsTold ==
    ASSUME NEW s, NEW o
    PROVE  TimedOut(o, Result(s, o)) = Result(s, o).timeout
<1>1. Result(s, o) = Error(o) \/ \E q : Result(s, o) = Got(q)
    BY DEF Result, run_llama_bench_once, run_llama_cli_config_once
<1>2. TimedOut(o, Error(o)) = Error(o).timeout
    BY DEF Error, TimedOut
<1>3. \A q : TimedOut(o, Got(q)) = Got(q).timeout
    BY DEF Got, TimedOut
<1> QED
    BY <1>1, <1>2, <1>3

\* An attempt is remembered with the earlier ones of its call.
Attempted(r) == last' = Append(IF attempt = 0 THEN <<>> ELSE last, r.timeout)

\* A call is repeated, or it is settled and the loop moves on.
Repeated(r) ==
    /\ TriesAgain(r, attempt, RetriesIn) /\ attempt' = attempt + 1
    /\ UNCHANGED <<stage, round, pos, samples, errors, tried, optima>>

Settled(r) ==
    /\ ~TriesAgain(r, attempt, RetriesIn)
    /\ tried' = [tried EXCEPT ![stage][pos] = @ + 1]
    /\ IF stage = "warmup" THEN UNCHANGED <<samples, errors>>
       ELSE /\ samples' = [samples EXCEPT ![stage][pos] = @ \o r.samples]
            /\ errors' = [errors EXCEPT ![stage][pos] =
                             IF Failed(r) THEN @ \cup {round} ELSE @]
    /\ MoveOn

\* Call does one of the two, and touches nothing of the end of the run.
LEMMA CallSplits ==
    ASSUME Call
    PROVE  /\ stage \in Measuring /\ exit = "running"
           /\ UNCHANGED <<args, rows, files, exit>>
           /\ \E r : Told(stage, r) /\ Attempted(r) /\ (Repeated(r) \/ Settled(r))
           /\ hung' = FALSE
           /\ faults \in 0..MaxFaults => faults' \in 0..MaxFaults
<1>1. /\ stage \in Measuring /\ exit = "running"
      /\ UNCHANGED <<args, rows, files, exit>> /\ hung' = FALSE
    BY DEF Call
<1>2. PICK o \in Possible :
          /\ Spend(IF Clean(o) \/ Again \/ hung THEN 0 ELSE 1)
          /\ last' = Append(IF attempt = 0 THEN <<>> ELSE last,
                            TimedOut(o, Result(stage, o)))
          /\ Repeated(Result(stage, o)) \/ Settled(Result(stage, o))
    BY DEF Call, Repeated, Settled
<1>3. o \in Outcome
    BY DEF Possible
<1>4. Told(stage, Result(stage, o))
    BY <1>3, ResultIsTold
<1>5. Spend(0) \/ Spend(1)
    BY <1>2
<1>6. faults \in 0..MaxFaults => faults' \in 0..MaxFaults
    BY <1>5, CountAssumption DEF Spend
<1>7. Attempted(Result(stage, o))
    BY <1>2, TimeoutIsTold DEF Attempted
<1> QED
    BY <1>1, <1>2, <1>4, <1>6, <1>7

\* Where the loop moves on to.
LEMMA Moves ==
    ASSUME PlaceInv, stage \in Measuring, MoveOn
    PROVE  /\ attempt' = 0
           /\ \/ /\ pos + 1 \in Cells(stage) /\ pos' = pos + 1
                 /\ UNCHANGED <<stage, round, optima>>
              \/ /\ Cells(stage) = 1..pos /\ round < Rounds(stage)
                 /\ pos' = 1 /\ round' = round + 1
                 /\ UNCHANGED <<stage, optima>>
              \/ /\ Cells(stage) = 1..pos /\ round = Rounds(stage)
                 /\ pos' = 1 /\ round' = 1
                 /\ optima' = IF stage = "sweep" /\ mode = "crossover"
                              THEN OptimaOf(samples'["sweep"]) ELSE optima
                 /\ stage' = After(stage, optima')
<1>1. PICK n \in Nat \ {0} : Cells(stage) = 1..n
    BY CellFacts
<1>2. /\ pos \in 1..n /\ round \in Nat /\ round <= Rounds(stage)
      /\ Rounds(stage) \in Nat
    BY <1>1, CountAssumption DEF PlaceInv, Rounds
<1>3. pos + 1 \notin Cells(stage) => pos = n
    BY <1>1, <1>2
<1>4. ~(round < Rounds(stage)) => round = Rounds(stage)
    BY <1>2
<1> QED
    BY <1>1, <1>3, <1>4 DEF MoveOn

\* What the other steps leave alone, and where they lead.
LEMMA Others ==
    ASSUME [Next]_vars, ~Call
    PROVE  /\ UNCHANGED <<args, round, attempt, samples, errors, tried, last, optima>>
           /\ \/ stage' = stage /\ (stage # "verify" => pos' = pos)
              \/ stage = "start" /\ stage' = FirstStage /\ pos' = pos
              \/ /\ stage \in {"ledger", "verify", "json"}
                 /\ stage' \in {"verify", "json", "md"}
<1>1. CASE Start
    BY <1>1 DEF Start, results
<1>2. CASE LoadLedger \/ VerifierMissing \/ Hang \/ Die
    BY <1>2 DEF LoadLedger, VerifierMissing, Hang, Die, results, place
<1>3. CASE VerifyRow
    BY <1>3 DEF VerifyRow, results
<1>4. CASE WriteJson \/ WriteMd
    BY <1>4 DEF WriteJson, WriteMd, results, place
<1>5. CASE UNCHANGED vars
    BY <1>5 DEF vars
<1> QED
    BY <1>1, <1>2, <1>3, <1>4, <1>5 DEF Next, Work

\* Table g is table f with the entry of cell b of stage a set to v.
Updated(g, f, a, b, v) == g = [f EXCEPT ![a] = [f[a] EXCEPT ![b] = v]]

\* One cell of a table changes.
LEMMA TableUpdate ==
    ASSUME NEW V, NEW f, Table(f, V), NEW a \in Measuring, NEW b \in Cells(a), NEW v \in V,
           NEW g, Updated(g, f, a, b, v)
    PROVE  /\ Table(g, V)
           /\ \A s \in Measuring : \A i \in Cells(s) :
                 g[s][i] = IF s = a /\ i = b THEN v ELSE f[s][i]
<1>1. f = [s \in Measuring |-> f[s]] /\ \A s \in Measuring : f[s] \in [Cells(s) -> V]
    BY DEF Table
<1>2. /\ g = [s \in Measuring |-> g[s]]
      /\ \A s \in Measuring : g[s] = IF s = a THEN [f[a] EXCEPT ![b] = v] ELSE f[s]
    BY <1>1 DEF Updated
<1>3. [f[a] EXCEPT ![b] = v] \in [Cells(a) -> V]
    BY <1>1
<1>4. \A s \in Measuring : g[s] \in [Cells(s) -> V]
    BY <1>1, <1>2, <1>3
<1>5. \A s \in Measuring : \A i \in Cells(s) :
          g[s][i] = IF s = a /\ i = b THEN v ELSE f[s][i]
    BY <1>1, <1>2
<1>6. Table(g, V)
    BY <1>2, <1>4 DEF Table
<1> QED
    BY <1>5, <1>6

-----------------------------------------------------------------------------
(* The first state.                                                        *)

\* Nothing is measured before the start.
LEMMA InitHInv == Init => HInv
<1> SUFFICES ASSUME Init PROVE HInv
    OBVIOUS
<1>1. RetriesIn \in Nat
    BY CountAssumption DEF RetriesIn
<1>2. PlaceInv
  <2>1. hung \in BOOLEAN
      BY DEF Init
  <2> QED
      BY <1>1, <2>1, CountAssumption DEF Init, PlaceInv, Measuring
<1>3. \A v, V : v \in V => Table(Empty(v), V)
    BY DEF Table, Empty
<1>4. TablesInv
  <2>1. <<>> \in Seq(SampleSet) /\ {} \in SUBSET Nat /\ 0 \in Nat /\ <<>> \in Seq(RowSet)
      OBVIOUS
  <2> QED
      BY <1>3, <2>1 DEF Init, TablesInv
<1>5. \A s \in Measuring : \A i \in Cells(s) :
          samples[s][i] = <<>> /\ errors[s][i] = {} /\ tried[s][i] = 0
    BY DEF Init, Empty
<1>6. stage = "start" /\ "start" \notin Measuring
    BY DEF Init, Measuring
<1>7. TriedInv
    BY <1>5, <1>6 DEF TriedInv
<1>8. KeptInv
  <2>1. Len(<<>>) = 0 /\ Cardinality({}) = 0
      BY FS_EmptySet
  <2>2. \A s \in Measuring : \A i \in Cells(s) :
            /\ errors[s][i] \subseteq 1..tried[s][i]
            /\ Len(samples[s][i]) + Cardinality(errors[s][i]) = tried[s][i]
    <3> TAKE s \in Measuring
    <3> TAKE i \in Cells(s)
    <3>1. samples[s][i] = <<>> /\ errors[s][i] = {} /\ tried[s][i] = 0
        BY <1>5
    <3>2. Len(samples[s][i]) = 0 /\ Cardinality(errors[s][i]) = 0
        BY <2>1, <3>1
    <3> QED
        BY <3>1, <3>2
  <2>3. {"sweep", "split", "compare"} \subseteq Measuring
      BY DEF Measuring
  <2> QED
      BY <2>2, <2>3 DEF KeptInv
<1>9. OptimaInv /\ FilesInv
    BY <1>6 DEF Init, OptimaInv, FilesInv
<1>10. OnlyWholeRuns
    BY <1>5 DEF OnlyWholeRuns, Measuring
<1>11. AttemptsInv /\ GivesUpLate /\ LabelIsWitnessed
    BY <1>1 DEF Init, AttemptsInv, GivesUpLate, LabelIsWitnessed
<1> QED
    BY <1>2, <1>4, <1>7, <1>8, <1>9, <1>10, <1>11 DEF HInv

-----------------------------------------------------------------------------
(* The steps.                                                              *)

\* The place in the command stays within its bounds.
LEMMA NextPlaceInv == PlaceInv /\ [Next]_vars => PlaceInv'
<1> SUFFICES ASSUME PlaceInv, [Next]_vars PROVE PlaceInv'
    OBVIOUS
<1> DEFINE Stages == Measuring \cup {"start", "ledger", "verify", "json", "md"}
<1>0. RetriesIn \in Nat /\ \A s : Rounds(s) \in 1..Reps
    BY CountAssumption DEF RetriesIn, Rounds
<1>1. \A s \in Measuring : 1 \in Cells(s)
    BY CellFacts
<1>2. CASE Call
  <2>1. /\ stage \in Measuring /\ UNCHANGED <<args, files, exit>>
        /\ faults' \in 0..MaxFaults /\ hung' \in BOOLEAN
      BY <1>2, CallSplits DEF PlaceInv
  <2>2. PICK r : Repeated(r) \/ Settled(r)
      BY <1>2, CallSplits
  <2>3. RetriesIn' = RetriesIn /\ \A s : Cells(s)' = Cells(s)
      BY <2>1, SameArgs
  <2>4. CASE Repeated(r)
    <3>1. /\ attempt' \in 0..RetriesIn /\ UNCHANGED <<stage, round, pos>>
        BY <1>0, <2>4 DEF Repeated, TriesAgain, PlaceInv
    <3>2. stage # "start"
        BY <2>1 DEF Measuring
    <3> QED
        BY <2>1, <2>3, <3>1, <3>2 DEF PlaceInv
  <2>5. CASE Settled(r)
    <3>1. /\ attempt' = 0
          /\ \/ /\ pos + 1 \in Cells(stage) /\ pos' = pos + 1
                /\ UNCHANGED <<stage, round>>
             \/ /\ round < Rounds(stage) /\ pos' = 1 /\ round' = round + 1
                /\ stage' = stage
             \/ pos' = 1 /\ round' = 1 /\ stage' = After(stage, optima')
        BY <2>1, <2>5, Moves DEF Settled
    <3>2. After(stage, optima') \in Stages /\ After(stage, optima') # "start"
        BY <2>1, AfterFacts, AheadFacts DEF Measuring
    <3>3. attempt' \in 0..RetriesIn /\ stage' \in Stages
        BY <1>0, <2>1, <3>1, <3>2
    <3>4. round' \in 1..Reps /\ pos' \in Nat \ {0}
        BY <1>0, <3>1, CountAssumption DEF PlaceInv
    <3>5. stage' \in Measuring => pos' \in Cells(stage') /\ round' <= Rounds(stage')
      <4>1. CASE stage' = stage
          BY <1>0, <1>1, <2>1, <3>1, <4>1, CountAssumption DEF PlaceInv
      <4>2. CASE pos' = 1 /\ round' = 1
          BY <1>0, <1>1, <4>2
      <4> QED
          BY <3>1, <4>1, <4>2
    <3>6. stage' # "start"
        BY <2>1, <3>1, <3>2 DEF Measuring
    <3>7. \A s : Rounds(s)' = Rounds(s)
        BY DEF Rounds
    <3> QED
        BY <2>1, <2>3, <3>3, <3>4, <3>5, <3>6, <3>7 DEF PlaceInv, Rounds
  <2> QED
      BY <2>2, <2>4, <2>5
<1>3. CASE ~Call
  <2>1. UNCHANGED <<args, round, attempt>>
      BY <1>3, Others
  <2>2. RetriesIn' = RetriesIn /\ \A s : Cells(s)' = Cells(s)
      BY <2>1, SameArgs
  <2>3. /\ pos' \in Nat \ {0}
        /\ files' \in [json : {"old", "torn", "new"}, md : {"old", "torn", "new"}]
        /\ exit' \in {"running", "usage", "died", "ok"}
        /\ faults' \in 0..MaxFaults /\ hung' \in BOOLEAN
    <3>1. pos' \in {1, pos, pos + 1}
        BY <1>3 DEF Next, Work, Start, LoadLedger, VerifyRow, VerifierMissing, WriteJson,
           WriteMd, Hang, Die, place, vars
    <3>2. exit' \in {"usage", "died", "ok", exit}
        BY <1>3 DEF Next, Work, Start, LoadLedger, VerifyRow, VerifierMissing, WriteJson,
           WriteMd, Hang, Die, vars
    <3>3. faults' \in 0..MaxFaults
        BY <1>3, CountAssumption DEF PlaceInv, Next, Work, Start, LoadLedger, VerifyRow,
           VerifierMissing, WriteJson, WriteMd, Hang, Die, Spend, vars
    <3>4. \/ files' = files
          \/ \E v \in {"torn", "new"} :
                files' = [files EXCEPT !.json = v] \/ files' = [files EXCEPT !.md = v]
        BY <1>3 DEF Next, Work, Start, LoadLedger, VerifyRow, VerifierMissing, WriteJson,
           WriteMd, Hang, Die, vars
    <3>5. files' \in [json : {"old", "torn", "new"}, md : {"old", "torn", "new"}]
        BY <3>4 DEF PlaceInv
    <3>6. hung' \in {FALSE, TRUE, hung}
        BY <1>3 DEF Next, Work, Start, LoadLedger, VerifyRow, VerifierMissing, WriteJson,
           WriteMd, Hang, Die, place, vars
    <3>7. hung' \in BOOLEAN
        BY <3>6, Zenon DEF PlaceInv
    <3> QED
        BY <3>1, <3>2, <3>3, <3>5, <3>7 DEF PlaceInv
  <2>4. CASE stage' = stage /\ (stage # "verify" => pos' = pos)
      BY <2>1, <2>2, <2>3, <2>4 DEF PlaceInv, Measuring, Rounds
  <2>5. CASE stage = "start" /\ stage' = FirstStage /\ pos' = pos
    <3>1. stage' \in Measuring /\ stage' # "start"
        BY <2>5 DEF FirstStage, Measuring
    <3> QED
        BY <1>0, <1>1, <2>1, <2>2, <2>3, <2>5, <3>1 DEF PlaceInv, Rounds
  <2>6. CASE stage' \in {"verify", "json", "md"}
      BY <2>1, <2>2, <2>3, <2>6 DEF PlaceInv, Measuring, Rounds
  <2> QED
      BY <1>3, <2>4, <2>5, <2>6, Others
<1> QED
    BY <1>2, <1>3

\* What a label claims is what the record of the row's dispatch holds.
LEMMA LabelClaims ==
    ASSUME NEW d \in [verified : BOOLEAN, fires : SUBSET Families, counted : BOOLEAN]
    PROVE  Claimed(dispatch_label(d)) = IF d.verified THEN d.fires ELSE {}
<1>1. /\ d.verified \in BOOLEAN /\ d.counted \in BOOLEAN
      /\ d.fires \in {Families, {"sme"}, {"neon"}, {}}
      /\ Families # {"sme"} /\ Families # {"neon"} /\ Families # {}
      /\ {"sme"} # {"neon"} /\ {"sme"} # {} /\ {"neon"} # {}
    BY DEF Families
<1>2. CASE ~d.verified
  <2>1. dispatch_label(d) = "unverified"
      BY <1>2 DEF dispatch_label
  <2> QED
      BY <1>2, <2>1 DEF Claimed
<1>3. CASE d.verified /\ d.fires = Families
  <2>1. dispatch_label(d) = IF d.counted THEN "HYBRID" ELSE "both fired"
      BY <1>1, <1>3 DEF dispatch_label
  <2>2. dispatch_label(d) \in {"HYBRID", "both fired"}
      BY <2>1
  <2> QED
      BY <1>3, <2>2 DEF Claimed
<1>4. CASE d.verified /\ d.fires = {"sme"}
  <2>1. dispatch_label(d) = "SME2 fired"
      BY <1>1, <1>4 DEF dispatch_label
  <2> QED
      BY <1>4, <2>1 DEF Claimed
<1>5. CASE d.verified /\ d.fires = {"neon"}
  <2>1. dispatch_label(d) = "NEON fired"
      BY <1>1, <1>5 DEF dispatch_label
  <2> QED
      BY <1>5, <2>1 DEF Claimed
<1>6. CASE d.verified /\ d.fires = {}
  <2>1. dispatch_label(d) = "neither fired"
      BY <1>1, <1>6 DEF dispatch_label
  <2> QED
      BY <1>6, <2>1 DEF Claimed
<1> QED
    BY <1>1, <1>2, <1>3, <1>4, <1>5, <1>6

\* The claim of a row's label is within what ran when a debugger made it, and
\* all of it or nothing when it comes with counts.
Witnessed(row) ==
    row.from = "debugger" =>
        LET claimed == Claimed(dispatch_label(row.dispatch)) IN
        /\ claimed \subseteq row.truth
        /\ row.dispatch.counted => claimed \in {{}, row.truth}

\* verify_dispatch_builtin vouches for its record, whatever the two transcripts are.
LEMMA BuiltinIsWitnessed ==
    ASSUME NEW truth \in SUBSET Families, NEW lldb \in BOOLEAN, NEW allowed \in BOOLEAN,
           NEW fast \in Fast(truth), NEW thorough \in Thorough(truth)
    PROVE  LET row == Row("debugger",
                          verify_dispatch_builtin(lldb, fast, thorough, allowed), truth)
           IN  row \in RowSet /\ Witnessed(row)
<1> DEFINE d == verify_dispatch_builtin(lldb, fast, thorough, allowed)
           row == Row("debugger", d, truth)
<1>1. /\ fast.hits \in SUBSET truth /\ thorough.hits \in SUBSET truth
      /\ thorough.end \in {"listed", "broken", "timeout"}
      /\ thorough.end = "listed" => thorough.hits = truth
      /\ thorough.end = "broken" => thorough.hits = {}
    BY DEF Fast, Thorough, Transcript
<1>2. /\ d \in [verified : BOOLEAN, fires : SUBSET Families, counted : BOOLEAN]
      /\ d.verified => d.fires \in SUBSET truth
      /\ d.counted => d.fires \in {{}, truth}
    BY <1>1 DEF verify_dispatch_builtin, Unverified
<1> HIDE DEF d
<1>3. Claimed(dispatch_label(d)) = IF d.verified THEN d.fires ELSE {}
    BY <1>2, LabelClaims
<1>4. row.from = "debugger" /\ row.dispatch = d /\ row.truth = truth
    BY DEF Row
<1>5. row \in RowSet
    BY <1>2 DEF Row, RowSet
<1>6. Claimed(dispatch_label(d)) \subseteq truth
    BY <1>2, <1>3
<1>7. d.counted => Claimed(dispatch_label(d)) \in {{}, truth}
    BY <1>2, <1>3
<1>8. Witnessed(row)
    BY <1>4, <1>6, <1>7 DEF Witnessed
<1> QED
    BY <1>5, <1>8 DEF d

\* main adds one row at a time, and whoever made it vouches for it.
LEMMA NewRow ==
    ASSUME VerifyRow
    PROVE  \E row \in RowSet : rows' = Append(rows, row) /\ Witnessed(row)
<1> DEFINE c == BenchConfigs[pos]
<1>1. \/ rows' = Append(rows, Row("notAvailable", Unverified, {}))
      \/ rows' = Append(rows, Row("skipped", Unverified, {}))
      \/ Recorded
      \/ Builtin(c)
    BY DEF VerifyRow
<1>2. ASSUME NEW from \in {"notAvailable", "skipped", "record"},
             NEW d \in [verified : BOOLEAN, fires : SUBSET Families, counted : BOOLEAN],
             rows' = Append(rows, Row(from, d, {}))
      PROVE  \E row \in RowSet : rows' = Append(rows, row) /\ Witnessed(row)
  <2>1. Row(from, d, {}) \in RowSet /\ Row(from, d, {}).from # "debugger"
      BY DEF Row, RowSet
  <2> QED
      BY <1>2, <2>1 DEF Witnessed
<1>3. Unverified \in [verified : BOOLEAN, fires : SUBSET Families, counted : BOOLEAN]
    BY DEF Unverified
<1>4. CASE Recorded
  <2>1. PICK fires \in SUBSET Families :
            rows' = Append(rows, Row("record",
                [verified |-> TRUE, fires |-> fires, counted |-> FALSE], {}))
      BY <1>4 DEF Recorded
  <2> QED
      BY <1>2, <2>1
<1>5. CASE Builtin(c)
  <2>1. PICK truth \in SUBSET Families, lldb \in BOOLEAN :
            \E fast \in Fast(truth), thorough \in Thorough(truth) :
                rows' = Append(rows, Row("debugger",
                    verify_dispatch_builtin(lldb, fast, thorough, c.phase # "decode"), truth))
      BY <1>5 DEF Builtin
  <2>2. (c.phase # "decode") \in BOOLEAN
      OBVIOUS
  <2> QED
      BY <2>1, <2>2, BuiltinIsWitnessed
<1> QED
    BY <1>1, <1>2, <1>3, <1>4, <1>5

\* A call leaves samples of the right type.
LEMMA ToldSamples ==
    ASSUME NEW s, NEW r, Told(s, r)
    PROVE  r.samples \in Seq(SampleSet)
<1>1. CASE r.samples = <<>>
    BY <1>1
<1>2. CASE \E x \in SampleSet : r.samples = <<x>>
    BY <1>2
<1> QED
    BY <1>1, <1>2 DEF Told

\* A settled call changes the entries of its cell only.
LEMMA SettledFacts ==
    ASSUME PlaceInv, TablesInv, stage \in Measuring, NEW r, Told(stage, r), Settled(r)
    PROVE  /\ Table(samples', Seq(SampleSet)) /\ Table(errors', SUBSET Nat)
           /\ Table(tried', Nat)
           /\ \A s \in Measuring : \A i \in Cells(s) :
                 IF s = stage /\ i = pos
                 THEN /\ tried'[s][i] = tried[s][i] + 1
                      /\ s # "warmup" =>
                            /\ samples'[s][i] = samples[s][i] \o r.samples
                            /\ errors'[s][i] = IF Failed(r) THEN errors[s][i] \cup {round}
                                              ELSE errors[s][i]
                      /\ s = "warmup" => /\ samples'[s][i] = samples[s][i]
                                         /\ errors'[s][i] = errors[s][i]
                 ELSE /\ tried'[s][i] = tried[s][i]
                      /\ samples'[s][i] = samples[s][i]
                      /\ errors'[s][i] = errors[s][i]
<1>1. pos \in Cells(stage) /\ round \in Nat
    BY CountAssumption DEF PlaceInv
<1>2. /\ Table(samples, Seq(SampleSet)) /\ Table(errors, SUBSET Nat) /\ Table(tried, Nat)
      /\ samples[stage][pos] \in Seq(SampleSet) /\ errors[stage][pos] \in SUBSET Nat
      /\ tried[stage][pos] \in Nat
    BY <1>1 DEF TablesInv, Table
<1>3. /\ tried = [s \in Measuring |-> tried[s]]
      /\ errors = [s \in Measuring |-> errors[s]]
      /\ samples = [s \in Measuring |-> samples[s]]
      /\ \A s \in Measuring : /\ tried[s] \in [Cells(s) -> Nat]
                              /\ errors[s] \in [Cells(s) -> SUBSET Nat]
                              /\ samples[s] \in [Cells(s) -> Seq(SampleSet)]
    BY <1>2 DEF Table
<1> DEFINE n == tried[stage][pos] + 1
           e == IF Failed(r) THEN errors[stage][pos] \cup {round} ELSE errors[stage][pos]
           m == samples[stage][pos] \o r.samples
<1>4. Updated(tried', tried, stage, pos, n)
    BY <1>1, <1>3 DEF Settled, Updated
<1>5. stage # "warmup" =>
          /\ Updated(samples', samples, stage, pos, m)
          /\ Updated(errors', errors, stage, pos, e)
    BY <1>1, <1>3 DEF Settled, Updated
<1>6. stage = "warmup" => samples' = samples /\ errors' = errors
    BY DEF Settled
<1>7. n \in Nat /\ e \in SUBSET Nat
    BY <1>1, <1>2
<1>8. m \in Seq(SampleSet)
  <2>3. r.samples \in Seq(SampleSet)
      BY ToldSamples
  <2>4. \A q1, q2 \in Seq(SampleSet) : q1 \o q2 \in Seq(SampleSet)
      OBVIOUS
  <2> QED
      BY <1>2, <2>3, <2>4
<1> DEFINE N == Nat
           K == Seq(SampleSet)
           E == SUBSET Nat
<1>n. /\ Table(tried, N) /\ n \in N /\ Table(samples, K) /\ m \in K
      /\ Table(errors, E) /\ e \in E
    BY <1>2, <1>7, <1>8
<1> HIDE DEF n, e, m, N, K, E
<1>9. /\ Table(tried', N)
      /\ \A s \in Measuring : \A i \in Cells(s) :
            tried'[s][i] = IF s = stage /\ i = pos THEN n ELSE tried[s][i]
    BY <1>1, <1>n, <1>4, TableUpdate
<1>10. CASE stage # "warmup"
  <2>1. /\ Table(samples', K)
        /\ \A s \in Measuring : \A i \in Cells(s) :
              samples'[s][i] = IF s = stage /\ i = pos THEN m ELSE samples[s][i]
      BY <1>1, <1>n, <1>5, <1>10, TableUpdate
  <2>2. /\ Table(errors', E)
        /\ \A s \in Measuring : \A i \in Cells(s) :
              errors'[s][i] = IF s = stage /\ i = pos THEN e ELSE errors[s][i]
      BY <1>1, <1>n, <1>5, <1>10, TableUpdate
  <2> QED
      BY <1>9, <1>10, <2>1, <2>2 DEF n, e, m, N, K, E
<1>11. CASE stage = "warmup"
    BY <1>2, <1>6, <1>9, <1>11 DEF n, N
<1> QED
    BY <1>10, <1>11

\* The tables keep their shape and their types.
LEMMA NextTablesInv == PlaceInv /\ TablesInv /\ [Next]_vars => TablesInv'
<1> SUFFICES ASSUME PlaceInv, TablesInv, [Next]_vars PROVE TablesInv'
    OBVIOUS
<1>1. args' = args
    BY CallSplits, Others
<1>2. ASSUME Table(samples', Seq(SampleSet)), Table(errors', SUBSET Nat), Table(tried', Nat)
      PROVE  /\ Table(samples, Seq(SampleSet))' /\ Table(errors, SUBSET Nat)'
             /\ Table(tried, Nat)'
    BY <1>1, <1>2, SameArgs DEF Table, SampleSet, Measuring
<1>3. CASE Call
  <2>1. PICK r : Told(stage, r) /\ (Repeated(r) \/ Settled(r))
      BY <1>3, CallSplits
  <2>2. stage \in Measuring /\ rows' = rows
      BY <1>3, CallSplits
  <2>3. CASE Repeated(r)
      BY <1>2, <2>2, <2>3 DEF Repeated, TablesInv, RowSet, Families
  <2>4. CASE Settled(r)
      BY <1>2, <2>1, <2>2, <2>4, SettledFacts DEF TablesInv, RowSet, Families
  <2> QED
      BY <2>1, <2>3, <2>4
<1>4. CASE ~Call
  <2>1. UNCHANGED <<samples, errors, tried>>
      BY <1>4, Others
  <2>2. rows' \in Seq(RowSet)
    <3>1. CASE VerifyRow
      <4>1. PICK row \in RowSet : rows' = Append(rows, row)
          BY <3>1, NewRow
      <4> QED
          BY <4>1 DEF TablesInv
    <3>2. CASE ~VerifyRow
      <4>1. rows' = rows
          BY <1>4, <3>2 DEF Next, Work, Start, LoadLedger, VerifierMissing, WriteJson,
             WriteMd, Hang, Die, vars
      <4> QED
          BY <4>1 DEF TablesInv
    <3> QED
        BY <3>1, <3>2
  <2> QED
      BY <1>2, <2>1, <2>2 DEF TablesInv, RowSet, Families
<1> QED
    BY <1>3, <1>4

\* Every call adds one to its cell, and the stages come in their order.
LEMMA NextTriedInv ==
    PlaceInv /\ TablesInv /\ TriedInv /\ [Next]_vars => TriedInv'
<1> SUFFICES ASSUME PlaceInv, TablesInv, TriedInv, [Next]_vars PROVE TriedInv'
    OBVIOUS
<1>0. args' = args
    BY CallSplits, Others
<1> SUFFICES ASSUME NEW s \in Measuring
             PROVE  /\ s \in Ahead(stage') => \A i \in Cells(s) : tried'[s][i] = 0
                    /\ s = stage' => \A i \in Cells(s) :
                            tried'[s][i] = IF i < pos' THEN round' ELSE round' - 1
                    /\ s # stage' => \/ \A i \in Cells(s) : tried'[s][i] = 0
                                     \/ \A i \in Cells(s) : tried'[s][i] = Rounds(s)
  <2>1. \A t : Cells(t)' = Cells(t)
      BY <1>0, SameArgs
  <2>2. \A t : Rounds(t)' = Rounds(t) /\ Measuring' = Measuring
      BY DEF Rounds, Measuring
  <2> QED
      BY <2>1, <2>2 DEF TriedInv
<1>1. /\ s \in Ahead(stage) => \A i \in Cells(s) : tried[s][i] = 0
      /\ s = stage => \A i \in Cells(s) :
            tried[s][i] = IF i < pos THEN round ELSE round - 1
      /\ s # stage => \/ \A i \in Cells(s) : tried[s][i] = 0
                      \/ \A i \in Cells(s) : tried[s][i] = Rounds(s)
    BY DEF TriedInv
<1>2. PICK n \in Nat \ {0} : Cells(s) = 1..n
    BY CellFacts
<1>3. round \in Nat \ {0} /\ pos \in Nat \ {0} /\ Rounds(s) \in Nat
    BY CountAssumption DEF PlaceInv, Rounds
<1>4. CASE Call
  <2>1. PICK r : Told(stage, r) /\ (Repeated(r) \/ Settled(r))
      BY <1>4, CallSplits
  <2>2. stage \in Measuring
      BY <1>4, CallSplits
  <2>3. CASE Repeated(r)
      BY <1>1, <2>3 DEF Repeated
  <2>4. CASE Settled(r)
    <3>1. \A i \in Cells(s) :
              tried'[s][i] = IF s = stage /\ i = pos THEN tried[s][i] + 1 ELSE tried[s][i]
        BY <2>1, <2>2, <2>4, SettledFacts
    <3>2. \/ /\ pos' = pos + 1 /\ UNCHANGED <<stage, round>>
          \/ /\ Cells(stage) = 1..pos
             /\ pos' = 1 /\ round' = round + 1 /\ stage' = stage
          \/ /\ Cells(stage) = 1..pos /\ round = Rounds(stage)
             /\ pos' = 1 /\ round' = 1 /\ stage' = After(stage, optima')
        BY <2>2, <2>4, Moves DEF Settled
    <3>3. CASE s # stage
      <4>1. \A i \in Cells(s) : tried'[s][i] = tried[s][i]
          BY <3>1, <3>3
      <4>2. CASE stage' = stage
          BY <1>1, <3>3, <4>1, <4>2
      <4>3. CASE stage' = After(stage, optima') /\ pos' = 1 /\ round' = 1
        <5>1. /\ s \in Ahead(stage') => s \in Ahead(stage)
              /\ s = stage' => s \in Ahead(stage)
            BY <2>2, <4>3, AfterFacts DEF Measuring
        <5>2. s \in Ahead(stage') => \A i \in Cells(s) : tried'[s][i] = 0
            BY <1>1, <4>1, <5>1
        <5>3. s = stage' => \A i \in Cells(s) :
                  tried'[s][i] = IF i < pos' THEN round' ELSE round' - 1
            BY <1>1, <1>2, <4>1, <4>3, <5>1
        <5> QED
            BY <1>1, <3>3, <4>1, <5>2, <5>3
      <4> QED
          BY <3>2, <4>2, <4>3
    <3>4. CASE s = stage
      <4>0. s \notin Ahead(stage)
          BY <3>4, AfterFacts
      <4>1. \A i \in Cells(s) : tried'[s][i] = IF i <= pos THEN round ELSE round - 1
        <5> TAKE i \in Cells(s)
        <5>1. /\ tried[s][i] = IF i < pos THEN round ELSE round - 1
              /\ tried'[s][i] = IF i = pos THEN tried[s][i] + 1 ELSE tried[s][i]
            BY <1>1, <3>1, <3>4
        <5> QED
            BY <1>2, <1>3, <5>1
      <4>2. CASE pos' = pos + 1 /\ UNCHANGED <<stage, round>>
        <5>1. \A i \in Cells(s) : i <= pos <=> i < pos'
            BY <1>2, <1>3, <4>2
        <5> QED
            BY <3>4, <4>0, <4>1, <4>2, <5>1
      <4>3. CASE Cells(stage) = 1..pos /\ pos' = 1 /\ round' = round + 1 /\ stage' = stage
        <5>1. \A i \in Cells(s) : i <= pos /\ ~(i < pos')
            BY <1>3, <3>4, <4>3
        <5>2. round' - 1 = round
            BY <1>3, <4>3
        <5> QED
            BY <3>4, <4>0, <4>1, <4>3, <5>1, <5>2
      <4>4. CASE /\ Cells(stage) = 1..pos /\ round = Rounds(stage)
                 /\ stage' = After(stage, optima')
        <5>1. \A i \in Cells(s) : i <= pos
            BY <1>3, <3>4, <4>4
        <5>2. \A i \in Cells(s) : tried'[s][i] = Rounds(s)
            BY <3>4, <4>1, <4>4, <5>1
        <5>3. s # stage' /\ s \notin Ahead(stage')
            BY <3>4, <4>0, <4>4, AfterFacts, AheadFacts DEF Measuring
        <5> QED
            BY <5>2, <5>3
      <4> QED
          BY <3>2, <4>2, <4>3, <4>4
    <3> QED
        BY <3>3, <3>4
  <2> QED
      BY <2>1, <2>3, <2>4
<1>5. CASE ~Call
  <2>1. UNCHANGED <<round, tried>>
      BY <1>5, Others
  <2>2. CASE stage' = stage /\ (stage # "verify" => pos' = pos)
      BY <1>1, <2>1, <2>2 DEF Measuring
  <2>3. CASE stage = "start" /\ stage' = FirstStage /\ pos' = pos
    <3>1. \A i \in Cells(s) : tried'[s][i] = 0
        BY <1>1, <2>1, <2>3, AheadFacts
    <3>2. pos' = 1 /\ round' = 1
        BY <2>1, <2>3 DEF PlaceInv
    <3> QED
        BY <1>2, <3>1, <3>2
  <2>4. CASE stage \in {"ledger", "verify", "json"} /\ stage' \in {"verify", "json", "md"}
    <3>1. s # stage /\ s # stage' /\ Ahead(stage') = {}
        BY <2>4, AheadFacts DEF Measuring
    <3> QED
        BY <1>1, <2>1, <3>1
  <2> QED
      BY <1>5, <2>2, <2>3, <2>4, Others
<1> QED
    BY <1>4, <1>5
\* Where a call must leave a sample or an error it leaves exactly one of them.
LEMMA SampleOrError ==
    ASSUME NEW r, stage \in {"sweep", "split", "compare"}, mode # "bench", Told(stage, r)
    PROVE  \/ Failed(r) /\ r.samples = <<>>
           \/ ~Failed(r) /\ \E x \in SampleSet : r.samples = <<x>>
<1>1. CASE r.samples = <<>>
    BY <1>1 DEF Told, Failed
<1>2. CASE r.samples # <<>>
    BY <1>2 DEF Told, Failed
<1> QED
    BY <1>1, <1>2

\* No call is dropped and none is invented.
LEMMA NextKeptInv ==
    PlaceInv /\ TablesInv /\ TriedInv /\ KeptInv /\ [Next]_vars => KeptInv'
<1> SUFFICES ASSUME PlaceInv, TablesInv, TriedInv, KeptInv, [Next]_vars PROVE KeptInv'
    OBVIOUS
<1>0. args' = args
    BY CallSplits, Others
<1>1. mode' = mode /\ Measuring' = Measuring /\ \A t : Cells(t)' = Cells(t)
    BY <1>0, SameArgs DEF Measuring
<1> SUFFICES ASSUME NEW s \in Measuring, NEW i \in Cells(s)
             PROVE  /\ errors'[s][i] \subseteq 1..tried'[s][i]
                    /\ mode # "bench" /\ s \in {"sweep", "split", "compare"} =>
                          Len(samples'[s][i]) + Cardinality(errors'[s][i]) = tried'[s][i]
    BY <1>1 DEF KeptInv, Measuring
<1>2. /\ errors[s][i] \subseteq 1..tried[s][i]
      /\ mode # "bench" /\ s \in {"sweep", "split", "compare"} =>
            Len(samples[s][i]) + Cardinality(errors[s][i]) = tried[s][i]
    BY DEF KeptInv
<1>3. samples[s][i] \in Seq(SampleSet) /\ tried[s][i] \in Nat
    BY DEF TablesInv, Table
<1>4. CASE Call
  <2>1. PICK r : Told(stage, r) /\ (Repeated(r) \/ Settled(r))
      BY <1>4, CallSplits
  <2>2. stage \in Measuring
      BY <1>4, CallSplits
  <2>3. CASE Repeated(r)
      BY <1>2, <2>3 DEF Repeated
  <2>4. CASE Settled(r)
    <3>1. CASE ~(s = stage /\ i = pos)
      <4>1. /\ tried'[s][i] = tried[s][i] /\ samples'[s][i] = samples[s][i]
            /\ errors'[s][i] = errors[s][i]
          BY <2>1, <2>2, <2>4, <3>1, SettledFacts
      <4> QED
          BY <1>2, <4>1
    <3>2. CASE s = stage /\ i = pos
      <4>1. tried'[s][i] = tried[s][i] + 1
          BY <2>1, <2>2, <2>4, <3>2, SettledFacts
      <4>2. round = tried[s][i] + 1 /\ round \in Nat
          BY <1>3, <3>2, CountAssumption DEF TriedInv, PlaceInv
      <4>3. CASE s = "warmup"
        <5>1. errors'[s][i] = errors[s][i]
            BY <2>1, <2>2, <2>4, <3>2, <4>3, SettledFacts
        <5> QED
            BY <1>2, <1>3, <4>1, <4>3, <5>1
      <4>4. CASE s # "warmup"
        <5>1. /\ samples'[s][i] = samples[s][i] \o r.samples
              /\ errors'[s][i] = IF Failed(r) THEN errors[s][i] \cup {round}
                                ELSE errors[s][i]
            BY <2>1, <2>2, <2>4, <3>2, <4>4, SettledFacts
        <5>2. errors'[s][i] \subseteq 1..tried'[s][i]
            BY <1>2, <1>3, <4>1, <4>2, <5>1
        <5>3. ASSUME mode # "bench", s \in {"sweep", "split", "compare"}
              PROVE  Len(samples'[s][i]) + Cardinality(errors'[s][i]) = tried'[s][i]
          <6> DEFINE E == errors[s][i]
                     n == tried[s][i]
                     q == samples[s][i]
          <6>1. /\ Len(q) + Cardinality(E) = n /\ E \subseteq 1..n /\ n \in Nat
                /\ q \in Seq(SampleSet)
              BY <1>2, <1>3, <5>3
          <6>2. IsFiniteSet(E) /\ Cardinality(E) \in Nat /\ round \notin E
            <7>1. IsFiniteSet(1..n)
                BY <6>1, FS_Interval
            <7>2. IsFiniteSet(E)
                BY <6>1, <7>1, FS_Subset
            <7>3. round \notin 1..n
                BY <4>2, <6>1
            <7> QED
                BY <6>1, <7>2, <7>3, FS_CardinalityType
          <6>3. Cardinality(E \cup {round}) = Cardinality(E) + 1
              BY <6>2, FS_AddElement
          <6>4. /\ q \o <<>> = q
                /\ \A x \in SampleSet : Len(q \o <<x>>) = Len(q) + 1
            <7>1. q \o <<>> = q
                BY <6>1
            <7>2. ASSUME NEW x \in SampleSet PROVE Len(q \o <<x>>) = Len(q) + 1
                BY <6>1
            <7> QED
                BY <7>1, <7>2
          <6>5. \/ Failed(r) /\ r.samples = <<>>
                \/ ~Failed(r) /\ \E x \in SampleSet : r.samples = <<x>>
              BY <2>1, <3>2, <5>3, SampleOrError
          <6>6. \/ /\ samples'[s][i] = q \o <<>> /\ errors'[s][i] = E \cup {round}
                \/ /\ errors'[s][i] = E /\ \E x \in SampleSet : samples'[s][i] = q \o <<x>>
              BY <5>1, <6>5
          <6>7. tried'[s][i] = n + 1 /\ Len(q) \in Nat
              BY <4>1, <6>1
          <6> HIDE DEF E, n, q
          <6>8. CASE samples'[s][i] = q \o <<>> /\ errors'[s][i] = E \cup {round}
            <7>1. /\ samples'[s][i] = q
                  /\ Cardinality(errors'[s][i]) = Cardinality(E) + 1
                BY <6>3, <6>4, <6>8
            <7> QED
                BY <6>1, <6>2, <6>7, <7>1
          <6>9. CASE errors'[s][i] = E /\ \E x \in SampleSet : samples'[s][i] = q \o <<x>>
            <7>1. /\ Len(samples'[s][i]) = Len(q) + 1
                  /\ Cardinality(errors'[s][i]) = Cardinality(E)
                BY <6>4, <6>9
            <7> QED
                BY <6>1, <6>2, <6>7, <7>1
          <6> QED
              BY <6>6, <6>8, <6>9
        <5> QED
            BY <5>2, <5>3
      <4> QED
          BY <4>3, <4>4
    <3> QED
        BY <3>1, <3>2
  <2> QED
      BY <2>1, <2>3, <2>4
<1>5. CASE ~Call
    BY <1>2, <1>5, Others
<1> QED
    BY <1>4, <1>5

\* The samples of the sweep stay as they are once it is over.
LEMMA SweepStays ==
    ASSUME PlaceInv, TablesInv, [Next]_vars, stage # "sweep"
    PROVE  samples'["sweep"] = samples["sweep"]
<1>1. CASE Call
  <2>1. PICK r : Told(stage, r) /\ (Repeated(r) \/ Settled(r))
      BY <1>1, CallSplits
  <2>2. stage \in Measuring /\ "sweep" \in Measuring
      BY <1>1, CallSplits DEF Measuring
  <2>3. CASE Settled(r)
    <3>1. /\ Table(samples', Seq(SampleSet))
          /\ \A i \in Cells("sweep") : samples'["sweep"][i] = samples["sweep"][i]
        BY <2>1, <2>2, <2>3, SettledFacts
    <3>2. /\ samples'["sweep"] \in [Cells("sweep") -> Seq(SampleSet)]
          /\ samples["sweep"] \in [Cells("sweep") -> Seq(SampleSet)]
        BY <2>2, <3>1 DEF Table, TablesInv
    <3> QED
        BY <3>1, <3>2
  <2> QED
      BY <2>1, <2>3 DEF Repeated
<1>2. CASE ~Call
    BY <1>2, Others
<1> QED
    BY <1>1, <1>2

\* The optima are chosen when the sweep is over, from all of it.
LEMMA NextOptimaInv ==
    PlaceInv /\ TablesInv /\ OptimaInv /\ [Next]_vars => OptimaInv'
<1> SUFFICES ASSUME PlaceInv, TablesInv, OptimaInv, [Next]_vars PROVE OptimaInv'
    OBVIOUS
<1> DEFINE none == [p \in {"decode", "prefill"} |-> 0]
<1>0. args' = args
    BY CallSplits, Others
<1>1. mode' = mode
    BY <1>0, SameArgs
<1>2. OptimaOf(samples["sweep"])' = OptimaOf(samples'["sweep"])
    OBVIOUS
<1> SUFFICES optima' = IF mode = "crossover" /\ stage' \notin {"start", "sweep"}
                       THEN OptimaOf(samples'["sweep"]) ELSE none
    BY <1>1, <1>2 DEF OptimaInv
<1>3. optima = IF mode = "crossover" /\ stage \notin {"start", "sweep"}
               THEN OptimaOf(samples["sweep"]) ELSE none
    BY DEF OptimaInv
<1>4. stage # "sweep" => OptimaOf(samples'["sweep"]) = OptimaOf(samples["sweep"])
    BY SweepStays
<1> HIDE DEF none
<1>5. CASE Call
  <2>1. PICK r : Told(stage, r) /\ (Repeated(r) \/ Settled(r))
      BY <1>5, CallSplits
  <2>2. stage \in Measuring /\ stage # "start"
      BY <1>5, CallSplits DEF Measuring
  <2>3. CASE stage' = stage /\ optima' = optima
      BY <1>3, <1>4, <2>2, <2>3
  <2>4. CASE /\ optima' = IF stage = "sweep" /\ mode = "crossover"
                          THEN OptimaOf(samples'["sweep"]) ELSE optima
             /\ stage' = After(stage, optima')
    <3>1. stage' \notin {"start", "sweep"}
      <4>1. After(stage, optima') \in Ahead(stage) \cup {"ledger", "json"}
          BY <2>2, AfterFacts
      <4>2. "sweep" \notin Ahead(stage) /\ "start" \notin Ahead(stage)
          BY <2>2, AfterFacts
      <4> QED
          BY <2>4, <4>1, <4>2
    <3> QED
        BY <1>3, <1>4, <2>2, <2>4, <3>1
  <2>5. CASE Repeated(r)
      BY <2>3, <2>5 DEF Repeated
  <2>6. CASE Settled(r)
    <3>1. \/ UNCHANGED <<stage, optima>>
          \/ /\ optima' = IF stage = "sweep" /\ mode = "crossover"
                          THEN OptimaOf(samples'["sweep"]) ELSE optima
             /\ stage' = After(stage, optima')
        BY <2>2, <2>6, Moves DEF Settled
    <3> QED
        BY <2>3, <2>4, <3>1
  <2> QED
      BY <2>1, <2>5, <2>6
<1>6. CASE ~Call
  <2>1. optima' = optima /\ samples' = samples
      BY <1>6, Others
  <2>2. CASE stage' = stage
      BY <1>3, <2>1, <2>2
  <2>3. CASE stage = "start" /\ stage' = FirstStage
    <3>1. mode = "crossover" => stage' = "sweep"
        BY <2>3 DEF FirstStage
    <3> QED
        BY <1>3, <2>1, <2>3, <3>1
  <2>4. CASE stage \in {"ledger", "verify", "json"} /\ stage' \in {"verify", "json", "md"}
      BY <1>3, <2>1, <2>4
  <2> QED
      BY <1>6, <2>2, <2>3, <2>4, Others
<1> QED
    BY <1>5, <1>6

\* The files are written at the end only, the evidence first.
LEMMA NextFilesInv == PlaceInv /\ FilesInv /\ [Next]_vars => FilesInv'
<1> SUFFICES ASSUME PlaceInv, FilesInv, [Next]_vars PROVE FilesInv'
    OBVIOUS
<1>0. args' = args
    BY CallSplits, Others
<1>1. mode' = mode
    BY <1>0, SameArgs
<1>2. CASE Call
  <2>1. stage \in Measuring /\ UNCHANGED <<files, exit>> /\ exit = "running"
      BY <1>2, CallSplits
  <2>2. PICK r : Repeated(r) \/ Settled(r)
      BY <1>2, CallSplits
  <2>3. stage' = stage \/ stage' = After(stage, optima')
      BY <2>1, <2>2, Moves DEF Repeated, Settled
  <2>4. After(stage, optima') # "md"
      BY <2>1, AfterFacts, AheadFacts DEF Measuring
  <2> QED
      BY <2>1, <2>3, <2>4 DEF FilesInv, Measuring
<1>3. files \in [json : {"old", "torn", "new"}, md : {"old", "torn", "new"}]
    BY DEF PlaceInv
<1>4. CASE Start
    BY <1>1, <1>4 DEF Start, FilesInv, FirstStage, results
<1>5. CASE LoadLedger \/ VerifyRow
    BY <1>1, <1>5 DEF LoadLedger, VerifyRow, FilesInv, results
<1>6. CASE VerifierMissing \/ Hang \/ Die
    BY <1>1, <1>6 DEF VerifierMissing, Hang, Die, FilesInv, place, results
<1>7. CASE WriteJson
    BY <1>1, <1>3, <1>7 DEF WriteJson, FilesInv, results
<1>8. CASE WriteMd
    BY <1>1, <1>3, <1>8 DEF WriteMd, FilesInv, place, results
<1>9. CASE UNCHANGED vars
    BY <1>1, <1>9 DEF FilesInv, vars
<1> QED
    BY <1>2, <1>4, <1>5, <1>6, <1>7, <1>8, <1>9 DEF Next, Work

\* A sample of the sweep or of the default configuration is of a whole run.
LEMMA NextWhole ==
    PlaceInv /\ TablesInv /\ OnlyWholeRuns /\ [Next]_vars => OnlyWholeRuns'
<1> SUFFICES ASSUME PlaceInv, TablesInv, OnlyWholeRuns, [Next]_vars PROVE OnlyWholeRuns'
    OBVIOUS
<1>0. args' = args
    BY CallSplits, Others
<1>1. \A t : Cells(t)' = Cells(t)
    BY <1>0, SameArgs
<1> SUFFICES ASSUME NEW s \in {"sweep", "default"}, NEW i \in Cells(s),
                    NEW k \in DOMAIN samples'[s][i]
             PROVE  samples'[s][i][k].rc = "zero"
    BY <1>1 DEF OnlyWholeRuns
<1>2. \A j \in DOMAIN samples[s][i] : samples[s][i][j].rc = "zero"
    BY DEF OnlyWholeRuns
<1>3. s \in Measuring /\ s # "warmup" /\ samples[s][i] \in Seq(SampleSet)
    BY DEF TablesInv, Table, Measuring
<1>4. CASE Call
  <2>1. PICK r : Told(stage, r) /\ (Repeated(r) \/ Settled(r))
      BY <1>4, CallSplits
  <2>2. stage \in Measuring
      BY <1>4, CallSplits
  <2>3. CASE Repeated(r)
      BY <1>2, <2>3 DEF Repeated
  <2>4. CASE Settled(r)
    <3>1. CASE ~(s = stage /\ i = pos)
      <4>1. samples'[s][i] = samples[s][i]
          BY <1>3, <2>1, <2>2, <2>4, <3>1, SettledFacts
      <4> QED
          BY <1>2, <4>1
    <3>2. CASE s = stage /\ i = pos
      <4>1. samples'[s][i] = samples[s][i] \o r.samples
          BY <1>3, <2>1, <2>2, <2>4, <3>2, SettledFacts
      <4>2. \/ r.samples = <<>>
            \/ \E x \in SampleSet : r.samples = <<x>> /\ x.rc = "zero"
          BY <2>1, <3>2 DEF Told
      <4> DEFINE q == samples[s][i]
      <4>3. q \o <<>> = q
          BY <1>3
      <4>4. ASSUME NEW x \in SampleSet, x.rc = "zero", NEW j \in DOMAIN (q \o <<x>>)
            PROVE  (q \o <<x>>)[j].rc = "zero"
        <5>1. /\ j \in 1..(Len(q) + 1) /\ Len(q) \in Nat /\ DOMAIN q = 1..Len(q)
              /\ (q \o <<x>>)[j] = IF j <= Len(q) THEN q[j] ELSE x
            BY <1>3, <4>4
        <5> QED
            BY <1>2, <4>4, <5>1
      <4> HIDE DEF q
      <4>5. CASE r.samples = <<>>
          BY <1>2, <4>1, <4>3, <4>5 DEF q
      <4>6. CASE \E x \in SampleSet : r.samples = <<x>> /\ x.rc = "zero"
          BY <4>1, <4>4, <4>6 DEF q
      <4> QED
          BY <4>2, <4>5, <4>6
    <3> QED
        BY <3>1, <3>2
  <2> QED
      BY <2>1, <2>3, <2>4
<1>5. CASE ~Call
    BY <1>2, <1>5, Others
<1> QED
    BY <1>4, <1>5

\* Only a time-out is followed by another attempt, and none by more than the
\* retries.
LEMMA NextGivesUp ==
    PlaceInv /\ AttemptsInv /\ GivesUpLate /\ [Next]_vars => AttemptsInv' /\ GivesUpLate'
<1> SUFFICES ASSUME PlaceInv, AttemptsInv, GivesUpLate, [Next]_vars
             PROVE  AttemptsInv' /\ GivesUpLate'
    OBVIOUS
<1>0. args' = args
    BY CallSplits, Others
<1>1. RetriesIn' = RetriesIn
    BY <1>0, SameArgs
<1>2. CASE Call
  <2>1. PICK r : Told(stage, r) /\ Attempted(r) /\ (Repeated(r) \/ Settled(r))
      BY <1>2, CallSplits
  <2>2. attempt \in 0..RetriesIn /\ RetriesIn \in Nat
      BY CountAssumption DEF PlaceInv, RetriesIn
  <2> DEFINE before == IF attempt = 0 THEN <<>> ELSE last
  <2>3. /\ before \in Seq(BOOLEAN) /\ Len(before) = attempt
        /\ \A k \in 1..attempt : before[k]
    <3>1. CASE attempt = 0
        BY <3>1
    <3>2. CASE attempt # 0
      <4>1. before = last /\ last \in Seq(BOOLEAN) /\ Len(last) = attempt /\ last[attempt]
          BY <2>2, <3>2 DEF AttemptsInv
      <4>2. \A k \in 1..(attempt - 1) : last[k]
          BY <4>1 DEF GivesUpLate
      <4>3. \A k \in 1..attempt : k = attempt \/ k \in 1..(attempt - 1)
          BY <2>2
      <4> QED
          BY <4>1, <4>2, <4>3
    <3> QED
        BY <3>1, <3>2
  <2>4. last' = Append(before, r.timeout) /\ r.timeout \in BOOLEAN
      BY <2>1 DEF Attempted, Told
  <2> HIDE DEF before
  <2>5. /\ last' \in Seq(BOOLEAN) /\ Len(last') = attempt + 1
        /\ \A k \in 1..attempt : last'[k]
        /\ last'[attempt + 1] = r.timeout
      BY <2>2, <2>3, <2>4
  <2>6. CASE Repeated(r)
    <3>1. attempt' = attempt + 1 /\ attempt + 1 <= RetriesIn /\ r.timeout
        BY <2>2, <2>6 DEF Repeated, TriesAgain
    <3>2. last'[attempt']
        BY <2>5, <3>1
    <3>3. AttemptsInv'
        BY <2>5, <3>1, <3>2 DEF AttemptsInv
    <3>4. Len(last') = attempt' /\ attempt' # 0
        BY <2>2, <2>5, <3>1
    <3>5. \A k \in 1..(Len(last') - 1) : last'[k]
      <4>1. 1..(Len(last') - 1) \subseteq 1..attempt
          BY <2>2, <3>1, <3>4
      <4> QED
          BY <2>5, <4>1
    <3> QED
        BY <1>1, <2>2, <3>1, <3>3, <3>4, <3>5 DEF GivesUpLate
  <2>7. CASE Settled(r)
    <3>1. attempt' = 0
        BY <2>7 DEF Settled, MoveOn
    <3>2. r.timeout => attempt = RetriesIn
        BY <2>1, <2>2, <2>7 DEF Settled, Told, TriesAgain
    <3> QED
        BY <1>1, <2>2, <2>5, <3>1, <3>2 DEF AttemptsInv, GivesUpLate
  <2> QED
      BY <2>1, <2>6, <2>7
<1>3. CASE ~Call
  <2>1. last' = last /\ attempt' = attempt
      BY <1>3, Others
  <2> QED
      BY <1>1, <2>1 DEF AttemptsInv, GivesUpLate
<1> QED
    BY <1>2, <1>3

\* The rows that are there stay, and the new one is vouched for.
LEMMA NextLabel == TablesInv /\ LabelIsWitnessed /\ [Next]_vars => LabelIsWitnessed'
<1> SUFFICES ASSUME TablesInv, LabelIsWitnessed, [Next]_vars PROVE LabelIsWitnessed'
    OBVIOUS
<1>1. \A k \in DOMAIN rows : Witnessed(rows[k])
    BY DEF LabelIsWitnessed, Witnessed
<1> SUFFICES ASSUME NEW k \in DOMAIN rows' PROVE Witnessed(rows'[k])
    BY DEF LabelIsWitnessed, Witnessed
<1>2. CASE VerifyRow
  <2>1. PICK row \in RowSet : rows' = Append(rows, row) /\ Witnessed(row)
      BY <1>2, NewRow
  <2>2. rows \in Seq(RowSet)
      BY DEF TablesInv
  <2>3. /\ k \in 1..(Len(rows) + 1) /\ Len(rows) \in Nat /\ DOMAIN rows = 1..Len(rows)
        /\ rows'[k] = IF k <= Len(rows) THEN rows[k] ELSE row
      BY <2>1, <2>2
  <2> QED
      BY <1>1, <2>1, <2>3
<1>3. CASE ~VerifyRow
  <2>1. rows' = rows
      BY <1>3 DEF Next, Work, Start, Call, LoadLedger, VerifierMissing, WriteJson, WriteMd,
         Hang, Die, vars
  <2> QED
      BY <1>1, <2>1
<1> QED
    BY <1>2, <1>3

-----------------------------------------------------------------------------
(* What it says.                                                           *)

\* No cell is called more often than there are rounds.
LEMMA TriedWithinRounds ==
    ASSUME HInv, NEW s \in Measuring, NEW i \in Cells(s)
    PROVE  tried[s][i] \in 0..Reps
<1>1. round \in 1..Reps /\ Reps \in Nat \ {0} /\ Rounds(s) \in 1..Reps
    BY CountAssumption DEF HInv, PlaceInv, Rounds
<1>2. TriedInv
    BY DEF HInv
<1>3. CASE s = stage
  <2>1. tried[s][i] = IF i < pos THEN round ELSE round - 1
      BY <1>2, <1>3 DEF TriedInv
  <2> QED
      BY <1>1, <2>1
<1>4. CASE s # stage
  <2>1. tried[s][i] = 0 \/ tried[s][i] = Rounds(s)
      BY <1>2, <1>4 DEF TriedInv
  <2> QED
      BY <1>1, <2>1
<1> QED
    BY <1>3, <1>4

\* Each phase has the best of its own cells.
LEMMA OptimaAreBest ==
    ASSUME HInv, mode = "crossover", stage \notin {"start", "sweep"}
    PROVE  /\ Best(optima["decode"], 1, PerPhase, samples["sweep"])
           /\ Best(optima["prefill"], PerPhase + 1, 2 * PerPhase, samples["sweep"])
           /\ Cells("sweep") = 1..(2 * PerPhase)
<1>1. PerPhase \in Nat \ {0} /\ DOMAIN SweepCells = 1..(2 * PerPhase)
    BY PhaseBlocks
<1>2. Cells("sweep") = 1..(2 * PerPhase)
    BY <1>1 DEF Cells, PhasesIn
<1>3. \A c \in 1..(2 * PerPhase) : samples["sweep"][c] \in Seq(SampleSet)
  <2>1. "sweep" \in Measuring /\ Table(samples, Seq(SampleSet))
      BY DEF Measuring, HInv, TablesInv
  <2>2. samples["sweep"] \in [Cells("sweep") -> Seq(SampleSet)]
      BY <2>1 DEF Table
  <2> QED
      BY <1>2, <2>2
<1>4. /\ optima["decode"] = Optimum(1, PerPhase, samples["sweep"])
      /\ optima["prefill"] = Optimum(PerPhase + 1, 2 * PerPhase, samples["sweep"])
  <2>1. optima = OptimaOf(samples["sweep"])
      BY DEF HInv, OptimaInv
  <2> QED
      BY <2>1 DEF OptimaOf, Phases
<1>5. Best(Optimum(1, PerPhase, samples["sweep"]), 1, PerPhase, samples["sweep"])
  <2>1. 1 - 1 <= PerPhase /\ \A c \in 1..PerPhase : samples["sweep"][c] \in Seq(SampleSet)
      BY <1>1, <1>3
  <2> QED
      BY <1>1, <2>1, OptimumIsTheBest
<1>6. Best(Optimum(PerPhase + 1, 2 * PerPhase, samples["sweep"]),
           PerPhase + 1, 2 * PerPhase, samples["sweep"])
  <2> DEFINE from == PerPhase + 1
             upto == 2 * PerPhase
  <2>1. /\ from \in Nat \ {0} /\ upto \in Nat /\ from - 1 <= upto
        /\ \A c \in from..upto : samples["sweep"][c] \in Seq(SampleSet)
      BY <1>1, <1>3
  <2> HIDE DEF from, upto
  <2>2. Best(Optimum(from, upto, samples["sweep"]), from, upto, samples["sweep"])
      BY <2>1, OptimumIsTheBest
  <2> QED
      BY <2>2 DEF from, upto
<1> QED
    BY <1>2, <1>4, <1>5, <1>6

\* The commands keep their invariant.
THEOREM HarnessInvariance == Spec => []HInv
<1>1. Init => HInv
    BY InitHInv
<1>2. HInv /\ [Next]_vars => HInv'
    BY NextPlaceInv, NextTablesInv, NextTriedInv, NextKeptInv, NextOptimaInv, NextFilesInv,
       NextWhole, NextGivesUp, NextLabel DEF HInv
<1> QED
    BY <1>1, <1>2, PTL DEF Spec

\* Every variable has its type, and an optimum is a cell of the sweep or none.
THEOREM HarnessIsTyped == Spec => []TypeOK
<1>1. HInv => TypeOK
  <2> SUFFICES ASSUME HInv PROVE TypeOK
      OBVIOUS
  <2>1. PlaceInv /\ TablesInv /\ KeptInv /\ OptimaInv
      BY DEF HInv
  <2>2. attempt \in 0..Retries
      BY <2>1, CountAssumption DEF PlaceInv, RetriesIn
  <2>3. ASSUME NEW s \in Measuring, NEW i \in Cells(s)
        PROVE  /\ \A k \in DOMAIN samples[s][i] : samples[s][i][k].rate \in Rates
               /\ errors[s][i] \subseteq 1..Reps
    <3>1. samples[s][i] \in Seq(SampleSet)
        BY <2>1 DEF TablesInv, Table
    <3>2. \A k \in DOMAIN samples[s][i] : samples[s][i][k] \in SampleSet
        BY <3>1
    <3>3. errors[s][i] \subseteq 1..tried[s][i] /\ tried[s][i] \in 0..Reps
        BY <2>1, TriedWithinRounds DEF KeptInv
    <3>4. errors[s][i] \subseteq 1..Reps
        BY <3>3, CountAssumption
    <3> QED
        BY <3>2, <3>4 DEF SampleSet
  <2>4. \A p \in DOMAIN optima : optima[p] \in {0} \cup DOMAIN SweepCells
    <3>1. CASE mode = "crossover" /\ stage \notin {"start", "sweep"}
      <4>1. DOMAIN optima = {"decode", "prefill"}
          BY <2>1, <3>1 DEF OptimaInv, OptimaOf
      <4>2. /\ PerPhase \in Nat \ {0} /\ DOMAIN SweepCells = 1..(2 * PerPhase)
          BY PhaseBlocks
      <4>3. optima["decode"] \in {0} \cup 1..PerPhase
          BY <3>1, OptimaAreBest DEF Best
      <4>4. optima["prefill"] \in {0} \cup (PerPhase + 1)..(2 * PerPhase)
          BY <3>1, OptimaAreBest DEF Best
      <4>5. \A b \in 1..PerPhase \cup (PerPhase + 1)..(2 * PerPhase) : b \in 1..(2 * PerPhase)
          BY <4>2
      <4> QED
          BY <4>1, <4>2, <4>3, <4>4, <4>5
    <3>2. CASE ~(mode = "crossover" /\ stage \notin {"start", "sweep"})
        BY <2>1, <3>2 DEF OptimaInv
    <3> QED
        BY <3>1, <3>2
  <2> QED
      BY <2>1, <2>2, <2>3, <2>4 DEF TypeOK, PlaceInv
<1> QED
    BY <1>1, HarnessInvariance, PTL

\* The calls go round the cells: none is ever two ahead of another, and none of
\* a cell that comes first is behind.
THEOREM CellsAreInterleaved == Spec => []Interleaved
<1>1. HInv => Interleaved
  <2> SUFFICES ASSUME HInv, NEW s \in Measuring, NEW i \in Cells(s), NEW j \in Cells(s), i < j
               PROVE  tried[s][i] - tried[s][j] \in {0, 1}
      BY DEF Interleaved
  <2>1. PICK n \in Nat \ {0} : Cells(s) = 1..n
      BY CellFacts
  <2>2. i \in Nat /\ j \in Nat /\ pos \in Nat /\ round \in Nat \ {0}
      BY <2>1, CountAssumption DEF HInv, PlaceInv
  <2>3. TriedInv /\ tried[s][i] \in Nat /\ tried[s][j] \in Nat
      BY TriedWithinRounds, CountAssumption DEF HInv
  <2>4. CASE s = stage
    <3>1. /\ tried[s][i] = IF i < pos THEN round ELSE round - 1
          /\ tried[s][j] = IF j < pos THEN round ELSE round - 1
        BY <2>3, <2>4 DEF TriedInv
    <3> QED
        BY <2>2, <3>1
  <2>5. CASE s # stage
    <3>1. tried[s][i] = tried[s][j]
        BY <2>3, <2>5 DEF TriedInv
    <3> QED
        BY <2>3, <3>1
  <2> QED
      BY <2>4, <2>5
<1> QED
    BY <1>1, HarnessInvariance, PTL

\* A JSON file of crossover.py accounts for all the calls asked for, whatever
\* failed among them.
THEOREM CallsAreAccountedFor == Spec => []Accounted
<1>1. HInv => Accounted
  <2> SUFFICES ASSUME HInv, mode # "bench",
                      NEW s \in {"sweep", "split", "compare"}, NEW i \in Cells(s)
               PROVE  /\ Len(samples[s][i]) + Cardinality(errors[s][i]) = tried[s][i]
                      /\ files.json # "old" => tried[s][i] \in {0, Reps}
      BY DEF Accounted
  <2>1. TriedInv /\ KeptInv /\ FilesInv /\ s \in Measuring
      BY DEF HInv, Measuring
  <2>2. files.json # "old" => s # stage
      BY <2>1 DEF FilesInv
  <2>3. s # stage => tried[s][i] = 0 \/ tried[s][i] = Rounds(s)
      BY <2>1 DEF TriedInv
  <2>4. Rounds(s) = Reps
      BY DEF Rounds
  <2> QED
      BY <2>1, <2>2, <2>3, <2>4 DEF KeptInv
<1> QED
    BY <1>1, HarnessInvariance, PTL

\* The sweep and the default configurations keep no number of a process that
\* did not end well.
THEOREM RunsAreWhole == Spec => []OnlyWholeRuns
<1>1. HInv => OnlyWholeRuns
    BY DEF HInv
<1> QED
    BY <1>1, HarnessInvariance, PTL

\* The optimum a phase is given is the best of all its cells, the first of
\* these, and none is given only when none was measured.
THEOREM OptimaAreTheBest == Spec => []OptimumIsBest
<1>1. HInv => OptimumIsBest
  <2> SUFFICES ASSUME HInv, mode = "crossover", stage \notin {"start", "sweep"},
                      NEW p \in {"decode", "prefill"}
               PROVE  LET cells == {i \in Cells("sweep") : SweepCells[i].phase = p}
                          med(i) == Median2(samples["sweep"][i])
                          o == optima[p]
                      IN  IF o = 0 THEN \A i \in cells : samples["sweep"][i] = <<>>
                          ELSE /\ o \in cells /\ samples["sweep"][o] # <<>>
                               /\ \A i \in cells : /\ med(i) <= med(o)
                                                   /\ i < o => med(i) < med(o)
      BY DEF OptimumIsBest
  <2> DEFINE cells == {i \in Cells("sweep") : SweepCells[i].phase = p}
             from == IF p = "decode" THEN 1 ELSE PerPhase + 1
             upto == IF p = "decode" THEN PerPhase ELSE 2 * PerPhase
  <2>1. Best(optima[p], from, upto, samples["sweep"])
      BY OptimaAreBest
  <2>2. PerPhase \in Nat \ {0} /\ Cells("sweep") = 1..(2 * PerPhase)
      BY OptimaAreBest, PhaseBlocks
  <2>3. \A i \in 1..(2 * PerPhase) :
            SweepCells[i].phase = IF i <= PerPhase THEN "decode" ELSE "prefill"
      BY PhaseBlocks
  <2>4. cells = from..upto
    <3>1. CASE p = "decode"
        BY <2>2, <2>3, <3>1
    <3>2. CASE p = "prefill"
        BY <2>2, <2>3, <3>2
    <3> QED
        BY <3>1, <3>2
  <2>5. 0 \notin from..upto
      BY <2>2
  <2> HIDE DEF cells, from, upto
  <2>6. IF optima[p] = 0 THEN \A i \in cells : samples["sweep"][i] = <<>>
        ELSE /\ optima[p] \in cells /\ samples["sweep"][optima[p]] # <<>>
             /\ \A i \in cells :
                   /\ Median2(samples["sweep"][i]) <= Median2(samples["sweep"][optima[p]])
                   /\ i < optima[p] =>
                         Median2(samples["sweep"][i]) < Median2(samples["sweep"][optima[p]])
      BY <2>1, <2>4, <2>5 DEF Best
  <2> QED
      BY <2>6 DEF cells
<1> QED
    BY <1>1, HarnessInvariance, PTL

\* Only an attempt that timed out is followed by another of the same call, there
\* are at most --retries of these, and no call is given up as timed out before.
THEOREM RetriesAreSpent == Spec => []GivesUpLate
<1>1. HInv => GivesUpLate
    BY DEF HInv
<1> QED
    BY <1>1, HarnessInvariance, PTL

\* bench.py's labels claim what its debugger saw, for every transcript.
THEOREM LabelsAreWitnessed == Spec => []LabelIsWitnessed
<1>1. HInv => LabelIsWitnessed
    BY DEF HInv
<1> QED
    BY <1>1, HarnessInvariance, PTL

\* Wherever the run ends, no report is without its evidence.
THEOREM ReportsFollowEvidence == Spec => []ReportFollowsEvidence
<1>1. HInv => ReportFollowsEvidence
    BY DEF HInv, FilesInv, ReportFollowsEvidence
<1> QED
    BY <1>1, HarnessInvariance, PTL
==============================================================================
