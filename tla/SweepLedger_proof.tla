-------------------------- MODULE SweepLedger_proof --------------------------
(***************************************************************************)
(* The safety of concurrent sweeps, for any number of them, any command    *)
(* lines and paths, and any replacements of the model file.  IInv relates  *)
(* where a sweep is to its rows, to the digest it took and to the files    *)
(* that hold its text; each safety property follows from it.               *)
(***************************************************************************)
EXTENDS SweepLedger, TLAPS

Measuring == {"select", "probe"}
Measured == {"hash", "size", "guard", "open", "write", "assert"}

\* A sweep's rows are those of its first points, and outside the loop of all.
RowsFollowPlan ==
    \A p \in Sweeps :
        /\ \A i \in 1..Len(rows[p]) : rows[p][i].point = i
        /\ pc[p] = "start" => Len(rows[p]) = 0
        /\ pc[p] \in Measuring => Len(rows[p]) < plan[p].points
        /\ pc[p] \in Measured => Len(rows[p]) = plan[p].points

\* A sweep's text is in no file before it opened one, and then in its own; it
\* has measured every point by then.
TextIsOpened ==
    \A p \in Sweeps, f \in Paths :
        file[f].by = p =>
            /\ pc[p] \in {"write", "assert", "ended"}
            /\ Len(rows[p]) = plan[p].points

\* An exit status is there when the sweep ended, with the reasons for it.
StatusIsEarned ==
    \A p \in Sweeps :
        /\ pc[p] # "ended" => exit[p] = Running /\ ~raised[p]
        /\ exit[p] = 2 => \A f \in Paths : file[f].by # p
        /\ exit[p] = 0 /\ plan[p].assert =>
              Len(rows[p]) = plan[p].points /\ Failing(p) = {}
        /\ exit[p] = 1 /\ ~raised[p] => plan[p].assert /\ Failing(p) # {}

\* The digest, then the size, are taken once, after the last load.
DigestFollowsLoads ==
    \A p \in Sweeps :
        /\ \A v \in measured[p] : v <= model
        /\ pc[p] \in {"start", "hash"} \cup Measuring => digest[p] = 0 /\ size[p] = 0
        /\ pc[p] = "size" => size[p] = 0
        /\ digest[p] <= model
        /\ digest[p] # 0 => \A v \in measured[p] : v <= digest[p]
        /\ size[p] # 0 => digest[p] <= size[p] /\ size[p] <= model

\* A sweep without --out that is past the guard has a path nothing committed
\* is at, nor will be.
GuardHolds ==
    \A p \in Sweeps :
        pc[p] \in {"open", "write"} /\ ~plan[p].explicit =>
            file[plan[p].path] # [body |-> "whole", by |-> Committed]

IInv == /\ TypeOK
        /\ RowsFollowPlan
        /\ TextIsOpened
        /\ StatusIsEarned
        /\ DigestFollowsLoads
        /\ GuardHolds

-----------------------------------------------------------------------------
(* Types.                                                                  *)

\* Before any step nothing is written, measured or owed.
LEMMA InitIInv == Init => IInv
<1> SUFFICES ASSUME Init PROVE IInv
    OBVIOUS
<1>1. TypeOK
  <2>1. file \in [Paths -> File]
      BY DEF Init, File, Bodies
  <2> QED
      BY <2>1, PlanAssumption DEF Init, TypeOK, Running, Places
<1>2. RowsFollowPlan /\ StatusIsEarned /\ DigestFollowsLoads /\ GuardHolds
    BY PlanAssumption DEF Init, RowsFollowPlan, StatusIsEarned, DigestFollowsLoads,
       GuardHolds, Measuring, Measured, Running
<1>3. TextIsOpened
    BY CommittedAssumption DEF Init, TextIsOpened
<1> QED
    BY <1>1, <1>2, <1>3 DEF IInv

\* The row a probe appends.
NewRow(p, r) == [point |-> Len(rows[p]) + 1, verdict |-> compute_verdict(adv[p], r)]

\* A probe appends a row of its point, of which there is one.
LEMMA ProbeRow ==
    ASSUME TypeOK, RowsFollowPlan, NEW p \in Sweeps, NEW r \in Probes,
           pc[p] = "probe",
           rows' = [rows EXCEPT ![p] = Append(@,
                [point |-> Len(@) + 1, verdict |-> compute_verdict(adv[p], r)])]
    PROVE  /\ rows' \in [Sweeps -> Seq(Row)]
           /\ Len(rows'[p]) = Len(rows[p]) + 1
           /\ Len(rows'[p]) <= plan[p].points
           /\ \A i \in 1..Len(rows'[p]) : rows'[p][i].point = i
           /\ \A q \in Sweeps \ {p} : rows'[q] = rows[q]
<1>1. /\ rows[p] \in Seq(Row) /\ Len(rows[p]) \in Nat
      /\ plan[p].points \in 0..MaxPoints /\ MaxPoints \in Nat
    BY PlanAssumption DEF TypeOK, Plan
<1>2. Len(rows[p]) < plan[p].points
    BY DEF RowsFollowPlan, Measuring
<1>3. NewRow(p, r) \in Row
  <2>1. Len(rows[p]) + 1 \in 1..MaxPoints
      BY <1>1, <1>2
  <2>2. adv[p] \in Selections \cup {NoClaim}
      BY DEF TypeOK
  <2> QED
      BY <2>1, <2>2 DEF NewRow, Row
<1>4. rows'[p] = Append(rows[p], NewRow(p, r))
    BY DEF TypeOK, NewRow
<1>5. /\ Len(rows'[p]) = Len(rows[p]) + 1
      /\ \A i \in 1..Len(rows[p]) : rows'[p][i] = rows[p][i]
      /\ rows'[p][Len(rows[p]) + 1] = NewRow(p, r)
    BY <1>1, <1>3, <1>4
<1>6. \A i \in 1..Len(rows'[p]) : rows'[p][i].point = i
    BY <1>1, <1>5 DEF RowsFollowPlan, NewRow
<1>7. rows' \in [Sweeps -> Seq(Row)]
    BY <1>1, <1>3 DEF TypeOK, NewRow
<1> QED
    BY <1>1, <1>2, <1>5, <1>6, <1>7 DEF TypeOK

\* Where a sweep goes, and what it ends with, is of its type.
LEMMA Moves ==
    ASSUME TypeOK, NEW p \in Sweeps
    PROVE  /\ \A l \in Places : Goto(p, l) => pc' \in [Sweeps -> Places]
           /\ \A c \in 0..4 : End(p, c) => /\ pc' \in [Sweeps -> Places]
                                           /\ exit' \in [Sweeps -> 0..4]
           /\ \A n : NextPoint(p, n) \in Places
BY DEF TypeOK, Goto, End, Places, NextPoint

\* Every step keeps the types, of the rows because there are no more than points.
LEMMA NextTypeOK == TypeOK /\ RowsFollowPlan /\ [Next]_vars => TypeOK'
<1> SUFFICES ASSUME TypeOK, RowsFollowPlan, [Next]_vars PROVE TypeOK'
    OBVIOUS
<1> USE DEF TypeOK, procVars, endVars
<1>0. {"probe", "size", "guard", "open", "write", "assert"} \subseteq Places
    BY DEF Places
<1>1. ASSUME NEW p \in Sweeps, Start(p) PROVE TypeOK'
    BY <1>1, Moves DEF Start
<1>2. ASSUME NEW p \in Sweeps, Select(p) PROVE TypeOK'
    BY <1>0, <1>2, Moves DEF Select, Load
<1>3. ASSUME NEW p \in Sweeps, Probe(p) PROVE TypeOK'
  <2>1. rows' \in [Sweeps -> Seq(Row)]
      BY <1>3, ProbeRow DEF Probe
  <2>2. measured' \in [Sweeps -> SUBSET (1..MaxModel)]
    <3>1. Load(p) \/ UNCHANGED measured
        BY <1>3 DEF Probe
    <3> QED
        BY <3>1 DEF Load
  <2>3. pc' \in [Sweeps -> Places]
      BY <1>3, Moves DEF Probe
  <2> QED
      BY <1>3, <2>1, <2>2, <2>3 DEF Probe
<1>4. ASSUME NEW p \in Sweeps, Hash(p) \/ Size(p) PROVE TypeOK'
  <2>1. model \in 0..MaxModel /\ pc' \in [Sweeps -> Places]
      BY <1>0, <1>4, Moves, PlanAssumption DEF Hash, Size
  <2>2. CASE Hash(p)
      BY <2>1, <2>2 DEF Hash
  <2>3. CASE Size(p)
      BY <2>1, <2>3 DEF Size
  <2> QED
      BY <1>4, <2>2, <2>3
<1>5. ASSUME NEW p \in Sweeps, Guard(p) PROVE TypeOK'
    BY <1>0, <1>5, Moves DEF Guard
<1>6. ASSUME NEW p \in Sweeps, Open(p) \/ WriteOver(p) \/ Close(p) PROVE TypeOK'
  <2>1. file' \in [Paths -> File]
    <3>1. PICK b \in Bodies : Put(p, b)
        BY <1>6 DEF Open, WriteOver, Close, Bodies
    <3>2. [body |-> b, by |-> p] \in File
        BY DEF File
    <3> QED
        BY <3>1, <3>2 DEF Put
  <2>2. pc' \in [Sweeps -> Places]
      BY <1>0, <1>6, Moves DEF Open, WriteOver, Close
  <2> QED
      BY <1>6, <2>1, <2>2 DEF Open, WriteOver, Close
<1>7. ASSUME NEW p \in Sweeps, Assert(p) PROVE TypeOK'
    BY <1>7, Moves DEF Assert
<1>8. ASSUME NEW p \in Sweeps, Raise(p) \/ Kill(p) PROVE TypeOK'
  <2>1. \E c \in {1, 4} : End(p, c)
      BY <1>8 DEF Raise, Kill, Signalled
  <2>2. pc' \in [Sweeps -> Places] /\ exit' \in [Sweeps -> 0..4]
      BY <2>1, Moves
  <2> QED
      BY <1>8, <2>2 DEF Raise, Kill
<1>9. CASE ReplaceModel
    BY <1>9, PlanAssumption DEF ReplaceModel
<1>10. CASE UNCHANGED vars
    BY <1>10 DEF vars
<1> QED
    BY <1>1, <1>2, <1>3, <1>4, <1>5, <1>6, <1>7, <1>8, <1>9, <1>10 DEF Next, Step

-----------------------------------------------------------------------------
(* The invariant.                                                          *)

\* What the steps of one sweep leave alone: the other sweeps, and every file
\* but one it writes.
LEMMA OthersStand ==
    ASSUME TypeOK, NEW p \in Sweeps,
           Step(p) \/ WriteOver(p) \/ Raise(p) \/ Kill(p)
    PROVE  /\ plan' = plan
           /\ \A q \in Sweeps \ {p} :
                 /\ pc'[q] = pc[q] /\ rows'[q] = rows[q] /\ exit'[q] = exit[q]
                 /\ raised'[q] = raised[q] /\ measured'[q] = measured[q]
                 /\ digest'[q] = digest[q] /\ size'[q] = size[q]
           /\ model' = model
           /\ \/ file' = file
              \/ /\ pc[p] \in {"open", "write"} /\ pc'[p] \in {"write", "assert"}
                 /\ rows' = rows /\ exit' = exit /\ raised' = raised
                 /\ \E b : Put(p, b)
<1> USE DEF TypeOK, Goto, End, procVars, endVars
<1>1. CASE Start(p) \/ Guard(p) \/ Assert(p) \/ Raise(p) \/ Kill(p)
    BY <1>1 DEF Start, Guard, Assert, Raise, Kill
<1>2. CASE Select(p) \/ Hash(p) \/ Size(p)
    BY <1>2 DEF Select, Load, Hash, Size
<1>3. CASE Probe(p)
  <2>1. /\ plan' = plan /\ model' = model /\ file' = file
        /\ UNCHANGED <<exit, raised, digest, size>>
      BY <1>3 DEF Probe
  <2>2. \A q \in Sweeps \ {p} : pc'[q] = pc[q] /\ rows'[q] = rows[q]
      BY <1>3 DEF Probe
  <2>3. \A q \in Sweeps \ {p} : measured'[q] = measured[q]
    <3>1. Load(p) \/ UNCHANGED measured
        BY <1>3 DEF Probe
    <3> QED
        BY <3>1 DEF Load
  <2> QED
      BY <2>1, <2>2, <2>3
<1>4. CASE Open(p) \/ WriteOver(p) \/ Close(p)
    BY <1>4 DEF Open, WriteOver, Close
<1> QED
    BY <1>1, <1>2, <1>3, <1>4 DEF Step

\* A step of p changes no file but to hold its text.
LEMMA FilesStand ==
    ASSUME TypeOK, NEW p \in Sweeps,
           Step(p) \/ WriteOver(p) \/ Raise(p) \/ Kill(p)
    PROVE  \A f \in Paths : file'[f] = file[f] \/ file'[f].by = p
<1>1. CASE file' = file
    BY <1>1
<1>2. ASSUME NEW b, Put(p, b)
      PROVE  \A f \in Paths : file'[f] = file[f] \/ file'[f].by = p
    BY <1>2 DEF Put, TypeOK
<1> QED
    BY <1>1, <1>2, OthersStand

\* The rows follow the plan through every step of a sweep.
LEMMA KeepsRows ==
    ASSUME IInv, NEW p \in Sweeps, Step(p) \/ WriteOver(p) \/ Raise(p) \/ Kill(p)
    PROVE  RowsFollowPlan'
<1>1. /\ plan' = plan
      /\ \A q \in Sweeps \ {p} : pc'[q] = pc[q] /\ rows'[q] = rows[q]
    BY OthersStand DEF IInv
<1>2. SUFFICES /\ \A i \in 1..Len(rows'[p]) : rows'[p][i].point = i
               /\ pc'[p] = "start" => Len(rows'[p]) = 0
               /\ pc'[p] \in Measuring => Len(rows'[p]) < plan[p].points
               /\ pc'[p] \in Measured => Len(rows'[p]) = plan[p].points
    BY <1>1 DEF IInv, RowsFollowPlan
<1>3. /\ Len(rows[p]) \in Nat /\ plan[p].points \in Nat
      /\ pc \in [Sweeps -> Places]
    BY PlanAssumption DEF IInv, TypeOK, Plan
<1>4. CASE Probe(p)
  <2>1. /\ Len(rows'[p]) = Len(rows[p]) + 1
        /\ Len(rows'[p]) <= plan[p].points
        /\ \A i \in 1..Len(rows'[p]) : rows'[p][i].point = i
      BY <1>4, ProbeRow DEF Probe, IInv
  <2>2. pc'[p] = NextPoint(p, Len(rows'[p]))
      BY <1>3, <1>4 DEF Probe, Goto
  <2> QED
      BY <1>3, <2>1, <2>2 DEF NextPoint, Measuring, Measured
<1>5. CASE ~Probe(p)
  <2>1. rows' = rows
      BY <1>5 DEF Step, Start, Select, Hash, Size, Guard, Open, WriteOver, Close,
         Assert, Raise, Kill, procVars
  <2>2. CASE Start(p)
    <3>1. pc'[p] = NextPoint(p, 0) \/ pc'[p] = "ended"
        BY <1>3, <2>2 DEF Start, Goto, End
    <3>2. Len(rows[p]) = 0
        BY <2>2 DEF Start, IInv, RowsFollowPlan
    <3> QED
        BY <1>3, <2>1, <3>1, <3>2 DEF IInv, RowsFollowPlan, NextPoint, Measuring, Measured
  <2>3. CASE Select(p)
      BY <1>3, <2>1, <2>3 DEF Select, Goto, IInv, RowsFollowPlan, Measuring, Measured
  <2>4. CASE Hash(p) \/ Size(p) \/ Open(p) \/ Close(p) \/ WriteOver(p)
      BY <1>3, <2>1, <2>4 DEF Hash, Size, Open, Close, WriteOver, Goto, IInv,
         RowsFollowPlan, Measuring, Measured
  <2>5. CASE Guard(p) \/ Assert(p) \/ Raise(p) \/ Kill(p)
      BY <1>3, <2>1, <2>5 DEF Guard, Assert, Raise, Kill, Goto, End, IInv,
         RowsFollowPlan, Measuring, Measured
  <2> QED
      BY <1>5, <2>2, <2>3, <2>4, <2>5 DEF Step
<1> QED
    BY <1>4, <1>5

\* No text is in a file before its sweep opened it.
LEMMA KeepsText ==
    ASSUME IInv, NEW p \in Sweeps, Step(p) \/ WriteOver(p) \/ Raise(p) \/ Kill(p)
    PROVE  TextIsOpened'
<1>1. /\ plan' = plan
      /\ \A q \in Sweeps \ {p} : pc'[q] = pc[q] /\ rows'[q] = rows[q]
    BY OthersStand DEF IInv
<1>2. CASE file' # file
  <2>1. /\ pc[p] \in {"open", "write"} /\ pc'[p] \in {"write", "assert"}
        /\ rows' = rows /\ \E b : Put(p, b)
      BY <1>2, OthersStand DEF IInv
  <2>2. Len(rows[p]) = plan[p].points
      BY <2>1 DEF IInv, RowsFollowPlan, Measured
  <2>3. \A f \in Paths : file'[f] = file[f] \/ file'[f].by = p
      BY <2>1 DEF Put, IInv, TypeOK
  <2> QED
      BY <1>1, <2>1, <2>2, <2>3 DEF IInv, TextIsOpened
<1>3. CASE file' = file
  <2>1. CASE pc[p] \in {"write", "assert", "ended"}
    <3>1. rows' = rows /\ pc'[p] \in {"write", "assert", "ended"}
        BY <2>1 DEF Step, Start, Select, Probe, Hash, Size, Guard, Open, WriteOver,
           Close, Assert, Raise, Kill, procVars, Goto, End, IInv, TypeOK
    <3> QED
        BY <1>1, <1>3, <3>1 DEF IInv, TextIsOpened
  <2>2. CASE pc[p] \notin {"write", "assert", "ended"}
      BY <1>1, <1>3, <2>2 DEF IInv, TextIsOpened
  <2> QED
      BY <2>1, <2>2
<1> QED
    BY <1>2, <1>3

\* Only the end of main gives a status, and the reasons stay.
LEMMA KeepsStatus ==
    ASSUME IInv, NEW p \in Sweeps, Step(p) \/ WriteOver(p) \/ Raise(p) \/ Kill(p)
    PROVE  StatusIsEarned'
<1> USE DEF Running, Signalled
<1>0. TypeOK /\ pc \in [Sweeps -> Places] /\ exit \in [Sweeps -> 0..4]
      /\ raised \in [Sweeps -> BOOLEAN]
    BY DEF IInv, TypeOK
<1>1. pc[p] # "ended" /\ exit[p] = Running /\ ~raised[p]
  <2>1. pc[p] # "ended"
      BY DEF Step, Start, Select, Probe, Hash, Size, Guard, Open, WriteOver,
         Close, Assert, Raise, Kill
  <2> QED
      BY <2>1 DEF IInv, StatusIsEarned
<1>2. /\ plan' = plan
      /\ \A q \in Sweeps \ {p} :
            /\ pc'[q] = pc[q] /\ rows'[q] = rows[q] /\ exit'[q] = exit[q]
            /\ raised'[q] = raised[q]
    BY <1>0, OthersStand
<1>3. \A f \in Paths : file'[f] = file[f] \/ file'[f].by = p
    BY <1>0, FilesStand
<1>4. \A q \in Sweeps \ {p} : Failing(q)' = Failing(q)
    BY <1>2 DEF Failing
<1> HIDE DEF Running, Signalled
<1>5. SUFFICES /\ pc'[p] # "ended" => exit'[p] = Running /\ ~raised'[p]
               /\ exit'[p] = 2 => \A f \in Paths : file'[f].by # p
               /\ exit'[p] = 0 /\ plan[p].assert =>
                     Len(rows'[p]) = plan[p].points /\ Failing(p)' = {}
               /\ exit'[p] = 1 /\ ~raised'[p] => plan[p].assert /\ Failing(p)' # {}
  <2>1. ASSUME NEW q \in Sweeps, q # p
        PROVE  /\ pc'[q] # "ended" => exit'[q] = Running /\ ~raised'[q]
               /\ exit'[q] = 2 => \A f \in Paths : file'[f].by # q
               /\ exit'[q] = 0 /\ plan'[q].assert =>
                     Len(rows'[q]) = plan'[q].points /\ Failing(q)' = {}
               /\ exit'[q] = 1 /\ ~raised'[q] => plan'[q].assert /\ Failing(q)' # {}
      BY <1>2, <1>3, <1>4, <2>1 DEF IInv, StatusIsEarned
  <2> QED
      BY <1>2, <2>1 DEF StatusIsEarned, Running
<1> USE DEF Running, Signalled
<1>6. CASE exit' = exit
  <2>1. pc'[p] # "ended" /\ raised' = raised
    <3>1. pc'[p] # "ended"
      <4>1. CASE Probe(p)
          BY <1>0, <4>1 DEF Probe, Goto, NextPoint
      <4> QED
          BY <1>0, <1>1, <1>6, <4>1 DEF Step, Start, Select, Hash, Size, Guard,
             Open, WriteOver, Close, Assert, Raise, Kill, Goto, End, NextPoint
    <3>2. raised' = raised
        BY <1>0, <1>1, <1>6 DEF Step, Start, Select, Probe, Hash, Size, Guard,
           Open, WriteOver, Close, Assert, Raise, Kill, End, endVars
    <3> QED
        BY <3>1, <3>2
  <2> QED
      BY <1>1, <1>6, <2>1
<1>7. CASE exit' # exit
  <2>1. CASE Start(p) \/ Guard(p)
    <3>1. End(p, 2) /\ file' = file /\ raised' = raised
        BY <1>7, <2>1 DEF Start, Guard
    <3>2. \A f \in Paths : file[f].by # p
        BY <2>1 DEF Start, Guard, IInv, TextIsOpened
    <3> QED
        BY <1>0, <3>1, <3>2 DEF End, Goto
  <2>2. CASE Assert(p)
    <3>1. /\ Len(rows[p]) = plan[p].points /\ rows' = rows /\ raised' = raised
          /\ End(p, IF plan[p].assert /\ Failing(p) # {} THEN 1 ELSE 0)
        BY <2>2 DEF Assert, IInv, RowsFollowPlan, Measured, procVars
    <3>2. Failing(p)' = Failing(p)
        BY <3>1 DEF Failing
    <3> QED
        BY <1>0, <1>1, <3>1, <3>2 DEF End, Goto
  <2>3. CASE Raise(p) \/ Kill(p)
      BY <1>0, <2>3 DEF Raise, Kill, End, Goto
  <2> QED
      BY <1>7, <2>1, <2>2, <2>3 DEF Step, Select, Probe, Hash, Size, Open,
         WriteOver, Close, endVars
<1> QED
    BY <1>6, <1>7

\* The digest and the size come after every load.
LEMMA KeepsDigest ==
    ASSUME IInv, NEW p \in Sweeps, Step(p) \/ WriteOver(p) \/ Raise(p) \/ Kill(p)
    PROVE  DigestFollowsLoads'
<1>0. /\ TypeOK /\ model \in Nat \ {0} /\ digest[p] \in Nat /\ size[p] \in Nat
      /\ pc \in [Sweeps -> Places] /\ \A q \in Sweeps : measured[q] \subseteq Nat
    BY PlanAssumption DEF IInv, TypeOK
<1>1. /\ model' = model
      /\ \A q \in Sweeps \ {p} :
            /\ pc'[q] = pc[q] /\ measured'[q] = measured[q]
            /\ digest'[q] = digest[q] /\ size'[q] = size[q]
    BY <1>0, OthersStand
<1> DEFINE DF == /\ \A v \in measured[p] : v <= model
                 /\ pc[p] \in {"start", "hash"} \cup Measuring =>
                       digest[p] = 0 /\ size[p] = 0
                 /\ pc[p] = "size" => size[p] = 0
                 /\ digest[p] <= model
                 /\ digest[p] # 0 => \A v \in measured[p] : v <= digest[p]
                 /\ size[p] # 0 => digest[p] <= size[p] /\ size[p] <= model
<1>2. DF
    BY DEF IInv, DigestFollowsLoads
<1>3. SUFFICES DF'
    BY <1>1 DEF IInv, DigestFollowsLoads
<1>4. CASE Select(p) \/ Probe(p)
  <2>1. /\ digest' = digest /\ size' = size
        /\ measured'[p] \subseteq measured[p] \cup {model}
    <3>1. Load(p) \/ UNCHANGED measured
        BY <1>4 DEF Select, Probe
    <3> QED
        BY <1>0, <1>4, <3>1 DEF Load, Select, Probe, TypeOK
  <2>2. digest[p] = 0 /\ size[p] = 0
      BY <1>2, <1>4 DEF Select, Probe, Measuring
  <2> QED
      BY <1>0, <1>1, <1>2, <2>1, <2>2
<1>5. CASE Hash(p)
  <2>1. digest'[p] = model /\ size' = size /\ measured' = measured /\ pc'[p] = "size"
      BY <1>0, <1>5 DEF Hash, Goto, TypeOK
  <2>2. size[p] = 0
      BY <1>2, <1>5 DEF Hash
  <2> QED
      BY <1>0, <1>1, <1>2, <2>1, <2>2 DEF Measuring
<1>6. CASE Size(p)
  <2>1. digest' = digest /\ size'[p] = model /\ measured' = measured /\ pc'[p] = "guard"
      BY <1>0, <1>6 DEF Size, Goto, TypeOK
  <2> QED
      BY <1>0, <1>1, <1>2, <2>1 DEF Measuring
<1>7. CASE Start(p)
  <2>1. digest' = digest /\ size' = size /\ measured' = measured
      BY <1>7 DEF Start, procVars
  <2>2. digest[p] = 0 /\ size[p] = 0
      BY <1>2, <1>7 DEF Start
  <2> QED
      BY <1>0, <1>1, <1>2, <2>1, <2>2
<1>8. CASE Guard(p) \/ Open(p) \/ WriteOver(p) \/ Close(p) \/ Assert(p)
           \/ Raise(p) \/ Kill(p)
  <2>1. digest' = digest /\ size' = size /\ measured' = measured
      BY <1>8 DEF Guard, Open, WriteOver, Close, Assert, Raise, Kill, procVars
  <2>2. pc'[p] \in {"open", "write", "assert", "ended"}
      BY <1>0, <1>8 DEF Guard, Open, WriteOver, Close, Assert, Raise, Kill, Goto, End
  <2> QED
      BY <1>0, <1>1, <1>2, <2>1, <2>2 DEF Measuring
<1> QED
    BY <1>4, <1>5, <1>6, <1>7, <1>8 DEF Step

\* Past the guard there is no committed file at the path.
LEMMA KeepsGuard ==
    ASSUME IInv, NEW p \in Sweeps, Step(p) \/ WriteOver(p) \/ Raise(p) \/ Kill(p)
    PROVE  GuardHolds'
<1>0. TypeOK /\ pc \in [Sweeps -> Places] /\ plan[p].path \in Paths
    BY DEF IInv, TypeOK, Plan
<1>1. /\ plan' = plan
      /\ \A q \in Sweeps \ {p} : pc'[q] = pc[q]
    BY <1>0, OthersStand
<1>2. \A f \in Paths : file'[f] = file[f] \/ file'[f].by = p
    BY <1>0, FilesStand
<1>3. \A q \in Sweeps : plan[q].path \in Paths
    BY <1>0 DEF TypeOK, Plan
<1>4. ASSUME NEW q \in Sweeps, q # p, pc'[q] \in {"open", "write"}, ~plan'[q].explicit
      PROVE  file'[plan'[q].path] # [body |-> "whole", by |-> Committed]
    BY <1>1, <1>2, <1>3, <1>4, CommittedAssumption DEF IInv, GuardHolds
<1>5. ASSUME pc'[p] \in {"open", "write"}, ~plan'[p].explicit
      PROVE  file'[plan'[p].path] # [body |-> "whole", by |-> Committed]
  <2>1. CASE Guard(p)
    <3>1. ~Exists(plan[p].path) /\ file' = file
        BY <1>0, <1>1, <1>5, <2>1 DEF Guard, End, Goto
    <3> QED
        BY <1>1, <3>1 DEF Exists
  <2>2. CASE ~Guard(p)
    <3>1. pc[p] \in {"open", "write"}
      <4>1. CASE Probe(p)
          BY <1>0, <1>5, <4>1 DEF Probe, Goto, NextPoint
      <4> QED
          BY <1>0, <1>5, <2>2, <4>1 DEF Step, Start, Select, Hash, Size, Open,
             WriteOver, Close, Assert, Raise, Kill, Goto, End, NextPoint
    <3> QED
        BY <1>0, <1>1, <1>2, <1>5, <3>1, CommittedAssumption DEF IInv, GuardHolds
  <2> QED
      BY <2>1, <2>2
<1> QED
    BY <1>4, <1>5 DEF GuardHolds

\* The steps of the world outside the sweeps.
LEMMA WorldKeeps == IInv /\ (ReplaceModel \/ UNCHANGED vars) => IInv'
<1> SUFFICES ASSUME IInv, ReplaceModel \/ UNCHANGED vars PROVE IInv'
    OBVIOUS
<1>1. TypeOK'
    BY NextTypeOK DEF IInv, Next
<1>2. /\ UNCHANGED <<plan, pc, procVars, endVars, file>>
      /\ model \in Nat /\ model <= model'
    BY PlanAssumption DEF IInv, TypeOK, ReplaceModel, vars
<1>3. RowsFollowPlan' /\ TextIsOpened' /\ GuardHolds'
    BY <1>2 DEF IInv, RowsFollowPlan, TextIsOpened, GuardHolds, procVars
<1>4. \A p \in Sweeps : Failing(p)' = Failing(p)
    BY <1>2 DEF Failing, procVars
<1>5. StatusIsEarned'
    BY <1>2, <1>4 DEF IInv, StatusIsEarned, procVars, endVars
<1>6. /\ \A p \in Sweeps : measured[p] \subseteq Nat
      /\ \A p \in Sweeps : digest[p] \in Nat /\ size[p] \in Nat
      /\ model' \in Nat
    BY <1>1, PlanAssumption DEF IInv, TypeOK
<1>7. DigestFollowsLoads'
    BY <1>2, <1>6 DEF IInv, DigestFollowsLoads, procVars
<1> QED
    BY <1>1, <1>3, <1>5, <1>7 DEF IInv

\* Every step keeps the invariant.
LEMMA NextIInv == IInv /\ [Next]_vars => IInv'
<1> SUFFICES ASSUME IInv, [Next]_vars PROVE IInv'
    OBVIOUS
<1>1. ASSUME NEW p \in Sweeps, Step(p) \/ WriteOver(p) \/ Raise(p) \/ Kill(p)
      PROVE  IInv'
  <2>1. TypeOK'
      BY <1>1, NextTypeOK DEF IInv, Next
  <2> QED
      BY <1>1, <2>1, KeepsRows, KeepsText, KeepsStatus, KeepsDigest, KeepsGuard
      DEF IInv
<1> QED
    BY <1>1, WorldKeeps DEF Next

-----------------------------------------------------------------------------
(* What follows.                                                           *)

\* The inductive invariant, for any sweeps, plans, paths and model versions.
THEOREM SweepInvariance == Spec => []IInv
BY InitIInv, NextIInv, PTL DEF Spec

\* Type correctness of the sweeps.
THEOREM SweepsAreTyped == Spec => []TypeOK
BY SweepInvariance, PTL DEF IInv

\* A file that is one sweep's whole text has one row per point, in order,
\* whoever else ran, died or wrote meanwhile.
THEOREM LedgersAreComplete == Spec => []LedgerIsComplete
<1>1. IInv => LedgerIsComplete
    BY DEF IInv, RowsFollowPlan, TextIsOpened, LedgerIsComplete
<1> QED
    BY <1>1, SweepInvariance, PTL

\* Exit statuses 0, 1 and 2 stand for what --assert and the guard promise.
THEOREM ExitsAreEarned == Spec => []ExitMeans
<1>1. IInv => ExitMeans
    BY DEF IInv, StatusIsEarned, ExitMeans
<1> QED
    BY <1>1, SweepInvariance, PTL

\* No digest is of older bytes than a run loaded, no size of older bytes than
\* the digest, however often the model file is replaced.
THEOREM DigestsAreNotOlder == Spec => []DigestIsNotOlder
<1>1. IInv => DigestIsNotOlder
    BY DEF IInv, DigestFollowsLoads, DigestIsNotOlder
<1> QED
    BY <1>1, SweepInvariance, PTL

\* A step never changes a committed ledger, but for a sweep with --out.
LEMMA StepsSpareEvidence ==
    ASSUME IInv, [Next]_vars, NEW f \in Paths,
           file[f] = [body |-> "whole", by |-> Committed], file'[f] # file[f]
    PROVE  \E p \in Sweeps : plan[p].explicit /\ file'[f].by = p
<1>1. TypeOK
    BY DEF IInv
<1>2. PICK p \in Sweeps : Step(p) \/ WriteOver(p) \/ Raise(p) \/ Kill(p)
    BY DEF Next, ReplaceModel, vars
<1>3. pc[p] \in {"open", "write"} /\ \E b : Put(p, b)
    BY <1>1, <1>2, OthersStand
<1>4. f = plan[p].path /\ file'[f].by = p
    BY <1>1, <1>3 DEF Put, TypeOK
<1>5. plan[p].explicit
    BY <1>1, <1>3, <1>4 DEF IInv, GuardHolds
<1> QED
    BY <1>4, <1>5

\* Committed evidence stands: what two sweeps with default paths can overwrite
\* is only what neither found there.
THEOREM CommittedEvidenceStands == Spec => EvidenceStands
<1>1. IInv /\ [Next]_vars =>
         [\A f \in Paths :
             file[f] = [body |-> "whole", by |-> Committed] =>
                 \/ file'[f] = file[f]
                 \/ \E p \in Sweeps : plan[p].explicit /\ file'[f].by = p]_vars
    BY StepsSpareEvidence
<1> QED
    BY <1>1, SweepInvariance, PTL DEF Spec, EvidenceStands

-----------------------------------------------------------------------------
(* Termination.                                                            *)

\* What a sweep has left to do, at most: two statements for each point to come,
\* its selection and its probe, and those after the loop.
Rank == [start |-> 8, select |-> 7, probe |-> 6, hash |-> 6, size |-> 5,
         guard |-> 4, open |-> 3, write |-> 2, assert |-> 1, ended |-> 0]

Left(p) == 2 * (plan[p].points - Len(rows[p])) + Rank[pc[p]]

\* Each statement of a sweep leaves it less to do, and nothing another sweep, a
\* kill or a new model does leaves it more: main has no endless loop, whatever
\* the debugger answers and the files hold.
SweepsRunDown ==
    [][\A p \in Sweeps :
          /\ Left(p) \in Nat /\ Left(p)' \in Nat /\ Left(p)' <= Left(p)
          /\ pc'[p] # pc[p] => Left(p)' < Left(p)]_vars

\* A sweep that is killed in the loop has no more rows than points, either.
RowsWithinPlan == \A p \in Sweeps : Len(rows[p]) <= plan[p].points

\* The places have their ranks.
LEMMA Ranks ==
    /\ \A l \in Places : Rank[l] \in Nat
    /\ \A l \in Places \ {"ended"} : Rank["ended"] < Rank[l]
    /\ Rank["select"] = 7 /\ Rank["hash"] = 6 /\ Rank["probe"] = 6 /\ Rank["start"] = 8
    /\ Rank["size"] = 5 /\ Rank["guard"] = 4 /\ Rank["open"] = 3 /\ Rank["write"] = 2
    /\ Rank["assert"] = 1 /\ Rank["ended"] = 0
BY DEF Places, Rank

\* What is left is a number.
LEMMA LeftIsANumber ==
    ASSUME TypeOK, RowsWithinPlan, NEW p \in Sweeps
    PROVE  Left(p) \in Nat
<1>1. /\ Len(rows[p]) \in Nat /\ plan[p].points \in Nat /\ pc[p] \in Places
      /\ Len(rows[p]) <= plan[p].points
    BY PlanAssumption DEF TypeOK, Plan, RowsWithinPlan
<1>2. Rank[pc[p]] \in Nat
    BY <1>1, Ranks
<1> QED
    BY <1>1, <1>2 DEF Left

\* A row is added for a point that was still to come.
LEMMA KeepsRowsWithin == IInv /\ RowsWithinPlan /\ [Next]_vars => RowsWithinPlan'
<1> SUFFICES ASSUME IInv, RowsWithinPlan, [Next]_vars PROVE RowsWithinPlan'
    OBVIOUS
<1>1. ASSUME NEW p \in Sweeps, Step(p) \/ WriteOver(p) \/ Raise(p) \/ Kill(p)
      PROVE  RowsWithinPlan'
  <2>1. plan' = plan /\ \A q \in Sweeps \ {p} : rows'[q] = rows[q]
      BY <1>1, OthersStand DEF IInv
  <2>2. Len(rows'[p]) <= plan[p].points
    <3>1. CASE Probe(p)
        BY <3>1, ProbeRow DEF Probe, IInv
    <3>2. CASE ~Probe(p)
      <4>1. rows' = rows
          BY <1>1, <3>2 DEF Step, Start, Select, Hash, Size, Guard, Open, WriteOver, Close,
             Assert, Raise, Kill, procVars
      <4> QED
          BY <4>1 DEF RowsWithinPlan
    <3> QED
        BY <3>1, <3>2
  <2> QED
      BY <2>1, <2>2 DEF RowsWithinPlan
<1>2. CASE ReplaceModel \/ UNCHANGED vars
    BY <1>2 DEF ReplaceModel, vars, procVars, RowsWithinPlan
<1> QED
    BY <1>1, <1>2 DEF Next

\* The step of a sweep brings it nearer to its end, or leaves it where it is.
LEMMA StepRunsDown ==
    ASSUME IInv, RowsWithinPlan, NEW p \in Sweeps,
           Step(p) \/ WriteOver(p) \/ Raise(p) \/ Kill(p)
    PROVE  /\ Left(p)' <= Left(p)
           /\ pc'[p] # pc[p] => Left(p)' < Left(p)
<1> DEFINE n == plan[p].points - Len(rows[p])
<1>1. /\ plan' = plan /\ pc \in [Sweeps -> Places] /\ pc[p] \in Places /\ n \in Nat
      /\ Len(rows[p]) \in Nat /\ plan[p].points \in Nat
    BY OthersStand, PlanAssumption DEF IInv, TypeOK, Plan, RowsWithinPlan
<1>2. Left(p) = 2 * n + Rank[pc[p]] /\ Rank[pc[p]] \in Nat
    BY <1>1, Ranks DEF Left
<1>3. CASE Probe(p)
  <2>1. /\ Len(rows'[p]) = Len(rows[p]) + 1 /\ Len(rows'[p]) <= plan[p].points
        /\ pc[p] = "probe"
      BY <1>3, ProbeRow DEF Probe, IInv
  <2>2. pc'[p] \in {"select", "hash"}
      BY <1>1, <1>3 DEF Probe, Goto, NextPoint
  <2>3. Left(p)' = 2 * (plan[p].points - (Len(rows[p]) + 1)) + Rank[pc'[p]]
      BY <1>1, <2>1 DEF Left
  <2>4. Rank[pc'[p]] \in {6, 7} /\ Rank[pc[p]] = 6
      BY <2>1, <2>2, Ranks
  <2>5. Left(p)' = 2 * n - 2 + Rank[pc'[p]]
    <3>1. \A a, b, k \in Nat : 2 * (a - (b + 1)) + k = 2 * (a - b) - 2 + k
        OBVIOUS
    <3>2. Rank[pc'[p]] \in Nat
        BY <2>4
    <3> QED
        BY <1>1, <2>3, <3>1, <3>2
  <2> HIDE DEF n
  <2> QED
      BY <1>1, <1>2, <2>4, <2>5
<1>4. CASE ~Probe(p)
  <2>1. rows' = rows
      BY <1>4 DEF Step, Start, Select, Hash, Size, Guard, Open, WriteOver, Close,
         Assert, Raise, Kill, procVars
  <2>2. Left(p)' = 2 * n + Rank[pc'[p]]
      BY <1>1, <2>1 DEF Left
  <2>3. \/ pc'[p] = pc[p]
        \/ Rank[pc'[p]] \in Nat /\ Rank[pc'[p]] < Rank[pc[p]]
    <3>1. CASE Start(p)
        BY <1>1, <3>1, Ranks DEF Start, Goto, End, NextPoint
    <3>2. CASE Select(p) \/ Hash(p) \/ Size(p) \/ Open(p) \/ Close(p)
        BY <1>1, <3>2, Ranks DEF Select, Hash, Size, Open, Close, Goto
    <3>3. CASE Guard(p) \/ Assert(p)
        BY <1>1, <3>3, Ranks DEF Guard, Assert, Goto, End
    <3>4. CASE WriteOver(p)
        BY <3>4 DEF WriteOver
    <3>5. CASE Raise(p) \/ Kill(p)
      <4>1. pc[p] # "ended" /\ pc'[p] = "ended"
          BY <1>1, <3>5 DEF Raise, Kill, Goto, End
      <4> QED
          BY <1>1, <4>1, Ranks
    <3> QED
        BY <1>4, <3>1, <3>2, <3>3, <3>4, <3>5 DEF Step
  <2> HIDE DEF n
  <2> QED
      BY <1>1, <1>2, <2>2, <2>3
<1> QED
    BY <1>3, <1>4

\* Every sweep runs down, so the fairness of its own steps is all it takes.
THEOREM EverySweepRunsDown == Spec => SweepsRunDown
<1> DEFINE A == \A p \in Sweeps :
                    /\ Left(p) \in Nat /\ Left(p)' \in Nat /\ Left(p)' <= Left(p)
                    /\ pc'[p] # pc[p] => Left(p)' < Left(p)
<1>1. Init => RowsWithinPlan
    BY PlanAssumption DEF Init, RowsWithinPlan, Plan
<1>2. IInv /\ RowsWithinPlan /\ IInv' /\ RowsWithinPlan' /\ [Next]_vars => [A]_vars
  <2> SUFFICES ASSUME IInv, RowsWithinPlan, IInv', RowsWithinPlan', Next, NEW q \in Sweeps
               PROVE  /\ Left(q) \in Nat /\ Left(q)' \in Nat /\ Left(q)' <= Left(q)
                      /\ pc'[q] # pc[q] => Left(q)' < Left(q)
      OBVIOUS
  <2>1. Left(q) \in Nat
      BY LeftIsANumber DEF IInv
  <2>2. Left(q)' \in Nat
    <3>1. /\ Len(rows'[q]) \in Nat /\ plan'[q].points \in Nat /\ pc'[q] \in Places
          /\ Len(rows'[q]) <= plan'[q].points
        BY PlanAssumption DEF IInv, TypeOK, Plan, RowsWithinPlan
    <3>2. Rank[pc'[q]] \in Nat
        BY <3>1, Ranks
    <3> QED
        BY <3>1, <3>2 DEF Left
  <2>3. ASSUME NEW p \in Sweeps, Step(p) \/ WriteOver(p) \/ Raise(p) \/ Kill(p), q # p
        PROVE  Left(q)' = Left(q) /\ pc'[q] = pc[q]
      BY <2>3, OthersStand DEF IInv, Left
  <2>4. ReplaceModel => Left(q)' = Left(q) /\ pc'[q] = pc[q]
      BY DEF ReplaceModel, procVars, Left
  <2> QED
      BY <2>1, <2>2, <2>3, <2>4, StepRunsDown DEF Next
<1> QED
    BY <1>1, <1>2, KeepsRowsWithin, SweepInvariance, PTL DEF Spec, SweepsRunDown
==============================================================================
