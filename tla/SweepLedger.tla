----------------------------- MODULE SweepLedger -----------------------------
(***************************************************************************)
(* The sweep of tools/verify_dispatch.py's main: for every point (workload *)
(* by thread count) a selection run and a debugger run give one row; then  *)
(* the model file is hashed, and the ledger is written, by default into    *)
(* the evidence directory results/, where an existing file is refused.     *)
(*                                                                         *)
(* Several sweeps run at the same time (a developer's, run_all.sh's), the  *)
(* model file may be replaced under them (fetch_model.sh moves a download  *)
(* into place), and a sweep may be killed or raise anywhere.               *)
(***************************************************************************)
EXTENDS Evidence

CONSTANTS
    Sweeps,      \* processes running verify_dispatch.py
    PlansOf,     \* PlansOf[p]: the command lines p may be started with
    Paths,       \* ledger files
    DefaultPath, \* results/dispatch-ledger-<platform>.json
    Selections,  \* the q4 features the selection logs of this model name
    Probes,      \* the L3 results its debugger runs give
    MaxPoints,   \* bound: points of a sweep
    MaxModel     \* bound: versions of the model file

Plan == [points : 0..MaxPoints, path : Paths, explicit : BOOLEAN,
         assert : BOOLEAN]

ASSUME PlanAssumption ==
    /\ MaxPoints \in Nat /\ MaxModel \in Nat \ {0}
    /\ DefaultPath \in Paths
    /\ PlansOf \in [Sweeps -> SUBSET {pl \in Plan :
                              ~pl.explicit => pl.path = DefaultPath}]
    /\ Selections \subseteq Claims
    /\ Probes \subseteq L3Result

VARIABLES
    plan,     \* the command line of each sweep
    pc,       \* where each sweep is
    adv,      \* what its last selection run advertised
    rows,     \* configs: the rows so far
    measured, \* the versions of the model its runs loaded
    digest,   \* the version model_sha256 is of; 0 until it is taken
    size,     \* the version model_bytes is of; 0 until it is taken
    exit,     \* the exit status, Running while it runs
    raised,   \* the sweep ended in a traceback
    model,    \* the version of the model file on disk
    file      \* the ledger files

procVars == <<adv, rows, measured, digest, size>>
endVars == <<exit, raised>>
vars == <<plan, pc, procVars, endVars, model, file>>

Running == 3
Signalled == 4

\* A ledger file: absent, cut short, whole, or the texts of two sweeps over
\* one another; by is the sweep whose text it is.  The text of a whole file is
\* rows[by] with digest[by], which no longer change.
Committed == "committed"
Bodies == {"absent", "part", "whole", "mixed"}
File == [body : Bodies, by : Sweeps \cup {Committed}]

\* A file of the repository is nobody's.
ASSUME CommittedAssumption == Committed \notin Sweeps

\* A measured point: which one, and compute_verdict's answer.
Row == [point : 1..MaxPoints,
        verdict : {compute_verdict(a, r) :
                       a \in Selections \cup {NoClaim}, r \in Probes}]

\* The statements of main a sweep can be at.
Places == {"start", "select", "probe", "hash", "size", "guard",
           "open", "write", "assert", "ended"}

TypeOK ==
    /\ plan \in [Sweeps -> Plan]
    /\ pc \in [Sweeps -> Places]
    /\ adv \in [Sweeps -> Selections \cup {NoClaim}]
    /\ rows \in [Sweeps -> Seq(Row)]
    /\ measured \in [Sweeps -> SUBSET (1..MaxModel)]
    /\ digest \in [Sweeps -> 0..MaxModel]
    /\ size \in [Sweeps -> 0..MaxModel]
    /\ exit \in [Sweeps -> 0..4]
    /\ raised \in [Sweeps -> BOOLEAN]
    /\ model \in 1..MaxModel
    /\ file \in [Paths -> File]

Init ==
    /\ plan \in [Sweeps -> Plan] /\ \A p \in Sweeps : plan[p] \in PlansOf[p]
    /\ pc = [p \in Sweeps |-> "start"]
    /\ adv = [p \in Sweeps |-> NoClaim]
    /\ rows = [p \in Sweeps |-> <<>>]
    /\ measured = [p \in Sweeps |-> {}]
    /\ digest = [p \in Sweeps |-> 0]
    /\ size = [p \in Sweeps |-> 0]
    /\ exit = [p \in Sweeps |-> Running]
    /\ raised = [p \in Sweeps |-> FALSE]
    /\ model = 1
    /\ file \in [Paths -> {[body |-> b, by |-> Committed] :
                              b \in {"absent", "whole"}}]

Goto(p, l) == pc' = [pc EXCEPT ![p] = l]

End(p, code) ==
    /\ Goto(p, "ended")
    /\ exit' = [exit EXCEPT ![p] = code]

\* A run of the benchmarked program loads the model file by its path.
Load(p) == measured' = [measured EXCEPT ![p] = @ \cup {model}]

\* A broken variant: the loop runs once more.
NextPoint_onemore(p, n) == IF n <= plan[p].points THEN "select" ELSE "hash"

\* The loop header: the next point, or out of the loop.
NextPoint(p, n) == IF n < plan[p].points THEN "select" ELSE "hash"

-----------------------------------------------------------------------------

\* Arguments, L1 and the library; a missing binary or model ends with 2.
Start(p) ==
    /\ pc[p] = "start"
    /\ \/ Goto(p, NextPoint(p, 0)) /\ UNCHANGED exit
       \/ End(p, 2)
    /\ UNCHANGED <<plan, procVars, raised, model, file>>

\* run_l2_select: on a timeout nothing is read from the log.
Select(p) ==
    /\ pc[p] = "select"
    /\ \E a \in Selections \cup {NoClaim} : adv' = [adv EXCEPT ![p] = a]
    /\ Load(p)
    /\ Goto(p, "probe")
    /\ UNCHANGED <<plan, rows, digest, size, endVars, model, file>>

\* A broken variant: a point whose probe failed is left out.
Probe_skips_failed(p) ==
    /\ pc[p] = "probe"
    /\ \E r \in Probes :
          /\ rows' = IF ~r.completed THEN rows ELSE
                [rows EXCEPT ![p] = Append(@,
                    [point |-> Len(@) + 1, verdict |-> compute_verdict(adv[p], r)])]
          /\ Goto(p, NextPoint(p, Len(rows[p]) + 1))
          /\ IF r.available THEN Load(p) ELSE UNCHANGED measured
    /\ UNCHANGED <<plan, adv, digest, size, endVars, model, file>>

\* The debugger run and build_config_record.
Probe(p) ==
    /\ pc[p] = "probe"
    /\ \E r \in Probes :
          /\ rows' = [rows EXCEPT ![p] = Append(@,
                [point |-> Len(@) + 1, verdict |-> compute_verdict(adv[p], r)])]
          /\ IF r.available THEN Load(p) ELSE UNCHANGED measured
    /\ Goto(p, NextPoint(p, Len(rows'[p])))
    /\ UNCHANGED <<plan, adv, digest, size, endVars, model, file>>

\* A broken variant: the digest is of the file the sweep started with.
Hash_first(p) ==
    /\ pc[p] = "hash"
    /\ digest' = [digest EXCEPT ![p] = 1]
    /\ Goto(p, "size")
    /\ UNCHANGED <<plan, adv, rows, measured, size, endVars, model, file>>

\* model_sha256: a file moved over the path after the open is not seen.
Hash(p) ==
    /\ pc[p] = "hash"
    /\ digest' = [digest EXCEPT ![p] = model]
    /\ Goto(p, "size")
    /\ UNCHANGED <<plan, adv, rows, measured, size, endVars, model, file>>

\* model_bytes: os.path.getsize looks the path up again.
Size(p) ==
    /\ pc[p] = "size"
    /\ size' = [size EXCEPT ![p] = model]
    /\ Goto(p, "guard")
    /\ UNCHANGED <<plan, adv, rows, measured, digest, endVars, model, file>>

-----------------------------------------------------------------------------

Exists(f) == file[f].body # "absent"

\* A broken variant: the guard looks at an explicit --out only.
Guard_inverted(p) ==
    /\ pc[p] = "guard"
    /\ IF plan[p].explicit /\ Exists(plan[p].path)
       THEN End(p, 2)
       ELSE Goto(p, "open") /\ UNCHANGED exit
    /\ UNCHANGED <<plan, procVars, raised, model, file>>

\* A broken variant: the sweep waits for the file to go away.
Guard_waits(p) ==
    /\ pc[p] = "guard"
    /\ plan[p].explicit \/ ~Exists(plan[p].path)
    /\ Goto(p, "open")
    /\ UNCHANGED <<plan, procVars, endVars, model, file>>

\* "not args.out and os.path.exists(out_path)": refused.
Guard(p) ==
    /\ pc[p] = "guard"
    /\ IF ~plan[p].explicit /\ Exists(plan[p].path)
       THEN End(p, 2)
       ELSE Goto(p, "open") /\ UNCHANGED exit
    /\ UNCHANGED <<plan, procVars, raised, model, file>>

Put(p, b) == file' = [file EXCEPT ![plan[p].path] = [body |-> b, by |-> p]]

\* open(out_path, "w") creates or truncates.
Open(p) ==
    /\ pc[p] = "open"
    /\ Put(p, "part")
    /\ Goto(p, "write")
    /\ UNCHANGED <<plan, procVars, endVars, model>>

\* Nobody else opened or wrote the file since this sweep truncated it.
Alone(p) == file[plan[p].path] = [body |-> "part", by |-> p]

\* json.dump: a piece of the text reaches a file that another sweep wrote to.
WriteOver(p) ==
    /\ pc[p] = "write" /\ ~Alone(p)
    /\ Put(p, "mixed")
    /\ UNCHANGED <<plan, pc, procVars, endVars, model>>

\* The rest of the text is written and the file is closed.  Over another
\* sweep's text the outcome depends on which of the two is longer.
Close(p) ==
    /\ pc[p] = "write"
    /\ \/ Put(p, "whole")
       \/ ~Alone(p) /\ Put(p, "mixed")
    /\ Goto(p, "assert")
    /\ UNCHANGED <<plan, procVars, endVars, model>>

Failing(p) == {i \in 1..Len(rows[p]) :
                  rows[p][i].verdict \in DEFAULT_ASSERT_FAIL_VERDICTS}

\* A broken variant: only the last row is looked at.
Assert_last(p) ==
    /\ pc[p] = "assert"
    /\ End(p, IF plan[p].assert /\ Len(rows[p]) \in Failing(p) THEN 1 ELSE 0)
    /\ UNCHANGED <<plan, procVars, raised, model, file>>

\* --assert, and the end of main.
Assert(p) ==
    /\ pc[p] = "assert"
    /\ End(p, IF plan[p].assert /\ Failing(p) # {} THEN 1 ELSE 0)
    /\ UNCHANGED <<plan, procVars, raised, model, file>>

-----------------------------------------------------------------------------

\* main catches nothing: the interpreter ends with status 1 (a library that
\* cannot be read, a full disk, a model file that is gone).
Raise(p) ==
    /\ pc[p] # "ended"
    /\ End(p, 1)
    /\ raised' = [raised EXCEPT ![p] = TRUE]
    /\ UNCHANGED <<plan, procVars, model, file>>

\* run_with_timeout's watcher, Ctrl-C, a reboot.
Kill(p) ==
    /\ pc[p] # "ended"
    /\ End(p, Signalled)
    /\ UNCHANGED <<plan, procVars, raised, model, file>>

\* fetch_one: mv of a finished download over the model file.
ReplaceModel ==
    /\ model < MaxModel
    /\ model' = model + 1
    /\ UNCHANGED <<plan, pc, procVars, endVars, file>>

Step(p) ==
    \/ Start(p) \/ Select(p) \/ Probe(p) \/ Hash(p) \/ Size(p)
    \/ Guard(p) \/ Open(p) \/ Close(p) \/ Assert(p)

Next ==
    \/ \E p \in Sweeps : Step(p) \/ WriteOver(p) \/ Raise(p) \/ Kill(p)
    \/ ReplaceModel

\* A sweep is scheduled; its selection and debugger runs end at their
\* timeouts (--l2-timeout, --l3-timeout) at the latest.
Fairness == \A p \in Sweeps : WF_vars(Step(p))

Spec == Init /\ [][Next]_vars
FairSpec == Spec /\ Fairness

-----------------------------------------------------------------------------
(***************************************************************************)
(* Properties.                                                             *)
(***************************************************************************)

\* Whoever else ran or died meanwhile, a file that is one sweep's whole text
\* has one row for every point of its command line, in order: no point is
\* lost or measured twice.
LedgerIsComplete ==
    \A f \in Paths :
        LET p == file[f].by IN
        file[f].body = "whole" /\ p \in Sweeps =>
            /\ Len(rows[p]) = plan[p].points
            /\ \A i \in 1..Len(rows[p]) : rows[p][i].point = i

\* Committed evidence is refused, not clobbered: no sweep without --out
\* changes a ledger that was there before it, and no crash does either.
EvidenceStands ==
    [][\A f \in Paths :
          file[f] = [body |-> "whole", by |-> Committed] =>
              \/ file'[f] = file[f]
              \/ \E p \in Sweeps : plan[p].explicit /\ file'[f].by = p]_vars

\* A refusal, like every exit 2, leaves nothing of the sweep on disk.  An
\* --assert that gives 0 had a row for every point and none of a failing
\* verdict; one that gives 1 without a traceback had one.
ExitMeans ==
    \A p \in Sweeps :
        /\ exit[p] = 2 => \A f \in Paths : file[f].by # p
        /\ exit[p] = 0 /\ plan[p].assert =>
              Len(rows[p]) = plan[p].points /\ Failing(p) = {}
        /\ exit[p] = 1 /\ ~raised[p] => plan[p].assert /\ Failing(p) # {}

\* The digest is never of older bytes than a run of the sweep loaded, nor
\* the size of older bytes than the digest.
DigestIsNotOlder ==
    \A p \in Sweeps :
        /\ digest[p] # 0 => \A v \in measured[p] : v <= digest[p]
        /\ size[p] # 0 => digest[p] <= size[p] /\ size[p] <= model

\* Every sweep ends, whatever the others do to its files.
EverySweepEnds == \A p \in Sweeps : <>(pc[p] = "ended")

-----------------------------------------------------------------------------
(***************************************************************************)
(* What the repository says of the program and the code does not do.       *)
(***************************************************************************)

\* "results/ is an append-only evidence record in this project, so refuse
\* rather than clobber; an explicit --out is the way to say you meant it":
\* without an --out, a ledger that was written whole is never replaced.
EvidenceNeverReplaced ==
    [][\A f \in Paths :
          file[f].body = "whole" =>
              \/ file'[f] = file[f]
              \/ \E p \in Sweeps : plan[p].explicit /\ file'[f].by = p]_vars

\* model_sha256 is the "identity of the exact bytes measured, not just their
\* path": every run of a sweep loaded the bytes its ledger names.
DigestIdentifiesMeasured ==
    \A p \in Sweeps : digest[p] # 0 => measured[p] \subseteq {digest[p]}

=============================================================================
