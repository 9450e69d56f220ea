----------------------------- MODULE ClaimsGate -----------------------------
(***************************************************************************)
(* tools/check_claims.py, the gate on the numbers this repository prints.  *)
(* A run reads the files once per check and its exit status is a function  *)
(* of them, so there is no state: the gate is written as operators on      *)
(* documents and on the repository.  Where the program walks over lines    *)
(* and keeps the last thing it saw, the operator names the set of things   *)
(* it can end with, of at most one member.                                 *)
(*                                                                         *)
(* A document is a sequence of lines.  A line is reduced to                *)
(*   level     1..6 for a heading, 0 otherwise                             *)
(*   blank     nothing but white space                                     *)
(*   bar       starts with "|"                                             *)
(*   unit      "hits", "toks" or "none": the unit word, as a table header  *)
(*   keyword   holds a retraction keyword of the registry                  *)
(*   figures   the retracted figures it shows                              *)
(*   tokens    the other numbers it shows                                  *)
(*   holds     which match_substrings of the registry it contains          *)
(***************************************************************************)
EXTENDS Integers, Sequences, FiniteSets

-----------------------------------------------------------------------------
(* Headings and blocks: which lines count as the context of a line.        *)

Headings(lines) == {i \in DOMAIN lines : lines[i].level > 0}

\* The last heading at or before line i.
EnclosingHeading(lines, i) ==
    {h \in Headings(lines) :
        h <= i /\ \A g \in Headings(lines) : g <= i => g <= h}

\* The end, exclusive, of what stands directly under heading h.
OwnPreambleBound(lines, h) ==
    {e \in (h + 1)..(Len(lines) + 1) :
        /\ e \in Headings(lines) \cup {Len(lines) + 1}
        /\ \A g \in Headings(lines) : g > h => e <= g}

\* The maximal runs of lines in [start, end) that are not blank, as pairs
\* <<first line, line after the last>>.
Blocks(lines, start, end) ==
    {b \in (start..end) \X (start..end) :
        /\ b[1] < b[2]
        /\ \A k \in b[1]..(b[2] - 1) : ~lines[k].blank
        /\ b[1] > start => lines[b[1] - 1].blank
        /\ b[2] < end => lines[b[2]].blank}

LinesOf(b) == b[1]..(b[2] - 1)

FirstBlock(lines, start, end) ==
    UNION {LinesOf(b) : b \in {c \in Blocks(lines, start, end) :
        \A d \in Blocks(lines, start, end) : c[1] <= d[1]}}

\* No block of the set lies between b and c.
Neighbours(blocks, b, c) ==
    ~\E d \in blocks : \/ b[1] < d[1] /\ d[1] < c[1]
                       \/ c[1] < d[1] /\ d[1] < b[1]

\* Heading h, the block line i is in, and the blocks next to that one.
OwnContextBlock(lines, h, i) ==
    {h} \cup UNION
        {LET blocks == Blocks(lines, h + 1, e) IN
         UNION {LinesOf(c) : c \in {c \in blocks :
             \E b \in blocks : i \in LinesOf(b) /\ Neighbours(blocks, b, c)}} :
         e \in OwnPreambleBound(lines, h)}

HeadingAndFirstBlock(lines, h) ==
    {h} \cup UNION {FirstBlock(lines, h + 1, e) : e \in OwnPreambleBound(lines, h)}

\* The heading one level up: the last one before h of a smaller level.
ParentHeading(lines, h) ==
    {p \in Headings(lines) :
        /\ p < h /\ lines[p].level < lines[h].level
        /\ \A g \in Headings(lines) :
              g < h /\ lines[g].level < lines[h].level => g <= p}

\* Before the first heading, the block of the line and nothing else.
ContextBeforeHeadings(lines, i) ==
    UNION {UNION {LinesOf(b) : b \in {b \in Blocks(lines, 1, e) : i \in LinesOf(b)}} :
           e \in OwnPreambleBound(lines, 0)}

\* _retraction_context_text, as the set of lines the text is made of.
RetractionContext(lines, i) ==
    IF EnclosingHeading(lines, i) = {} THEN ContextBeforeHeadings(lines, i)
    ELSE UNION {OwnContextBlock(lines, h, i)
                \cup UNION {HeadingAndFirstBlock(lines, p) :
                               p \in ParentHeading(lines, h)} :
                h \in EnclosingHeading(lines, i)}

-----------------------------------------------------------------------------
(* Check 1: retracted figures.                                             *)

\* A repository's documents are a function from file names to lines; scanned
\* is the set of names a glob list selects, docs/CLAIMS.md never among them.

Findings(check, where) == {[check |-> check, at |-> w] : w \in where}

Places(docs, files) ==
    {w \in [file : files, line : UNION {DOMAIN docs[f] : f \in files}] :
        w.line \in DOMAIN docs[w.file]}
At(docs, w) == docs[w.file][w.line]

\* The first entry of an exemption list that fits a line.
Applies(ex, docs, w) ==
    ex.file = w.file /\ (ex.substring = "" \/ ex.substring \in At(docs, w).holds)
FirstExemption(exemptions, docs, w) ==
    {exemptions[k] : k \in {n \in DOMAIN exemptions :
        /\ Applies(exemptions[n], docs, w)
        /\ \A m \in 1..(n - 1) : ~Applies(exemptions[m], docs, w)}}

RetractedMentions(docs, files) ==
    {w \in Places(docs, files) : At(docs, w).figures # {}}

\* The line is marked, or something in its context is.
Marked(docs, w) ==
    \/ At(docs, w).keyword
    \/ \E k \in RetractionContext(docs[w.file], w.line) : docs[w.file][k].keyword

RetractionGuard(docs, files, registry) ==
    LET open == {w \in RetractedMentions(docs, files) : ~Marked(docs, w)}
        exempt(w) == FirstExemption(registry.retraction_exemptions, docs, w)
    IN  Findings("retraction-exemption-missing-reason",
                 {w \in open : \E ex \in exempt(w) : ~ex.reason})
        \cup Findings("retracted-figure-unmarked", {w \in open : exempt(w) = {}})

-----------------------------------------------------------------------------
(* Numbers.  A printed number is a sign, a whole number of digits and how  *)
(* many of them are decimals; commas are gone.  Other values are counted   *)
(* in units of ten to the power -Scale, ties rounded up.                   *)

Scale == 6

Key(n) == [digits |-> n.digits, dp |-> n.dp]

Signed(n) == IF n.sign = "-" THEN -n.digits ELSE n.digits

Rounded(x, dp) == (2 * x + 10 ^ (Scale - dp)) \div (2 * 10 ^ (Scale - dp))

Agrees(x, n) == Rounded(x, n.dp) = n.digits

\* is_json_backed, of the value without its sign.
JsonBacked(n, numbers) == \E x \in numbers : Agrees(x, n)

\* The value a derived claim should have; "raises" when it divides by zero.
Computed(c) ==
    CASE c.op = "ratio" -> (c.numerator * 10 ^ Scale) \div c.denominator
      [] c.op = "percent_drop" ->
            100 * 10 ^ Scale - (100 * c.denominator * 10 ^ Scale) \div c.numerator
      [] c.op = "percent_rise" ->
            (100 * c.denominator * 10 ^ Scale) \div c.numerator - 100 * 10 ^ Scale

Divisor(c) == IF c.op = "ratio" THEN c.denominator ELSE c.numerator

\* verify_compute: "ok", a "finding", or an exception nobody catches.
VerifyCompute(n, c) ==
    IF ~c.complete \/ c.op \notin {"ratio", "percent_drop", "percent_rise"} THEN "finding"
    ELSE IF Divisor(c) = 0 THEN "raises"
    ELSE IF Agrees(Computed(c), n) THEN "ok" ELSE "finding"

-----------------------------------------------------------------------------
(* Check 2: live claims.                                                   *)

\* A token is a number with what stands around it: its unit, "x", "tok/s",
\* "%", "hits" or "none"; whether "by" or "within" stands before it; whether
\* it is in a code span or an issue number.

\* extract_live_claims: what each of the four patterns takes.
InlineKind(t) ==
    CASE t.unit = "x" /\ t.num.dp > 0 -> "ratio"
      [] t.unit = "tok/s" /\ t.num.dp > 0 -> "toks"
      [] t.unit = "%" /\ (t.num.sign # "" \/ t.by) -> "pct"
      [] t.unit = "hits" /\ t.num.dp = 0 -> "hits"
      [] OTHER -> "none"

\* The first line of the run of "|" lines that line i is in.
TableTop(lines, i) ==
    {b \in 1..i : (\A k \in b..i : lines[k].bar) /\ (b > 1 => ~lines[b - 1].bar)}

\* extract_table_unit_claims: the unit word of the header, for the rows after
\* the separator.
TableKind(lines, i, t) ==
    {lines[b].unit : b \in {b \in TableTop(lines, i) : i >= b + 2 /\ ~t.code}} \ {"none"}

KindsOf(lines, i, t) == ({InlineKind(t)} \ {"none"}) \cup TableKind(lines, i, t)

LiveClaims(docs, files) ==
    UNION {UNION {{[at |-> w, num |-> t.num, kind |-> k] :
                      k \in KindsOf(docs[w.file], w.line, t)} :
                  t \in At(docs, w).tokens} : w \in Places(docs, files)}

\* collect_json_backed_numbers: a file that does not parse is passed over.
JsonNumbers(jsons) == UNION {j.leaves : j \in {k \in jsons : k.parses}}

\* One entry of the registry against its source: a calculation, a JSON path,
\* or the text of the source, in this order.  Only the second looks at the
\* sign.  sources maps a file to the keys its text contains, be it as a part of
\* a longer number.
Checked(c, sources) ==
    IF c.how = "compute" THEN VerifyCompute(c.num, c.compute)
    ELSE IF c.how = "json"
    THEN IF c.resolves /\ c.num.sign # "~" /\ Rounded(c.resolved, c.num.dp) = Signed(c.num)
         THEN "ok" ELSE "finding"
    ELSE IF Key(c.num) \in sources[c.source] THEN "ok" ELSE "finding"

Complete(c, sources) == c.complete /\ c.source \in DOMAIN sources

\* build_claims_index.  An entry that fails its check is indexed all the same,
\* and so are its aliases, which nothing checks.
RegistryFindings(registry, sources) ==
    {c \in registry.claims :
        ~Complete(c, sources) \/ Checked(c, sources) = "finding"}
RegistryRaises(registry, sources) ==
    \E c \in registry.claims : Complete(c, sources) /\ Checked(c, sources) = "raises"
ClaimsIndex(registry, sources) ==
    UNION {{Key(n) : n \in {c.num} \cup c.aliases} :
           c \in {d \in registry.claims : Complete(d, sources)}}

\* check_live_claims: how a claim passes.  The order of the code matters to
\* what it prints only.
Adjudicated(lc, mentions) == lc.at \in mentions
Registered(lc, index) == Key(lc.num) \in index
Backed(lc, numbers) == lc.kind # "pct" /\ JsonBacked(lc.num, numbers)

Accepted(lc, docs, registry, index, numbers, mentions) ==
    \/ Adjudicated(lc, mentions)
    \/ FirstExemption(registry.non_claim_exemptions, docs, lc.at) # {}
    \/ Registered(lc, index)
    \/ Backed(lc, numbers)

-----------------------------------------------------------------------------
(* Check 4: the manifest of models.  Hashes and byte counts stand at        *)
(* positions of its text; hash is a function from positions to hashes,      *)
(* bytes from positions to counts.                                          *)

MaxDistance == 150

Distance(a, b) == IF a < b THEN b - a ELSE a - b

\* min(...): the nearest, and the earliest of those.
Nearest(positions, a) ==
    {p \in positions : \A q \in positions :
        \/ Distance(p, a) < Distance(q, a)
        \/ Distance(p, a) = Distance(q, a) /\ p <= q}

\* Pairs that are each other's nearest, and close.
ManifestPairs(hash, bytes) ==
    {p \in (DOMAIN hash) \X (DOMAIN bytes) :
        /\ p[2] \in Nearest(DOMAIN bytes, p[1])
        /\ Distance(p[1], p[2]) <= MaxDistance
        /\ p[1] \in Nearest(DOMAIN hash, p[2])}

\* A hash named twice keeps its last pair; of the ledgers that record a hash
\* and a size, which are a sequence in the order of their names, the last.
ManifestClaim(hash, bytes, h) ==
    {bytes[p[2]] : p \in {p \in ManifestPairs(hash, bytes) :
        /\ hash[p[1]] = h
        /\ \A q \in ManifestPairs(hash, bytes) : hash[q[1]] = h => q[1] <= p[1]}}
LedgerTruth(ledgers, h) ==
    {ledgers[k].bytes : k \in {k \in DOMAIN ledgers :
        /\ ledgers[k].sha256 = h
        /\ \A m \in DOMAIN ledgers : ledgers[m].sha256 = h => m <= k}}

ManifestFindings(hash, bytes, ledgers) ==
    {h \in {hash[p] : p \in DOMAIN hash} :
        \E n \in ManifestClaim(hash, bytes, h) :
            \E m \in LedgerTruth(ledgers, h) : n # m}

-----------------------------------------------------------------------------
(* The run.                                                                *)

\* load_registry: the markers, the fence between them, JSON, two keys.
LoadsRegistry(doc) ==
    /\ doc.present /\ doc.markers /\ doc.fence /\ doc.json
    /\ {"retracted_figures", "claims"} \subseteq doc.keys

Unbacked(repo) ==
    LET registry == repo.registry
        index == ClaimsIndex(registry, repo.sources)
        numbers == JsonNumbers(repo.jsons)
        mentions == RetractedMentions(repo.docs, repo.retractionScan)
    IN  {lc \in LiveClaims(repo.docs, repo.registryScan) :
            ~Accepted(lc, repo.docs, registry, index, numbers, mentions)}

\* main: the exit status.  Each check runs and adds to the findings; an
\* exception is status 1 as well.
main(repo) ==
    IF /\ LoadsRegistry(repo.claimsDoc)
       /\ ~RegistryRaises(repo.registry, repo.sources)
       /\ RetractionGuard(repo.docs, repo.retractionScan, repo.registry) = {}
       /\ RegistryFindings(repo.registry, repo.sources) = {}
       /\ Unbacked(repo) = {}
       /\ ManifestFindings(repo.hash, repo.bytes, repo.ledgers) = {}
    THEN 0 ELSE 1
=============================================================================
