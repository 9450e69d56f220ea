-------------------------- MODULE ClaimsGate_proof --------------------------
(***************************************************************************)
(* What the claims gate guarantees, for every repository.                  *)
(***************************************************************************)
EXTENDS ClaimsGate, TLAPS

\* Two lines stand under the same heading: the same headings are above them.
SameSection(lines, a, b) == \A g \in Headings(lines) : g <= a <=> g <= b

-----------------------------------------------------------------------------
(* Check 1.                                                                *)

\* What stands directly under heading h is in its section: the bound is the
\* next heading, or the end.
LEMMA PreambleIsSection ==
    ASSUME NEW S, NEW lines \in Seq(S), NEW h \in Nat,
           NEW e \in OwnPreambleBound(lines, h),
           NEW k \in Nat, h <= k, k < e
    PROVE  SameSection(lines, k, h)
  BY DEF SameSection, OwnPreambleBound, Headings

\* A block lies in the range it was looked for in.
LEMMA BlockInRange ==
    ASSUME NEW lines, NEW start \in Int, NEW end \in Int,
           NEW b \in Blocks(lines, start, end), NEW k \in LinesOf(b)
    PROVE  k \in Int /\ start <= k /\ k < end
  <1>1. b \in (start..end) \X (start..end)
    BY DEF Blocks
  <1>2. b[1] \in start..end /\ b[2] \in start..end
    BY <1>1
  <1> QED BY <1>2 DEF LinesOf

\* Two blocks that share a line are one: "the block a line is in" is unique.
LEMMA BlocksDoNotOverlap ==
    ASSUME NEW lines, NEW start \in Int, NEW end \in Int,
           NEW b \in Blocks(lines, start, end),
           NEW c \in Blocks(lines, start, end),
           NEW k \in LinesOf(b), k \in LinesOf(c)
    PROVE  b = c
  <1>1. /\ b \in (start..end) \X (start..end)
        /\ c \in (start..end) \X (start..end)
    BY DEF Blocks
  <1>2. /\ b = <<b[1], b[2]>> /\ c = <<c[1], c[2]>>
        /\ b[1] \in start..end /\ b[2] \in start..end
        /\ c[1] \in start..end /\ c[2] \in start..end
    BY <1>1
  <1>3. /\ k \in Int /\ b[1] <= k /\ k < b[2] /\ c[1] <= k /\ k < c[2]
    BY <1>2 DEF LinesOf
  <1>4. /\ \A l \in b[1]..(b[2] - 1) : ~lines[l].blank
        /\ \A l \in c[1]..(c[2] - 1) : ~lines[l].blank
        /\ b[1] > start => lines[b[1] - 1].blank
        /\ c[1] > start => lines[c[1] - 1].blank
        /\ b[2] < end => lines[b[2]].blank
        /\ c[2] < end => lines[c[2]].blank
    BY DEF Blocks
  <1>5. b[1] = c[1]
    <2>1. CASE b[1] < c[1]
      <3>1. c[1] - 1 \in b[1]..(b[2] - 1) /\ c[1] > start
        BY <1>2, <1>3, <2>1
      <3> QED BY <3>1, <1>4
    <2>2. CASE c[1] < b[1]
      <3>1. b[1] - 1 \in c[1]..(c[2] - 1) /\ b[1] > start
        BY <1>2, <1>3, <2>2
      <3> QED BY <3>1, <1>4
    <2> QED BY <1>2, <2>1, <2>2
  <1>6. b[2] = c[2]
    <2>1. CASE b[2] < c[2]
      <3>1. b[2] \in c[1]..(c[2] - 1) /\ b[2] < end
        BY <1>2, <1>3, <2>1
      <3> QED BY <3>1, <1>4
    <2>2. CASE c[2] < b[2]
      <3>1. c[2] \in b[1]..(b[2] - 1) /\ c[2] < end
        BY <1>2, <1>3, <2>2
      <3> QED BY <3>1, <1>4
    <2> QED BY <1>2, <2>1, <2>2
  <1> QED BY <1>2, <1>5, <1>6

\* The text a heading lends is its own line and lines of its own preamble.
LEMMA OwnContextInSection ==
    ASSUME NEW S, NEW lines \in Seq(S), NEW h \in Headings(lines),
           NEW i \in DOMAIN lines, NEW k \in OwnContextBlock(lines, h, i)
    PROVE  k \in Int /\ SameSection(lines, k, h)
  <1>0. h \in Nat
    BY DEF Headings
  <1>1. CASE k = h
    BY <1>0, <1>1 DEF SameSection
  <1>2. CASE k # h
    <2>1. PICK e \in OwnPreambleBound(lines, h) :
             \E c \in Blocks(lines, h + 1, e) : k \in LinesOf(c)
      BY <1>2 DEF OwnContextBlock
    <2>2. e \in Int
      BY <1>0 DEF OwnPreambleBound
    <2>3. k \in Int /\ h + 1 <= k /\ k < e
      BY <1>0, <2>1, <2>2, BlockInRange
    <2>4. k \in Nat /\ h <= k
      BY <1>0, <2>3
    <2> QED BY <1>0, <2>1, <2>3, <2>4, PreambleIsSection
  <1> QED BY <1>1, <1>2

\* The heading and the first block below it lie in one section.
LEMMA FirstBlockInSection ==
    ASSUME NEW S, NEW lines \in Seq(S), NEW h \in Headings(lines),
           NEW k \in HeadingAndFirstBlock(lines, h)
    PROVE  k \in Int /\ SameSection(lines, k, h)
  <1>0. h \in Nat
    BY DEF Headings
  <1>1. CASE k = h
    BY <1>0, <1>1 DEF SameSection
  <1>2. CASE k # h
    <2>1. PICK e \in OwnPreambleBound(lines, h) :
             \E c \in Blocks(lines, h + 1, e) : k \in LinesOf(c)
      BY <1>2 DEF HeadingAndFirstBlock, FirstBlock
    <2>2. e \in Int
      BY <1>0 DEF OwnPreambleBound
    <2>3. k \in Int /\ h + 1 <= k /\ k < e
      BY <1>0, <2>1, <2>2, BlockInRange
    <2>4. k \in Nat /\ h <= k
      BY <1>0, <2>3
    <2> QED BY <1>0, <2>1, <2>3, <2>4, PreambleIsSection
  <1> QED BY <1>1, <1>2

\* "Neither check ever includes a heading's whole preamble or reaches into a
\* nested subsection" (check_claims.py:322): a line that lends its context to
\* a retracted figure stands under the same heading as the figure, or directly
\* under the heading one level up.  Nothing under a sibling, a subsection or a
\* heading further up can excuse it, whatever the document looks like.
THEOREM ContextStaysInSection ==
    ASSUME NEW S, NEW lines \in Seq(S), NEW i \in DOMAIN lines,
           NEW k \in RetractionContext(lines, i)
    PROVE  \/ SameSection(lines, k, i)
           \/ \E h \in EnclosingHeading(lines, i) :
                 \E p \in ParentHeading(lines, h) : SameSection(lines, k, p)
  <1>0. i \in Nat /\ DOMAIN lines = 1..Len(lines) /\ Len(lines) \in Nat
    OBVIOUS
  <1>1. CASE EnclosingHeading(lines, i) = {}
    <2>1. PICK e \in OwnPreambleBound(lines, 0) :
             \E b \in Blocks(lines, 1, e) : i \in LinesOf(b) /\ k \in LinesOf(b)
      BY <1>1 DEF RetractionContext, ContextBeforeHeadings
    <2>2. e \in Int
      BY <1>0 DEF OwnPreambleBound
    <2>3. k \in Int /\ 1 <= k /\ k < e /\ 1 <= i /\ i < e
      BY <2>1, <2>2, BlockInRange
    <2>4. SameSection(lines, k, 0) /\ SameSection(lines, i, 0)
      BY <1>0, <2>1, <2>3, PreambleIsSection
    <2> QED BY <2>4 DEF SameSection
  <1>2. CASE EnclosingHeading(lines, i) # {}
    <2>1. PICK h \in EnclosingHeading(lines, i) :
             \/ k \in OwnContextBlock(lines, h, i)
             \/ \E p \in ParentHeading(lines, h) : k \in HeadingAndFirstBlock(lines, p)
      BY <1>2 DEF RetractionContext
    <2>2. h \in Headings(lines) /\ SameSection(lines, h, i)
      BY <1>0 DEF EnclosingHeading, SameSection, Headings
    <2>3. CASE k \in OwnContextBlock(lines, h, i)
      <3>1. SameSection(lines, k, h)
        BY <2>2, <2>3, OwnContextInSection
      <3> QED BY <2>2, <3>1 DEF SameSection
    <2>4. CASE \E p \in ParentHeading(lines, h) : k \in HeadingAndFirstBlock(lines, p)
      <3>1. PICK p \in ParentHeading(lines, h) : k \in HeadingAndFirstBlock(lines, p)
        BY <2>4
      <3>2. p \in Headings(lines)
        BY DEF ParentHeading
      <3>3. SameSection(lines, k, p)
        BY <3>1, <3>2, FirstBlockInSection
      <3> QED BY <2>1, <3>1, <3>3
    <2> QED BY <2>1, <2>3, <2>4
  <1> QED BY <1>1, <1>2

\* A status 0 says of every retracted figure on a scanned page that it is
\* marked, on its line or in its context, or that the first exemption that
\* fits its line gives a reason.
THEOREM RetractedAreExcused ==
    ASSUME NEW repo, main(repo) = 0,
           NEW w \in RetractedMentions(repo.docs, repo.retractionScan)
    PROVE  \/ Marked(repo.docs, w)
           \/ \E ex \in FirstExemption(repo.registry.retraction_exemptions, repo.docs, w) :
                 ex.reason
  <1> DEFINE exempt(v) == FirstExemption(repo.registry.retraction_exemptions, repo.docs, v)
             open == {v \in RetractedMentions(repo.docs, repo.retractionScan) :
                         ~Marked(repo.docs, v)}
             bare == {v \in open : exempt(v) = {}}
             mute == {v \in open : \E ex \in exempt(v) : ~ex.reason}
  <1>1. RetractionGuard(repo.docs, repo.retractionScan, repo.registry) = {}
    BY DEF main
  <1>2. Findings("retraction-exemption-missing-reason", mute)
        \cup Findings("retracted-figure-unmarked", bare) = {}
    BY <1>1 DEF RetractionGuard
  <1>3. Findings("retraction-exemption-missing-reason", mute) = {}
        /\ Findings("retracted-figure-unmarked", bare) = {}
    BY <1>2
  <1>4. bare = {} /\ mute = {}
    BY <1>3 DEF Findings
  <1> QED BY <1>4

-----------------------------------------------------------------------------
(* Checks 2 and 3.                                                         *)

\* The outcome of checking an entry is one of three.
LEMMA CheckedIsOneOf ==
    ASSUME NEW c, NEW sources
    PROVE  Checked(c, sources) \in {"ok", "finding", "raises"}
  BY DEF Checked, VerifyCompute

\* A key is in the index only for an entry whose source is there.
LEMMA IndexHasEntry ==
    ASSUME NEW registry, NEW sources, NEW k \in ClaimsIndex(registry, sources)
    PROVE  \E c \in registry.claims :
              Complete(c, sources) /\ \E n \in {c.num} \cup c.aliases : k = Key(n)
  BY DEF ClaimsIndex

\* "every live claim is registered/backed" (check_claims.py:35), with what it
\* leaves out.  A status 0 means that each number the gate takes for a claim
\* is one printed by a registry entry whose own check succeeded, or, unless it
\* is a percentage, agrees with a leaf of a results file, or is exempt by its
\* line, or shares its line with a retracted figure.
THEOREM LiveClaimsAreBacked ==
    ASSUME NEW repo, main(repo) = 0,
           NEW lc \in LiveClaims(repo.docs, repo.registryScan)
    PROVE  \/ \E c \in repo.registry.claims :
                 /\ Complete(c, repo.sources)
                 /\ Checked(c, repo.sources) = "ok"
                 /\ \E n \in {c.num} \cup c.aliases : Key(lc.num) = Key(n)
           \/ lc.kind # "pct" /\ JsonBacked(lc.num, JsonNumbers(repo.jsons))
           \/ FirstExemption(repo.registry.non_claim_exemptions, repo.docs, lc.at) # {}
           \/ lc.at \in RetractedMentions(repo.docs, repo.retractionScan)
  <1> DEFINE index == ClaimsIndex(repo.registry, repo.sources)
             numbers == JsonNumbers(repo.jsons)
             mentions == RetractedMentions(repo.docs, repo.retractionScan)
  <1>1. /\ ~RegistryRaises(repo.registry, repo.sources)
        /\ RegistryFindings(repo.registry, repo.sources) = {}
        /\ Unbacked(repo) = {}
    BY DEF main
  <1>2. Accepted(lc, repo.docs, repo.registry, index, numbers, mentions)
    BY <1>1 DEF Unbacked
  <1>3. CASE Registered(lc, index)
    <2>1. PICK c \in repo.registry.claims :
             /\ Complete(c, repo.sources)
             /\ \E n \in {c.num} \cup c.aliases : Key(lc.num) = Key(n)
      BY <1>3, IndexHasEntry DEF Registered
    <2>2. Checked(c, repo.sources) # "finding"
      BY <1>1, <2>1 DEF RegistryFindings
    <2>3. Checked(c, repo.sources) # "raises"
      BY <1>1, <2>1 DEF RegistryRaises
    <2>4. Checked(c, repo.sources) = "ok"
      BY <2>2, <2>3, CheckedIsOneOf
    <2> QED BY <2>1, <2>4
  <1>4. CASE ~Registered(lc, index)
    BY <1>2, <1>4 DEF Accepted, Adjudicated, Backed
  <1> QED BY <1>3, <1>4

\* "A bare decimal floating in prose ... must always be explicitly registered"
\* (check_claims.py:485): the code does not ask for it.  Whatever the page and
\* the registry, a ratio or a throughput figure that agrees with some leaf of
\* some results file is never reported, table or not.
THEOREM ProseMayRestOnJson ==
    ASSUME NEW repo, NEW lc, lc.kind \in {"ratio", "toks", "hits"},
           JsonBacked(lc.num, JsonNumbers(repo.jsons))
    PROVE  lc \notin Unbacked(repo)
  BY DEF Unbacked, Accepted, Backed

-----------------------------------------------------------------------------
(* Check 4.                                                                *)

\* Of the byte counts in a row one is the nearest.
LEMMA NearestIsUnique ==
    ASSUME NEW positions \in SUBSET Int, NEW a \in Int,
           NEW p \in Nearest(positions, a), NEW q \in Nearest(positions, a)
    PROVE  p = q
  <1>1. p \in Int /\ q \in Int /\ p \in positions /\ q \in positions
    BY DEF Nearest
  <1>2. /\ Distance(p, a) < Distance(q, a) \/ (Distance(p, a) = Distance(q, a) /\ p <= q)
        /\ Distance(q, a) < Distance(p, a) \/ (Distance(q, a) = Distance(p, a) /\ q <= p)
    BY <1>1 DEF Nearest
  <1>3. Distance(p, a) \in Int /\ Distance(q, a) \in Int
    BY <1>1 DEF Distance
  <1> QED BY <1>1, <1>2, <1>3

\* The manifest check never guesses: no hash is paired with two byte counts
\* and no byte count with two hashes, however the text is laid out.
THEOREM ManifestPairsAreOneToOne ==
    ASSUME NEW hash, NEW bytes,
           DOMAIN hash \subseteq Int, DOMAIN bytes \subseteq Int,
           NEW p \in ManifestPairs(hash, bytes),
           NEW q \in ManifestPairs(hash, bytes)
    PROVE  p[1] = q[1] <=> p[2] = q[2]
  <1>1. /\ p \in (DOMAIN hash) \X (DOMAIN bytes)
        /\ q \in (DOMAIN hash) \X (DOMAIN bytes)
        /\ p[2] \in Nearest(DOMAIN bytes, p[1]) /\ p[1] \in Nearest(DOMAIN hash, p[2])
        /\ q[2] \in Nearest(DOMAIN bytes, q[1]) /\ q[1] \in Nearest(DOMAIN hash, q[2])
    BY DEF ManifestPairs
  <1>2. p[1] \in Int /\ p[2] \in Int /\ q[1] \in Int /\ q[2] \in Int
    BY <1>1
  <1>3. p[1] = q[1] => p[2] = q[2]
    BY <1>1, <1>2, NearestIsUnique
  <1>4. p[2] = q[2] => p[1] = q[1]
    BY <1>1, <1>2, NearestIsUnique
  <1> QED BY <1>3, <1>4
=============================================================================
