-------------------------- MODULE GovernanceEvidence --------------------------
(***************************************************************************)
(* Paired evaluation (src/src/portfolio_governance.rs): observations of a   *)
(* candidate beside its baseline, reduced to one report of centers and      *)
(* observed envelopes per metric.                                           *)
(*                                                                         *)
(* Numbers are integers at a fixed resolution and a quotient is rounded     *)
(* down, where the program rounds to a float.  The metric catalog is the    *)
(* constants below, so its digest, which every reducer compares, is left    *)
(* out; a report is its own digest.                                         *)
(***************************************************************************)
EXTENDS Integers, FiniteSets, SequencesExt

CONSTANTS
    None,
    Metrics,      \* the catalog
    Higher,       \* the metrics where a higher value is better
    Contract      \* metric -> its hard invariant [min, max], or None

-----------------------------------------------------------------------------
(* Hard invariants over an interval. *)

ProvenViolation(c, lo, hi) ==
    \/ c.min # None /\ hi < c.min
    \/ c.max # None /\ lo > c.max

Established(c, lo, hi) ==
    /\ c.min = None \/ lo >= c.min
    /\ c.max = None \/ hi <= c.max

\* An envelope is a center and a radius, None when one group was observed.
Lower(e, k) == e.center - k * e.radius
Upper(e, k) == e.center + k * e.radius

Violates(m, e, k) ==
    /\ Contract[m] # None
    /\ e.radius # None
    /\ ProvenViolation(Contract[m], Lower(e, k), Upper(e, k))

Fulfils(m, e, k) ==
    Contract[m] # None =>
        /\ e.radius # None
        /\ Established(Contract[m], Lower(e, k), Upper(e, k))

\* MetricDirection::orient
Orient(m, x) == IF m \in Higher THEN x ELSE -x

-----------------------------------------------------------------------------
(* Robust reduction of the groups. *)

Mean(s) == FoldSeq(+, 0, s) \div Len(s)

Median(s) ==
    LET sorted == SortSeq(s, <)
        middle == Len(s) \div 2 + 1
    IN IF Len(s) % 2 = 1 THEN sorted[middle]
       ELSE Mean(<<sorted[middle - 1], sorted[middle]>>)

\* The values are dealt to the blocks in turn.
Block(s, b, n) == [i \in 1 .. (Len(s) - b) \div n + 1 |-> s[b + (i - 1) * n]]
MedianOfMeans(s, n) == Median([b \in 1 .. n |-> Mean(Block(s, b, n))])

ObservedRadius(s, center) ==
    IF Len(s) < 2 THEN None
    ELSE Max({s[i] - center : i \in DOMAIN s} \union
             {center - s[i] : i \in DOMAIN s})

Envelope(s, blocks) ==
    LET n == Min({blocks, Len(s)})
        center == MedianOfMeans(s, n)
    IN [center |-> center, radius |-> ObservedRadius(s, center)]

-----------------------------------------------------------------------------
(* A row is one metric of one unit: [metric, unit, base, cand], and a unit   *)
(* [pair, group, evidence, start, end].                                     *)

Units(rows) == {r.unit : r \in rows}
UnitsOf(rows, m) == {r.unit : r \in {x \in rows : x.metric = m}}

\* Mutant of WellPaired: an evidence may stand behind several pairs.
WellPairedLoosely(rows) ==
    /\ rows # {}
    /\ \A u, v \in Units(rows) : u.pair = v.pair => u = v
    /\ \A r, s \in rows : r.metric = s.metric /\ r.unit = s.unit => r = s
    /\ \A m \in Metrics : UnitsOf(rows, m) = Units(rows)

WellPaired(rows) ==
    /\ rows # {}
    /\ \A r \in rows : r.metric \in Metrics
    /\ \A u, v \in Units(rows) : u.pair = v.pair \/ u.evidence = v.evidence => u = v
    /\ \A r, s \in rows : r.metric = s.metric /\ r.unit = s.unit => r = s
    /\ \A m \in Metrics : UnitsOf(rows, m) = Units(rows)

Groups(rows) == {u.group : u \in Units(rows)}

\* Rows of a group in the order of their pairs.
InGroup(rows, m, g) ==
    SetToSortSeq({r \in rows : r.metric = m /\ r.unit.group = g},
                 LAMBDA r, s : r.unit.pair < s.unit.pair)

\* One value per group: its mean of what Value reads in a row.
GroupMeans(rows, m, Value(_)) ==
    LET groups == SetToSortSeq(Groups(rows), <)
        mean(g) == LET in == InGroup(rows, m, g)
                   IN Mean([i \in DOMAIN in |-> Value(in[i])])
    IN [i \in DOMAIN groups |-> mean(groups[i])]

Baseline(r) == r.base
Candidate(r) == r.cand
Difference(r) == r.cand - r.base

Estimate(rows, m, blocks) ==
    [groups |-> Cardinality(Groups(rows)),
     base |-> Envelope(GroupMeans(rows, m, Baseline), blocks),
     cand |-> Envelope(GroupMeans(rows, m, Candidate), blocks),
     effect |-> Envelope(GroupMeans(rows, m, Difference), blocks)]

\* RobustEvaluationPolicy::new: [minimum, blocks, maximum]
ValidPolicy(p) == p.minimum >= 2 /\ p.blocks \in 2 .. p.minimum /\ p.maximum > 0

\* The report that rows earn under policy p.
Report(baseline, candidate, rows, p) ==
    [baseline |-> baseline,
     candidate |-> candidate,
     policy |-> p,
     design |-> Groups(rows),
     estimates |-> [m \in Metrics |-> Estimate(rows, m, p.blocks)],
     evidence |-> {u.evidence : u \in Units(rows)},
     start |-> Min({u.start : u \in Units(rows)}),
     end |-> Max({u.end : u \in Units(rows)}),
     sufficient |-> Cardinality(Groups(rows)) >= p.minimum]

\* evaluate_paired_groups
EvaluatePairedGroups(baseline, candidate, rows, p) ==
    IF /\ baseline # candidate
       /\ Cardinality(rows) <= p.maximum
       /\ WellPaired(rows)
    THEN Report(baseline, candidate, rows, p) ELSE None
=============================================================================
