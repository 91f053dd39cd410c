--------------------------- MODULE PetfcAssessment ---------------------------
(***************************************************************************)
(* PETFC (src/src/portfolio_governance.rs): the path a line of candidates   *)
(* takes through the metrics, relative to one baseline, and what it         *)
(* conserves.  A trajectory is the sequence of reports it was built from:   *)
(* the first gives the baseline and its candidate, each later one a         *)
(* checkpoint, so the points and their evidence are read from the reports.  *)
(*                                                                         *)
(* Lengths are integers; a limit that is a ratio is in hundredths.          *)
(***************************************************************************)
EXTENDS GovernanceEvidence

CONSTANTS
    Quality,      \* the metric that must improve
    Weight,       \* metric -> reciprocal of its normalization scale
    Petfc         \* the policy: a record of limits

PetfcAssumption ==
    /\ Quality \in Metrics
    /\ Petfc.minimumReports >= 2
    /\ Petfc.maximumReports >= Petfc.minimumReports
    /\ Petfc.tortuosity >= 100
    /\ Petfc.waste \in 0 .. 100
    /\ Petfc.distributed >= 100

-----------------------------------------------------------------------------
(* Points. *)

\* PetfcTrajectory::start
Start(r) == <<r>>

EvidenceOf(t) == UNION {t[i].evidence : i \in DOMAIN t}

\* append_report: the same design throughout, evidence of its own, a new
\* checkpoint, observed after the last one.
Appends(t, r) ==
    /\ r.baseline = Head(t).baseline
    /\ r.policy = Head(t).policy
    /\ r.design = Head(t).design
    /\ EvidenceOf(t) \intersect r.evidence = {}
    /\ r.candidate \notin {t[i].candidate : i \in DOMAIN t}
    /\ r.start > Last(t).end

\* The candidate a trajectory has reached.
Reached(t) == Last(t).candidate

\* Where the points are: the paired effect, which is nothing at the baseline.
AtBaseline == [m \in Metrics |-> [center |-> 0, radius |-> 0]]
EffectOf(r) == [m \in Metrics |-> r.estimates[m].effect]
Path(t) == <<AtBaseline>> \o [i \in DOMAIN t |-> EffectOf(t[i])]

\* What the points are in absolute terms, for the hard invariants only.
AbsoluteOf(r) == [m \in Metrics |-> r.estimates[m].cand]
Absolute(t) ==
    <<[m \in Metrics |-> Head(t).estimates[m].base]>>
        \o [i \in DOMAIN t |-> AbsoluteOf(t[i])]

-----------------------------------------------------------------------------
(* Lengths along the path. *)

\* stable_rms, to the unit.
Rms(v) ==
    LET squares == MapThenSumSet(LAMBDA m : v[m] * v[m], Metrics)
    IN CHOOSE n \in 0 .. squares :
           /\ n * n * Cardinality(Metrics) <= squares
           /\ (n + 1) * (n + 1) * Cardinality(Metrics) > squares

Abs(x) == IF x < 0 THEN -x ELSE x
AtLeastZero(x) == IF x < 0 THEN 0 ELSE x

Identifiable(p) == \A m \in Metrics : p[m].radius # None

\* interval_distance_bounds: the least and the greatest distance between two
\* points that may lie anywhere in their envelopes.
Nearest(p, q) ==
    Rms([m \in Metrics |->
        AtLeastZero(Abs(p[m].center - q[m].center) - (p[m].radius + q[m].radius))
            * Weight[m]])

\* Mutant of Furthest: only the envelope of the later point counts.
FurthestOfCenters(p, q) ==
    Rms([m \in Metrics |-> (Abs(p[m].center - q[m].center) + q[m].radius) * Weight[m]])

Furthest(p, q) ==
    Rms([m \in Metrics |->
        (Abs(p[m].center - q[m].center) + p[m].radius + q[m].radius) * Weight[m]])

Steps(path) == 1 .. Len(path) - 1
StepSum(path, Length(_, _)) ==
    FoldSeq(+, 0, [i \in Steps(path) |-> Length(path[i], path[i + 1])])

PathUpper(path) == StepSum(path, Furthest)
EndLower(path) == Nearest(Head(path), Last(path))
EndUpper(path) == Furthest(Head(path), Last(path))

\* What the metric lost, and Quality gained, between the ends, at worst.
Degradation(path, m) ==
    LET p == Head(path)[m]
        q == Last(path)[m]
    IN AtLeastZero(Orient(m, p.center) - Orient(m, q.center) + p.radius + q.radius)
           * Weight[m]

QualityGain(path) ==
    LET p == Head(path)[Quality]
        q == Last(path)[Quality]
    IN (Orient(Quality, q.center) - Orient(Quality, p.center) - (p.radius + q.radius))
           * Weight[Quality]

Total(f) == MapThenSumSet(LAMBDA m : f[m], Metrics)
Greatest(f) == Max({f[m] : m \in Metrics})
Degradations(path) == [m \in Metrics |-> Degradation(path, m)]

-----------------------------------------------------------------------------
(* evaluate_petfc: facts of three severities. *)

PointsOf(t) == <<Head(t).baseline>> \o [i \in DOMAIN t |-> t[i].candidate]

\* Mutant of HardReasons: only the point that was reached is looked at.
HardReasonsAtEnd(t) ==
    {<<"violation", m, Reached(t)>> :
        m \in {n \in Metrics : Violates(n, Last(Absolute(t))[n], 1)}}

HardReasons(t) ==
    {<<"violation", x[1], PointsOf(t)[x[2]]>> :
        x \in {y \in Metrics \X DOMAIN Absolute(t) :
                   Violates(y[1], Absolute(t)[y[2]][y[1]], 1)}}

NotEstablished(t) ==
    {<<"not established", x[1], PointsOf(t)[x[2]]>> :
        x \in {y \in Metrics \X DOMAIN Absolute(t) :
                   /\ ~Violates(y[1], Absolute(t)[y[2]][y[1]], 1)
                   /\ ~Fulfils(y[1], Absolute(t)[y[2]][y[1]], 1)}}

\* A path exists when every one of its points has an envelope.
HasPath(path) == \A i \in DOMAIN path : Identifiable(path[i])

\* The limits of the path and of its ends.
PathReasons(path) ==
    LET upper == PathUpper(path)
        end == EndLower(path)
        gain == QualityGain(path)
    IN  {x \in {<<"step">>} : \E i \in Steps(path) :
             Furthest(path[i], path[i + 1]) > Petfc.step}
        \union {x \in {<<"closed return">>} :
                    upper > 0 /\ end = 0 /\ EndUpper(path) = 0}
        \union {x \in {<<"tortuosity">>} :
                    upper > 0 /\ end > 0 /\ 100 * upper > Petfc.tortuosity * end}
        \union {x \in {<<"waste">>} :
                    upper > 0 /\ 100 * (upper - end) > Petfc.waste * upper}
        \union {x \in {<<"efficiency">>} :
                    upper > 0 /\ 100 * gain < Petfc.efficiency * upper}

Overdegraded(path) ==
    {m \in Metrics : Degradation(path, m) > Petfc.degradation[m]}

\* What the ends must show: a better Quality; no metric, nor their sum, nor the
\* number or the spread of those that lose, beyond its limit.
EndReasons(path) ==
    LET lost == Degradations(path)
    IN  {x \in {<<"quality">>} : QualityGain(path) <= 0}
        \union {<<"degradation", m>> : m \in Overdegraded(path)}
        \union {x \in {<<"conservation">>} :
                    \/ Total(lost) > Petfc.sum
                    \/ Cardinality(Overdegraded(path)) > Petfc.degraded}
        \union {x \in {<<"distributed">>} :
                    Greatest(lost) > 0
                        /\ 100 * Total(lost) > Petfc.distributed * Greatest(lost)}

\* utility_lower, in hundredths, where the tortuosity is known.
Utility(path) ==
    LET upper == PathUpper(path)
        tortuosity == IF upper = 0 THEN 100 ELSE (100 * upper) \div EndLower(path)
        excess == AtLeastZero(tortuosity - Petfc.tortuosity)
    IN 100 * (QualityGain(path) - Petfc.pathPenalty * upper
                  - Petfc.conservationPenalty * Total(Degradations(path)))
           - Petfc.tortuosityPenalty * excess * excess

UtilityReasons(path) ==
    {x \in {<<"utility">>} :
        /\ PathUpper(path) = 0 \/ EndLower(path) > 0
        /\ Utility(path) < 100 * Petfc.utility}

\* The ends have envelopes, though a point between them may have none.
EndsIdentifiable(path) == Identifiable(Head(path)) /\ Identifiable(Last(path))

SoftReasons(t) ==
    LET path == Path(t)
    IN  (IF HasPath(path)
         THEN PathReasons(path) \union UtilityReasons(path) ELSE {})
        \union (IF EndsIdentifiable(path) THEN EndReasons(path) ELSE {})

UnknownReasons(t) ==
    LET path == Path(t)
    IN  NotEstablished(t)
        \union {x \in {<<"reports">>} : Len(t) < Petfc.minimumReports}
        \union {x \in {<<"groups">>} : \E i \in DOMAIN t : ~t[i].sufficient}
        \union {<<"radius", m>> :
                    m \in {n \in Metrics : \E i \in DOMAIN Absolute(t) :
                              Absolute(t)[i][n].radius = None}}
        \union {x \in {<<"path">>} :
                    \/ ~HasPath(path)
                    \/ PathUpper(path) = 0
                    \/ EndLower(path) = 0 /\ EndUpper(path) > 0}

\* The disposition: a baseline that violates is rejected, since rolling back
\* to it is no remedy.
Disposition(t) ==
    LET hard == HardReasons(t)
    IN CASE \E x \in hard : x[3] = Head(t).baseline -> "reject"
         [] hard # {} /\ \A x \in hard : x[3] # Head(t).baseline -> "rollback"
         [] hard = {} /\ SoftReasons(t) # {} -> "reject"
         [] hard = {} /\ SoftReasons(t) = {} /\ UnknownReasons(t) # {} -> "unknown"
         [] OTHER -> "compatible"

\* evaluate_petfc answers an error for more reports than the policy allows.
Assessable(t) == Len(t) <= Petfc.maximumReports
=============================================================================
