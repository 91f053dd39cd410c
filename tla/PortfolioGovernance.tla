------------------------- MODULE PortfolioGovernance -------------------------
(***************************************************************************)
(* The chain of witnesses that makes an adapter a candidate for promotion   *)
(* (src/src/portfolio_governance.rs): a PETFC trajectory, the offline gate, *)
(* and a staged canary, each derived from paired reports.  A caller holds   *)
(* the witnesses and may start any of them again, in any order, with any    *)
(* report; what it may combine is what the checks below let through.        *)
(*                                                                         *)
(* A witness is persisted under its digest and reopened equal to itself, so *)
(* a file of it is the value; it names its reports by their digests.        *)
(***************************************************************************)
EXTENDS PetfcAssessment

CONSTANTS
    Reports,      \* the digests of the reports a caller may present
    Content,      \* digest -> report
    Gate,         \* the gate policy [groups, multiplier, improvement]
    Stages,       \* the canary stages, a sequence of [exposure, groups]
    Canary,       \* the canary policy [multiplier, regression]
    MaxTrajectory,\* bound: reports of a trajectory
    Buckets       \* subjects, by the bucket they hash to

GateAssumption == Gate.groups >= 2 /\ Gate.multiplier \in Nat \ {0}

StagesAssumption ==
    /\ Stages \in Seq([exposure : Nat, groups : Nat]) /\ Stages # <<>>
    /\ Canary.multiplier \in Nat \ {0}
    /\ \A i \in 1 .. Len(Stages) - 1 :
           /\ Stages[i].exposure < Stages[i + 1].exposure
           /\ Stages[i].groups <= Stages[i + 1].groups

\* ObservationWindow::new refuses a window that ends before it starts.
ReportsAssumption ==
    \A d \in Reports :
        /\ Content[d].start \in Nat /\ Content[d].end \in Nat
        /\ Content[d].start <= Content[d].end
        /\ \A m \in Metrics : Content[d].estimates[m].groups \in Nat

\* A bucket is a number.
BucketsAssumption == Buckets \subseteq Nat

VARIABLES
    trajectory,   \* its reports, <<>> before it is started
    gate,         \* the decision of the gate, None before
    canary        \* the state of the canary, None before

vars == <<trajectory, gate, canary>>

-----------------------------------------------------------------------------
(* The gate. *)

\* An improvement is proven, refuted or uncertain, by the envelope of the
\* paired effect.
Worst(m, r, k) == Orient(m, r.estimates[m].effect.center) - k * r.estimates[m].effect.radius
Best(m, r, k) == Orient(m, r.estimates[m].effect.center) + k * r.estimates[m].effect.radius

Observed(m, r, groups) ==
    r.estimates[m].groups >= groups /\ r.estimates[m].effect.radius # None

Refuses(r) ==
    \E m \in Metrics :
        \/ Violates(m, r.estimates[m].cand, Gate.multiplier)
        \/ Observed(m, r, Gate.groups)
               /\ Best(m, r, Gate.multiplier) < Gate.improvement[m]

Improves(r) ==
    \A m \in Metrics :
        /\ Fulfils(m, r.estimates[m].cand, Gate.multiplier)
        /\ Observed(m, r, Gate.groups)
        /\ Worst(m, r, Gate.multiplier) >= Gate.improvement[m]

\* decide_candidate
Decision(d) ==
    [report |-> d,
     disposition |-> IF Refuses(Content[d]) THEN "reject"
                     ELSE IF Improves(Content[d]) THEN "advance" ELSE "unknown"]

\* decide_candidate refuses a report whose own minimum is above the policy's.
Decidable(d) == Gate.groups >= Content[d].policy.minimum

-----------------------------------------------------------------------------
(* The canary. *)

\* CanaryState::start: what the gate has seen is not fresh any more.
Fresh(g) ==
    [gate |-> g, phase |-> "awaiting", stage |-> 1, reports |-> {},
     evidence |-> Content[g.report].evidence, end |-> Content[g.report].end]

\* The report of a stage: of the same candidate and policy, with evidence that
\* neither the gate nor an earlier stage has used, observed after them.
Belongs(c, d) ==
    LET r == Content[d]
        offline == Content[c.gate.report] IN
    /\ r.baseline = offline.baseline
    /\ r.candidate = offline.candidate
    /\ r.policy = offline.policy
    /\ d \notin c.reports
    /\ c.evidence \intersect r.evidence = {}
    /\ r.start > c.end

Regresses(c, r) ==
    \E m \in Metrics :
        \/ Violates(m, r.estimates[m].cand, Canary.multiplier)
        \/ Observed(m, r, Stages[c.stage].groups)
               /\ Best(m, r, Canary.multiplier) < -Canary.regression[m]

Holds(c, r) ==
    \A m \in Metrics :
        /\ Fulfils(m, r.estimates[m].cand, Canary.multiplier)
        /\ Observed(m, r, Stages[c.stage].groups)
        /\ Worst(m, r, Canary.multiplier) >= -Canary.regression[m]

Outcome(c, r) ==
    CASE Regresses(c, r) -> [phase |-> "rollback", stage |-> c.stage]
      [] ~Regresses(c, r) /\ ~Holds(c, r) -> [phase |-> "awaiting", stage |-> c.stage]
      [] ~Regresses(c, r) /\ Holds(c, r) /\ c.stage < Len(Stages) ->
             [phase |-> "awaiting", stage |-> c.stage + 1]
      [] OTHER -> [phase |-> "validated", stage |-> c.stage]

\* evaluate_stage
Evaluated(c, d) ==
    [gate |-> c.gate,
     phase |-> Outcome(c, Content[d]).phase,
     stage |-> Outcome(c, Content[d]).stage,
     reports |-> c.reports \union {d},
     evidence |-> c.evidence \union Content[d].evidence,
     end |-> Content[d].end]

\* Mutant of Selects: a canary that must be rolled back keeps its subjects.
SelectsAnyway(c, bucket) == bucket < Stages[c.stage].exposure

\* subject_is_selected, for the bucket of a subject; the stage of a validated
\* canary is the last one.
Selects(c, bucket) ==
    c.phase # "rollback" /\ bucket < Stages[c.stage].exposure

Exposed(c) == IF c = None THEN {} ELSE {b \in Buckets : Selects(c, b)}

-----------------------------------------------------------------------------
(* Eligibility. *)

\* The reports behind digests.
Resolved(ds) == [i \in DOMAIN ds |-> Content[ds[i]]]
Compatible(ds) == Assessable(Resolved(ds)) /\ Disposition(Resolved(ds)) = "compatible"

\* A trajectory and a decision about the candidate it has reached.
Same(t, r) ==
    /\ r.candidate = Reached(t)
    /\ r.baseline = Head(t).baseline
    /\ r.policy = Head(t).policy

\* ParetoCandidate::from_verified_gates: the gate's evidence on either side of
\* the trajectory's.
ParetoEligible(ds, g) ==
    LET t == Resolved(ds)
        r == Content[g.report]
    IN  /\ g.disposition = "advance"
        /\ Same(t, r)
        /\ r.evidence \intersect EvidenceOf(t) = {}
        /\ r.end < Head(t).start \/ r.start > Last(t).end
        /\ Compatible(ds)

Approved(ds, g, c) ==
    /\ g.disposition = "advance"
    /\ c.phase = "validated"
    /\ Compatible(ds)

\* Mutant of Chronological: the canary is not compared with the trajectory.
ChronologicalByGate(t, r, c) ==
    /\ r.evidence \intersect EvidenceOf(t) = {}
    /\ Last(t).end < r.start
    /\ c.end > r.end

\* Evidence of its own at each of the three, and one after the other.
Chronological(t, r, c) ==
    /\ r.evidence \intersect EvidenceOf(t) = {}
    /\ EvidenceOf(t) \intersect c.evidence = {}
    /\ r.evidence \subseteq c.evidence
    /\ r.evidence # c.evidence
    /\ Last(t).end < r.start
    /\ c.end > r.end

\* authenticate_adapter_promotion_witnesses
Promotable(ds, g, c) ==
    LET t == Resolved(ds)
        r == Content[g.report]
    IN  /\ c.gate = g
        /\ Same(t, r)
        /\ r.design = Head(t).design
        /\ Chronological(t, r, c)
        /\ Approved(ds, g, c)

Complete == trajectory # <<>> /\ gate # None /\ canary # None
Promoted == Complete /\ Promotable(trajectory, gate, canary)

-----------------------------------------------------------------------------

Init == trajectory = <<>> /\ gate = None /\ canary = None

StartTrajectory(r) ==
    /\ trajectory' = Start(r)
    /\ UNCHANGED <<gate, canary>>

AppendReport(r) ==
    /\ trajectory # <<>>
    /\ Appends(Resolved(trajectory), Content[r])
    /\ Len(trajectory) < MaxTrajectory
    /\ trajectory' = Append(trajectory, r)
    /\ UNCHANGED <<gate, canary>>

Decide(r) ==
    /\ Decidable(r)
    /\ gate' = Decision(r)
    /\ UNCHANGED <<trajectory, canary>>

StartCanary ==
    /\ gate # None
    /\ gate.disposition = "advance"
    /\ canary' = Fresh(gate)
    /\ UNCHANGED <<trajectory, gate>>

EvaluateStage(r) ==
    /\ canary # None
    /\ canary.phase = "awaiting"
    /\ Belongs(canary, r)
    /\ canary' = Evaluated(canary, r)
    /\ UNCHANGED <<trajectory, gate>>

Next ==
    \/ \E r \in Reports : StartTrajectory(r) \/ AppendReport(r) \/ Decide(r)
    \/ StartCanary
    \/ \E r \in Reports : EvaluateStage(r)

Spec == Init /\ [][Next]_vars

-----------------------------------------------------------------------------
(* Properties. *)

Decisions == {Decision(r) : r \in Reports}
Phases == {"awaiting", "validated", "rollback"}

\* Every witness is what its reducer makes of reports: the trajectory is a
\* sequence of reports, the gate a decision of one, the canary counts the
\* evidence of the gate and of its own reports.
TypeOK ==
    /\ trajectory \in Seq(Reports)
    /\ gate \in Decisions \union {None}
    /\ canary # None =>
           /\ canary.gate \in Decisions
           /\ canary.phase \in Phases
           /\ canary.stage \in DOMAIN Stages
           /\ canary.reports \subseteq Reports
           /\ canary.evidence = Content[canary.gate.report].evidence
                  \union UNION {Content[r].evidence : r \in canary.reports}

\* The reports a promotion rests on, with the place of each in the chain.
Chain ==
    {<<"trajectory", i, Content[trajectory[i]]>> : i \in DOMAIN trajectory}
        \union {<<"gate", 0, Content[gate.report]>>}
        \union {<<"canary", r, Content[r]>> : r \in canary.reports}

\* No observation is counted twice on the way to a promotion: two different
\* places of the chain never share evidence, whatever reports the caller
\* offered again (authenticate_adapter_promotion_witnesses, append_report,
\* evaluate_stage).
EvidenceCountedOnce ==
    Promoted =>
        \A x, y \in Chain : x # y => x[3].evidence \intersect y[3].evidence = {}

Before(x, y) ==
    \/ x[1] = "trajectory" /\ y[1] # "trajectory"
    \/ x[1] = "trajectory" /\ y[1] = "trajectory" /\ x[2] < y[2]
    \/ x[1] = "gate" /\ y[1] = "canary"

\* The chain of a promotion is in the order of time: every report of the
\* trajectory was observed before the gate's and every report of the canary
\* after it, and the windows of two reports never meet.
ChainInOrder ==
    Promoted =>
        /\ \A x, y \in Chain : Before(x, y) => x[3].end < y[3].start
        /\ \A r, s \in canary.reports :
               r # s => \/ Content[r].end < Content[s].start
                        \/ Content[s].end < Content[r].start

\* No report of the chain of a promotion proves that the candidate, or a
\* checkpoint on its way, breaks a hard invariant.
NoViolationPromoted ==
    Promoted =>
        \A x \in Chain : \A m \in Metrics :
            LET k == IF x[1] = "trajectory" THEN 1
                     ELSE IF x[1] = "gate" THEN Gate.multiplier ELSE Canary.multiplier
            IN ~Violates(m, x[3].estimates[m].cand, k)

\* One canary exposes more and more subjects and never takes one back, until
\* it must be rolled back, and then it exposes none
\* (subject_is_selected, evaluate_stage).
ExposureGrowsUntilRollback ==
    [][canary # None /\ canary' # None /\ canary.reports # canary'.reports
           /\ canary'.reports # {} =>
          IF canary'.phase = "rollback" THEN Exposed(canary') = {}
          ELSE Exposed(canary) \subseteq Exposed(canary')]_vars

\* What is promoted was eligible for the Pareto selection before its canary.
PromotedWasEligible == Promoted => ParetoEligible(trajectory, gate)

\* A validated canary passed every stage with a report of its own.
EveryStagePassed ==
    canary # None /\ canary.phase = "validated" =>
        \A i \in DOMAIN Stages :
            Cardinality({r \in canary.reports : Holds([canary EXCEPT !.stage = i], Content[r])})
                >= Len(Stages) - i + 1
=============================================================================
