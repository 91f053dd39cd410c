-------------------------- MODULE PromotionEvidence --------------------------
(***************************************************************************)
(* The evidence a universal capability is put forward with: trials on         *)
(* receivers (universality_evidence.rs), independent groups of observations   *)
(* (aperture_independence.rs), shadow evaluations of the ways to materialize  *)
(* it (shadow_evaluation.rs), the selection among those                       *)
(* (materialization_selector.rs), and the gate that asks for all of it        *)
(* (universal_promotion_gate.rs).  Each is a function of what it is given;     *)
(* what it is given grows, and a caller gives what he likes.                  *)
(*                                                                         *)
(* Scores are integers, and a metric is the better the greater: a cost is     *)
(* taken with the sign turned.  Confident(s, n) stands for the Wilson bound    *)
(* of s successes out of n against the probability the protocol asks for.     *)
(***************************************************************************)
EXTENDS Integers, FiniteSets, FiniteSetsExt

CONSTANTS
    None,
    Calibration,       \* capabilities the method was calibrated on
    TrialRecords,      \* the trials that may be run
    Protocol,          \* minimum counts and scores
    Confident(_, _),
    Metrics, Minimum, Weight,  \* of a metric: the gate's and the utility's
    Claims,            \* evaluations a caller may put forward
    Runs,              \* evaluations that a shadow run can come out with
    RequiredControls, OwnControl,  \* OwnControl: of a strategy, or {}
    Pairs,             \* complementarity: {candidates} of two strategies, gain
    Observations,      \* lineage of observations
    MinimumGroups

VARIABLES
    trials, shadows,   \* what was run so far
    ready,             \* requests the gate found ready
    observations

promoting == <<trials, shadows, ready>>

\* Scores are numbers, no weight is below zero and pairs are ranked; another
\* failure never raises the Wilson bound, and a protocol asks for a receiver
\* at least.
PromotionAssumption ==
    /\ Protocol.receivers \in Nat \ {0} /\ Protocol.families \in Nat
    /\ Protocol.seeds \in Nat /\ Protocol.n \in Nat
    /\ \A m \in Metrics : Weight[m] \in Nat
    /\ \A p \in Pairs : p.rank \in Nat
    /\ \A e \in Claims \union Runs :
           e.candidate \in Nat /\ \A m \in Metrics : e.scores[m] \in Int
    /\ \A n \in 1 .. Cardinality(TrialRecords), s \in 0 .. Cardinality(TrialRecords) :
           s <= n /\ Confident(s, n + 1) => Confident(s, n)

Total(f) == MapThenSumSet(LAMBDA x : f[x], DOMAIN f)

-----------------------------------------------------------------------------
(* Universality (measure_universality_n). *)

Passes(t) ==
    /\ t.capability \notin Calibration
    /\ t.steps = 0
    /\ t.target >= Protocol.target
    /\ t.preservation >= Protocol.preservation
    /\ t.target - t.control >= Protocol.margin   \* the strongest control

HeldOut(ts) == {t.capability : t \in ts} \ Calibration

\* What refuses a set of trials.
Consistent(ts) ==
    /\ \A t, u \in ts :
           /\ t.receiver = u.receiver => t.family = u.family /\ t.unseen = u.unseen
           /\ t # u => <<t.capability, t.receiver, t.seed>>
                          # <<u.capability, u.receiver, u.seed>>
    /\ \A t \in ts : t.calibration <=> t.capability \in Calibration
    /\ Calibration \subseteq {t.capability : t \in ts}
    /\ Cardinality(HeldOut(ts)) >= Protocol.heldOut

ConfidentIn(ts) == Confident(Cardinality({t \in ts : Passes(t)}), Cardinality(ts))

Covers(ts) ==
    /\ Cardinality({t.receiver : t \in ts}) >= Protocol.receivers
    /\ Cardinality({t.family : t \in ts}) >= Protocol.families
    /\ Cardinality({t.seed : t \in ts}) >= Protocol.seeds
    /\ Protocol.unseen => \E t \in ts : t.unseen

\* Coverage is asked of all the trials and of the successful ones, confidence of
\* each receiver, of each family and of the whole.
AdmittedBy(ts, c) ==
    LET group == {t \in ts : t.capability = c}
    IN  /\ Covers(group) /\ Covers({t \in group : Passes(t)})
        /\ \A r \in {t.receiver : t \in group} : ConfidentIn({t \in group : t.receiver = r})
        /\ \A f \in {t.family : t \in group} : ConfidentIn({t \in group : t.family = f})
        /\ ConfidentIn(group)

Admitted(ts) == {c \in HeldOut(ts) : AdmittedBy(ts, c)}

-----------------------------------------------------------------------------
(* Selection (select_materialization_backend). *)

Passed(e) ==
    /\ \A m \in Metrics : e.scores[m] >= Minimum[m]
    /\ RequiredControls \union OwnControl[e.strategy] \subseteq e.controls

Utility(e) == Total([m \in Metrics |-> Weight[m] * e.scores[m]])

\* The greatest utility, and of equals the least digest.
Best(es) ==
    CHOOSE e \in es : \A f \in es :
        \/ Utility(e) > Utility(f)
        \/ Utility(e) = Utility(f) /\ e.candidate <= f.candidate

DistinctCandidates(es) ==
    Cardinality({e.candidate : e \in es}) = Cardinality(es)

\* A pair is of two candidates of the selection, of different strategies.
PairsFit(pairs, es) ==
    /\ \A p \in pairs : p.candidates \subseteq {e.candidate : e \in es}
    /\ \A p, q \in pairs : p # q => p.candidates # q.candidates
    /\ \A p \in pairs : \E e, f \in es :
           e.strategy # f.strategy /\ p.candidates = {e.candidate, f.candidate}

\* The candidates selected, or None; two of them are a hybrid.
Selected(es, pairs) ==
    LET admitted == {e \in es : Passed(e)}
        joint == {p \in pairs : p.gains /\ p.candidates \subseteq {e.candidate : e \in admitted}}
    IN  IF ~DistinctCandidates(es) \/ ~PairsFit(pairs, es) \/ admitted = {} THEN None
        ELSE IF joint = {} THEN {Best(admitted).candidate}
        ELSE LET best == CHOOSE p \in joint : \A q \in joint : p.rank <= q.rank
             IN  best.candidates

-----------------------------------------------------------------------------
(* The gate (evaluate_universal_promotion_gate). *)

\* Mutant of EveryEvaluationRan: a shadow receipt need not show the same scores.
SomeEvaluationRan(selection, receipts) ==
    {e.candidate : e \in receipts} = {e.candidate : e \in selection}

EveryEvaluationRan(selection, receipts) ==
    /\ receipts \subseteq selection       \* with exactly these scores
    /\ {e.candidate : e \in receipts} = {e.candidate : e \in selection}

IsReady(q) ==
    LET selected == Selected(q.selection, q.pairs)
    IN  /\ selected # None /\ Consistent(q.trials)
        /\ DistinctCandidates(q.receipts)
        /\ EveryEvaluationRan(q.selection, q.receipts)
        /\ Cardinality(selected) = 1      \* a hybrid asks for a joint evaluation
        /\ Cardinality(Admitted(q.trials)) >= Protocol.n
        /\ ConfidentIn({t \in q.trials : t.capability \notin Calibration})

-----------------------------------------------------------------------------
(* Independent groups (estimate_aperture_independence). *)

Groups(os) == {o.group : o \in os}
OfGroup(os, g) == {o \in os : o.group = g}
Randomization(os, g) == (CHOOSE o \in OfGroup(os, g) : TRUE).randomization
Replicate(os, g) == (CHOOSE o \in OfGroup(os, g) : TRUE).replicate

\* group_lineages: a run is observed once, and a group has one lineage.
LineageFits(os) ==
    /\ Cardinality({o.run : o \in os}) = Cardinality(os)
    /\ \A o, p \in os : o.group = p.group =>
           o.randomization = p.randomization /\ o.replicate = p.replicate

\* Groups of one randomization share one group's weight (in twelfths).
Share(os, g) ==
    12 \div Cardinality({h \in Groups(os) : Randomization(os, h) = Randomization(os, g)})
EffectiveGroups(os) == Total([g \in Groups(os) |-> Share(os, g)])

LineageVerified(os) ==
    /\ Cardinality({Randomization(os, g) : g \in Groups(os)}) = Cardinality(Groups(os))
    /\ Cardinality({Replicate(os, g) : g \in Groups(os)}) = Cardinality(Groups(os))

IndependentEnough(os) ==
    /\ LineageFits(os)
    /\ Cardinality(Groups(os)) >= MinimumGroups
    /\ LineageVerified(os)
    /\ EffectiveGroups(os) >= 12 * MinimumGroups

-----------------------------------------------------------------------------
(* What is run and asked, in any order. *)

RunTrial(t) ==
    /\ t \notin trials
    /\ trials' = trials \union {t}
    /\ UNCHANGED <<shadows, ready, observations>>

\* run_shadow_evaluation: a receipt for what the isolated run came out with; the
\* same candidate may be run again and come out otherwise.
ShadowRun(e) ==
    /\ e \notin shadows
    /\ shadows' = shadows \union {e}
    /\ UNCHANGED <<trials, ready, observations>>

Ask(selection, pairs, receipts) ==
    LET q == [selection |-> selection, pairs |-> pairs, receipts |-> receipts,
              trials |-> trials]
    IN  /\ IsReady(q)
        /\ ready' = ready \union {q}
        /\ UNCHANGED <<trials, shadows, observations>>

Observe(o) ==
    /\ o \notin observations
    /\ observations' = observations \union {o}
    /\ UNCHANGED promoting

PromotionInit == trials = {} /\ shadows = {} /\ ready = {}
PromotionNext ==
    \/ \E t \in TrialRecords : RunTrial(t)
    \/ \E e \in Runs : ShadowRun(e)
    \/ /\ ready = {}
       /\ \E selection \in SUBSET Claims, pairs \in SUBSET Pairs,
             receipts \in SUBSET shadows : Ask(selection, pairs, receipts)

-----------------------------------------------------------------------------
(* Properties. *)

PromotionTypeOK ==
    /\ trials \subseteq TrialRecords /\ shadows \subseteq Runs
    /\ observations \subseteq Observations
    /\ \A q \in ready : q.trials \subseteq trials /\ q.receipts \subseteq shadows

\* No worse by any metric, and better by one that counts: dominates
\* (materialization_selector.rs), but for metrics whose weight is zero.
Outdoes(a, b) ==
    /\ \A m \in Metrics : a.scores[m] >= b.scores[m]
    /\ \E m \in Metrics : Weight[m] > 0 /\ a.scores[m] > b.scores[m]

\* What the gate lets through was run as it was presented, losers included, and
\* is the best of it: the one candidate selected is outdone by none that passed,
\* its scores are those of an isolated run, and as many capabilities as
\* asked for were each carried to enough receivers, one of them unseen
\* (evaluate_universal_promotion_gate).
ReadyIsEarned ==
    \A q \in ready :
        /\ q.selection \subseteq shadows
        /\ \E e \in q.selection :
               /\ Selected(q.selection, q.pairs) = {e.candidate}
               /\ Passed(e)
               /\ \A f \in q.selection : Passed(f) => ~Outdoes(f, e)
        /\ \E cs \in SUBSET HeldOut(q.trials) :
               /\ Cardinality(cs) = Protocol.n
               /\ \A c \in cs : \E t \in q.trials :
                      t.capability = c /\ Passes(t) /\ (Protocol.unseen => t.unseen)

\* Evidence against a capability never helps it: a trial that fails admits no
\* capability, and another observation of a randomization that was used, in
\* whatever group, does not make the groups independent enough
\* (measure_universality_n, estimate_aperture_independence).
FailureNeverHelps ==
    /\ \A t \in trials' \ trials : ~Passes(t) => Admitted(trials') \subseteq Admitted(trials)
    /\ \A o \in observations' \ observations :
           /\ LineageFits(observations)
           /\ o.randomization \in {p.randomization : p \in observations}
           => (IndependentEnough(observations') => IndependentEnough(observations))
=============================================================================
