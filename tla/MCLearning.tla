------------------------------ MODULE MCLearning ------------------------------
(***************************************************************************)
(* Learning and what it hands over.  A behaviour is about one part:           *)
(*   session    two processes start, issue and assimilate at once, with       *)
(*              envelopes right and wrong, a death or a refused append, and   *)
(*              an observation measured anew                                  *)
(*   handoff    the last experiment comes in while two recorders install the  *)
(*              evidence and a reader prepares the finalization input         *)
(*   residency  seven contracts learned in every order, and decisions made,     *)
(*              kept and believed beside it                                   *)
(*   matrix     the matrices of facts, one piece of evidence after the other  *)
(*   promotion  trials and shadow runs come in, and the gate is asked         *)
(*   lineage    observations come in, one after the other                     *)
(***************************************************************************)
EXTENDS AdaptiveLearning, TLC

CONSTANTS
    Unknown, Malformed, Contracts, Required, Deciding, Bundles, Places, Rounds,
    MaxDecisions,
    Calibration, TrialRecords, TrialProtocol, Confident(_, _), Metrics, Minimum, Weight,
    Claims, Runs, RequiredControls, OwnControl, Pairs, Lineages, MinimumGroups

VARIABLES
    part,
    contract, head, made, kept, facts,   \* residency
    trials, shadows, ready, observations         \* promotion

deciding == <<contract, head, made, kept>>
promoting == <<trials, shadows, ready>>
outsiders == <<deciding, facts, promoting, observations>>
vars == <<part, handoff, outsiders>>

Residency == INSTANCE ResidencyDecision WITH
    Targets <- Places, Receipts <- Deciding
Promotion == INSTANCE PromotionEvidence WITH
    Observations <- Lineages, Protocol <- TrialProtocol

-----------------------------------------------------------------------------
(* The second aperture promises most; what it shows decides between the      *)
(* other two.                                                                *)

ObjectiveOf(target, a, past) ==
    IF past = <<>> THEN IF a = 2 THEN 9 ELSE 1
    ELSE IF (a = 1) = (past[1][2] = "good") THEN 5 ELSE 4
MeasuredOf(a, v) == IF v = 1 THEN "good" ELSE "bad"

Outcome(a, o, v, value) ==
    [target |-> "t1", aperture |-> a, observation |-> o, version |-> v, value |-> value]

\* The experiments of either history, one made of an observation that was
\* used, one for an aperture that is not its turn, and one that claims more
\* than its observation shows.
SaysOf ==
    [e1 |-> Outcome(2, "o1", 1, "good"), e2 |-> Outcome(1, "o2", 1, "good"),
     e3 |-> Outcome(2, "o1", 2, "bad"),  e4 |-> Outcome(3, "o2", 1, "good"),
     e5 |-> Outcome(1, "o1", 1, "good"), e6 |-> Outcome(2, "o1", 2, "good")]

Source(o, v, d) == [observation |-> o, version |-> v, destination |-> d]

InstallsOf ==
    [q1 |-> <<Source("o1", 1, "d1"), Source("o2", 1, "d2")>>,
     q2 |-> <<Source("o1", 1, "d3"), Source("o2", 2, "d4")>>]
ProtocolOf == [q1 |-> "protocol", q2 |-> "protocol"]

-----------------------------------------------------------------------------
(* Contracts: one that any candidate meets, one that asks for a boundary, one *)
(* with claims amiss, one that nothing meets, one that is about another       *)
(* target in part, one with an unknown dimension, one with a malformed value. *)

KindsOfFact == {"representability", "target"}
ClassesOf == {"weights", "hybrid", "software"}
DimensionsOf ==
    {"semantics"} \X {"requirements", "effects", "external_state", "observability"}
FactsOf == DimensionsOf \union (KindsOfFact \X ClassesOf)

Claim(f, value) == [domain |-> f[1], value |-> value]
On(place, ok) == [target |-> place, compatible |-> ok]

Everywhere ==
    [f \in FactsOf |->
        Claim(f, IF f \in DimensionsOf THEN 1
                 ELSE IF f[1] = "target" THEN On("x1", TRUE) ELSE TRUE)]
With(c, f, value) == (f :> Claim(f, value)) @@ c
About(d) == <<"semantics", d>>

Boundary == With(Everywhere, About("effects"), 2)
Amiss ==
    (<<"representability", "hybrid">> :> [domain |-> "semantics", value |-> TRUE])
        @@ (<<"target", "software">> :> None)
        @@ With(Everywhere, About("requirements"), 2)
Nothing ==
    With(With(Everywhere, About("observability"), 3), <<"representability", "software">>, FALSE)
Elsewhere == With(Boundary, <<"target", "hybrid">>, On("x2", TRUE))
SomeContracts ==
    {Everywhere, Boundary, Amiss, Nothing, Elsewhere,
     With(Boundary, About("observability"), Unknown),
     With(Elsewhere, About("external_state"), Malformed)}

FactGroups ==
    {DimensionsOf} \union {KindsOfFact \X {"software"}, KindsOfFact \X {"weights", "hybrid"}}
RequiredFacts == DimensionsOf \union (KindsOfFact \X {"software"})
BundleReasons == [b1 |-> {}, b2 |-> {"unmapped"}]

-----------------------------------------------------------------------------
(* Trials of two held-out capabilities and the one calibrated on.            *)

Trial(c, receiver, seed, target) ==
    [capability |-> c, receiver |-> receiver, family |-> receiver, seed |-> seed,
     unseen |-> receiver = "r2", calibration |-> c = "c0", steps |-> 0,
     target |-> target, preservation |-> 9, control |-> 3]
SomeTrials ==
    {Trial("c0", "r1", 1, 9), Trial("c1", "r1", 1, 9), Trial("c1", "r2", 1, 9),
     Trial("c1", "r1", 2, 4), Trial("c1", "r2", 2, 9), Trial("c1", "r1", 3, 9),
     [Trial("c2", "r2", 1, 9) EXCEPT !.steps = 1],
     [Trial("c1", "r2", 3, 9) EXCEPT !.unseen = FALSE]}
ProtocolOfTrials ==
    [heldOut |-> 1, receivers |-> 2, families |-> 2, seeds |-> 2, unseen |-> TRUE,
     target |-> 8, preservation |-> 8, margin |-> 5, n |-> 1]

\* The Wilson bound at one standard deviation, against three tenths.
WilsonHolds(s, n) == <<s, n>> \in {<<1, 1>>, <<2, 2>>, <<2, 3>>, <<3, 3>>, <<3, 4>>,
    <<4, 4>>, <<3, 5>>, <<4, 5>>, <<5, 5>>, <<4, 6>>, <<5, 6>>, <<6, 6>>}

Evaluation(candidate, strategy, function, cheapness) ==
    [candidate |-> candidate, strategy |-> strategy,
     scores |-> [function |-> function, cheapness |-> cheapness],
     controls |-> {"unmodified", "dense"}]
Cheaper == Evaluation(1, "dense", 5, 5)
Better == Evaluation(2, "program", 6, 4)
SomeRuns == {Cheaper, Better, Evaluation(2, "program", 4, 4), Evaluation(3, "low rank", 9, 9)}
SomeClaims == SomeRuns \union {Evaluation(2, "program", 8, 8)}
SomePairs == {[candidates |-> {1, 2}, gains |-> TRUE, rank |-> 1]}
NeedOf == [dense |-> {"dense"}, program |-> {}] @@ ("low rank" :> {"low rank"})
MinimumOf == [function |-> 4, cheapness |-> 4]
WeightOf == [function |-> 2, cheapness |-> 1]

Lineage(group, randomization, replicate, run) ==
    [group |-> group, randomization |-> randomization, replicate |-> replicate, run |-> run]
SomeLineages ==
    {Lineage("g1", "s1", "k1", 1), Lineage("g1", "s1", "k1", 2), Lineage("g2", "s2", "k2", 3),
     Lineage("g3", "s1", "k3", 4), Lineage("g3", "s3", "k3", 5), Lineage("g4", "s4", "k2", 6),
     Lineage("g2", "s2", "k2", 1)}

-----------------------------------------------------------------------------

\* The callers are alike, and so are the recorders.
Alike == Permutations(Procs) \union Permutations(Recorders)

\* The last experiment is assimilated but for the pointer, as the calls leave it.
First == Issued(Started("t1"))
Second == Issued(Assimilated(First, "e1"))
Whole == Assimilated(Second, "e2")
Begun == <<Started("t1"), First, Assimilated(First, "e1"), Second, Whole>>
AsMeasured == [o1 |-> 1, o2 |-> 1]

BegunAssumption ==
    /\ {"t1"} \subseteq Targets /\ {"e1", "e2"} \subseteq Envelopes
    /\ AsMeasured \in [Observations -> Versions]
    /\ \A i \in DOMAIN Begun : IsReceipt(Begun[i]) /\ Follows(Begun[i])

ASSUME Instances ==
    /\ StepsAssumption /\ RequestsAssumption /\ BegunAssumption
    /\ Residency!ResidencyAssumption /\ Promotion!PromotionAssumption
    /\ IsFiniteSet(TrialRecords) /\ IsFiniteSet(Claims) /\ IsFiniteSet(Runs)
    /\ IsFiniteSet(Metrics) /\ IsFiniteSet(Lineages)

BeforeTheLast ==
    /\ marker = "t1" /\ pointer = Second
    /\ receipts = ToSet(Begun) /\ stored = {"e1", "e2"}
    /\ ledger = Begun
    /\ observed = AsMeasured
    /\ offered = "e2"
    /\ \E p \in Procs :
           /\ lock = p
           /\ task = [x \in Procs |->
                  IF x = p THEN Task("assimilate", "point", None, Whole) ELSE Idle]
    /\ failures = 0 /\ rewrites = MaxRewrites - 1

SessionStart == SessionInit /\ observed = AsMeasured

Init ==
    /\ \/ part = "session" /\ SessionStart
       \/ part = "handoff" /\ BeforeTheLast
       \/ part \in {"residency", "matrix", "promotion", "lineage"} /\ SessionStart
    /\ HandoffInit
    /\ Promotion!PromotionInit /\ observations = {}
    /\ IF part = "residency" THEN Residency!ResidencyInit
       ELSE /\ contract = None /\ head = None
            /\ made = {} /\ kept = {}
    /\ IF part = "matrix" THEN Residency!MatrixInit ELSE facts = None

LastExperiment ==
    \/ \E p \in Procs : MovePointer(p) \/ Answer(p) \/ Die(p)
    \/ \E o \in Observations, v \in Versions : Rewrite(o, v)

Next ==
    \/ /\ part = "session" /\ SessionNext
       /\ UNCHANGED <<part, recording, preparing, outsiders>>
    \/ /\ part = "handoff" /\ LastExperiment
       /\ UNCHANGED <<part, recording, preparing, outsiders>>
    \/ /\ part = "handoff"
       /\ \/ \E r \in Recorders : Record(r)
          \/ \E c \in Preparers : Prepare(c)
       /\ UNCHANGED <<part, outsiders>>
    \/ /\ part = "residency" /\ Residency!ResidencyNext
       /\ UNCHANGED <<part, handoff, promoting, observations>>
    \/ /\ part = "matrix" /\ Residency!MatrixNext
       /\ UNCHANGED <<part, handoff, promoting, observations>>
    \/ /\ part = "promotion" /\ Promotion!PromotionNext
       /\ UNCHANGED <<part, handoff, deciding, facts>>
    \/ /\ part = "lineage" /\ \E o \in Lineages : Promotion!Observe(o)
       /\ UNCHANGED <<part, handoff, deciding, facts>>

Spec == Init /\ [][Next]_vars

-----------------------------------------------------------------------------

\* A session can be read back wherever a process died, and nothing is left in
\* the way of the next call where none did (learning_orchestrator.rs).
SessionSound == SessionTypeOK /\ PointerReplays /\ NothingStranded

\* An input that was handed over stays the canonical one, and representation
\* evidence is recorded once for a request, whichever recorder died
\* (learning_finalization.rs, representation_evidence.rs).
HandoffSound == HandoffTypeOK /\ InputsStayCanonical /\ RecordedOnce

\* A decision that places a capability can be authenticated ever after, and
\* rests on what was established (residency_decision.rs).
PlacementsStand ==
    part = "residency" => Residency!ResidencyTypeOK /\ Residency!PlacementsStand

\* A session never goes back or branches off, no installed record is replaced,
\* more evidence is not held against a placement, and evidence against a
\* capability never helps it (persist_receipt_under_root,
\* record_from_payload_path_at_root, evaluate_fact_matrix, measure_universality_n,
\* estimate_aperture_independence).
NothingTakenBack ==
    [][/\ PointerAdvances /\ RecordsStay
       /\ part = "matrix" => Residency!EvidenceMovesForward
       /\ Promotion!FailureNeverHelps]_vars

\* The gate lets nothing through but the best of what was run
\* (evaluate_universal_promotion_gate).
ReadyIsEarned == Promotion!PromotionTypeOK /\ Promotion!ReadyIsEarned
=============================================================================
