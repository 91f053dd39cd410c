----------------------------- MODULE MCGovernance -----------------------------
(***************************************************************************)
(* What comes before an adapter is put in use.  A behaviour is about one     *)
(* part, and the others stay at rest:                                        *)
(*   chain      the witnesses of two candidates a and b, measured beside one *)
(*              baseline in two groups, where the score should rise and the  *)
(*              delay stay below a contract                                  *)
(*   selection  the selection among candidates                               *)
(*   import     successors of two adapters, right and wrong, in any order    *)
(***************************************************************************)
EXTENDS PortfolioGovernance

CONSTANTS
    Ids, Values,        \* for the selection
    Manifests, Catalogue

VARIABLES
    part,
    pool,                                                          \* ParetoSelection
    journal, head, permits, step, staged, draft, reader, calls     \* AdapterBank

bank == <<journal, head, permits, step, staged, draft, reader, calls>>
parts == <<vars, part, pool, bank>>

TwoMetrics == {"score", "delay"}
HigherScore == {"score"}
Contracts == [m \in TwoMetrics |->
                IF m = "delay" THEN [min |-> None, max |-> 4] ELSE None]
Ones == [m \in TwoMetrics |-> 1]
Zeros == [m \in TwoMetrics |-> 0]
Limits == [minimumReports |-> 2, maximumReports |-> 2, step |-> 4,
           tortuosity |-> 200, waste |-> 50, efficiency |-> 10,
           degradation |-> [m \in TwoMetrics |-> 1], sum |-> 2, degraded |-> 0,
           distributed |-> 200, pathPenalty |-> 0, conservationPenalty |-> 0,
           tortuosityPenalty |-> 0, utility |-> 0]
GatePolicy == [groups |-> 2, multiplier |-> 1,
               improvement |-> [m \in TwoMetrics |-> IF m = "score" THEN 1 ELSE 0]]
CanaryPolicy == [multiplier |-> 1, regression |-> Zeros]
TwoStages == <<[exposure |-> 2, groups |-> 2], [exposure |-> 4, groups |-> 2]>>
Robust == [minimum |-> 2, blocks |-> 2, maximum |-> 9]

\* One pair per group; the delay of the candidate is given per group.
Measured(x) ==
    LET unit(g) == [pair |-> 10 * x.evidence + g, group |-> g,
                    evidence |-> 10 * x.evidence + g, start |-> x.start, end |-> x.end]
        row(m, g) ==
            [metric |-> m, unit |-> unit(g),
             base |-> IF m = "score" THEN 0 ELSE 3,
             cand |-> IF m = "score" THEN x.gain ELSE x.delay[g]]
        measured == {row(m, g) : m \in TwoMetrics, g \in x.groups}
    IN  [EvaluatePairedGroups("base", x.candidate, measured, Robust)
            EXCEPT !.estimates = @ @@ <<>>]

\* Of a report: the candidate, its groups, its evidence, its window, the gain
\* of the candidate and its delays.
Row(candidate, groups, evidence, start, end, gain, delay) ==
    [candidate |-> candidate, groups |-> groups, evidence |-> evidence,
     start |-> start, end |-> end, gain |-> gain, delay |-> delay]

Good(c, evidence, at) ==
    Row(c, {1, 2}, evidence, at, at, IF c = "a" THEN 2 ELSE 4, <<3, 3, 3>>)

Rows ==
    ("a1" :> Good("a", 1, 1))
    @@ ("b2" :> Good("b", 2, 2))
    @@ ("b3" :> Good("b", 3, 3))
    @@ ("b4" :> Good("b", 4, 4))
    @@ ("b5" :> Good("b", 5, 5))
    @@ ("overlapping" :> Row("b", {1, 2}, 6, 1, 2, 4, <<3, 3, 3>>))
    @@ ("evidence of a1" :> Good("b", 1, 5))
    @@ ("evidence of b2" :> Good("b", 2, 4))
    @@ ("evidence of b3" :> Good("b", 3, 6))
    @@ ("violating checkpoint" :> Row("a", {1, 2}, 7, 1, 1, 2, <<5, 5, 5>>))
    @@ ("uncertain" :> Row("b", {1, 2}, 8, 4, 4, 4, <<2, 4, 3>>))
    @@ ("violating" :> Row("b", {1, 2}, 9, 5, 5, 4, <<6, 6, 6>>))
    @@ ("other design" :> Row("b", {1, 3}, 10, 6, 6, 4, <<3, 3, 3>>))
    @@ ("one group" :> Row("b", {1}, 11, 3, 3, 4, <<3, 3, 3>>))

Table == [d \in DOMAIN Rows |-> Measured(Rows[d])]

Offered == DOMAIN Rows
Hashes == {0, 3, 5}
-----------------------------------------------------------------------------
Tabulated == Table

Selection == INSTANCE ParetoSelection WITH Objectives <- Metrics

Imported(id, generation, capability, lineage, delta) ==
    [id |-> id, generation |-> generation, model |-> "r",
     capability |-> capability, lineage |-> lineage, delta |-> delta,
     terms |-> {}]

\* Adapters "a" and "b" for one capability, successors of them, and adapters
\* with the delta of the other.
Successors ==
    "a1" :> Imported("a", 1, "p", "a", 1)
        @@ "a2" :> Imported("a", 2, "p", "a", 3)
        @@ "a2q" :> Imported("a", 2, "q", "a", 3)
        @@ "a3" :> Imported("a", 3, "p", "a", 4)
        @@ "b1" :> Imported("b", 1, "p", "b", 2)
        @@ "b2" :> Imported("b", 2, "p", "b", 5)
        @@ "a1b" :> Imported("b", 1, "p", "a", 2)
        @@ "b1a" :> Imported("b", 1, "p", "b", 1)

Bank == INSTANCE AdapterBank WITH
    Content <- Catalogue, MaxRevisions <- 5, MaxPermits <- 0, MaxCalls <- 0

ASSUME Instances ==
    /\ GateAssumption /\ StagesAssumption /\ PetfcAssumption /\ ReportsAssumption
    /\ BucketsAssumption
    /\ Selection!ValuesAssumption
    /\ Bank!ManifestAssumption /\ Bank!NoneAssumption

PartsInit == part \in {"chain", "selection", "import"} /\ Init /\ Selection!Init /\ Bank!Init

Promote == part = "chain" /\ Next /\ UNCHANGED <<part, pool, bank>>

Select == part = "selection" /\ Selection!Next /\ UNCHANGED <<vars, part, bank>>

Import == part = "import" /\ Bank!Next /\ UNCHANGED <<vars, part, pool>>

PartsSpec == PartsInit /\ [][Promote \/ Select \/ Import]_parts

-----------------------------------------------------------------------------
\* What is promoted has earned it: it was eligible for the selection, passed
\* every stage of its canary, and broke no hard invariant on the way; and what
\* it rests on is fresh and in order: no observation is counted twice on the
\* way, and the chain follows the order of time.
PromotionEarned ==
    /\ TypeOK
    /\ NoViolationPromoted /\ PromotedWasEligible /\ EveryStagePassed
    /\ EvidenceCountedOnce /\ ChainInOrder

\* What is left out of a selection is dominated by what is selected, and is
\* never selected later.
SelectionSound ==
    [][Selection!TypeOK' /\ Selection!FrontCovers' /\ Selection!LeftOutStaysOut]_pool

\* Generations are gapless in one lineage, and no slot holds one delta twice.
LineageUnbroken == Bank!LineageUnbroken
=============================================================================
