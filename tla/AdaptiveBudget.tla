---------------------------- MODULE AdaptiveBudget ----------------------------
(***************************************************************************)
(* The plan of trials over the candidates of a portfolio                    *)
(* (allocate_adaptive_budget in src/src/portfolio_governance.rs): every     *)
(* candidate is covered first, in rounds, and what is left of the budget,   *)
(* but for a reserve, goes trial by trial to the candidate of the highest   *)
(* score among those that can still be afforded.  The score is a float of   *)
(* logarithms, so which of them it favours is left open.                    *)
(***************************************************************************)
EXTENDS Integers, FiniteSets, FiniteSetsExt, Sequences

CONSTANTS
    Candidates,   \* ids, in their order
    Plans         \* the calls: [cost, most, total, reserve, least, trials]

\* AdaptiveTrialCandidate::from_gate_history and AdaptiveBudgetPolicy::new.
PlansAssumption ==
    /\ Candidates \subseteq Int /\ IsFiniteSet(Candidates)
    /\ \A p \in Plans :
           /\ p.reserve \in Nat /\ p.total \in Nat /\ p.reserve < p.total
           /\ p.least \in Nat \ {0} /\ p.trials \in Nat \ {0}
           /\ \A c \in Candidates :
                  p.cost[c] \in Nat \ {0} /\ p.most[c] \in Nat /\ p.most[c] >= p.least

VARIABLES
    plan,         \* the call
    phase,        \* "started", "covering", "exploiting", "planned" or "refused"
    allocations,  \* the trials so far, a sequence of [candidate, ordinal, reason]
    consumed      \* what they cost

vars == <<plan, phase, allocations, consumed>>

Init ==
    /\ plan \in Plans
    /\ phase = "started"
    /\ allocations = <<>>
    /\ consumed = 0

Allocatable == plan.total - plan.reserve
Planned(c) == Cardinality({i \in DOMAIN allocations : allocations[i].candidate = c})
MandatoryCost == SumFunction([c \in Candidates |-> plan.cost[c] * plan.least])

Feasible ==
    /\ MandatoryCost <= Allocatable
    /\ Cardinality(Candidates) * plan.least <= plan.trials

Allocate(c, reason) ==
    /\ allocations' = Append(allocations,
           [candidate |-> c, ordinal |-> Planned(c), reason |-> reason])
    /\ consumed' = consumed + plan.cost[c]
    /\ UNCHANGED plan

\* The mandatory coverage must fit as a whole, or nothing is planned.
Begin ==
    /\ phase = "started"
    /\ phase' = IF Feasible THEN "covering" ELSE "refused"
    /\ UNCHANGED <<plan, allocations, consumed>>

\* Mutant of Behind: one candidate after the other takes the whole coverage.
BehindNobody(c) == TRUE

\* Round by round, in the order of the ids: nobody gets a trial while another
\* is a round behind.
Behind(c) ==
    \A d \in Candidates :
        Planned(d) >= Planned(c) /\ (d < c => Planned(d) > Planned(c))

Cover(c) ==
    /\ phase = "covering"
    /\ Planned(c) < plan.least
    /\ Behind(c)
    /\ Allocate(c, "coverage")
    /\ UNCHANGED phase

Exploit ==
    /\ phase = "covering"
    /\ \A c \in Candidates : Planned(c) >= plan.least
    /\ phase' = "exploiting"
    /\ UNCHANGED <<plan, allocations, consumed>>

Viable(c) ==
    /\ Planned(c) < plan.most[c]
    /\ plan.cost[c] <= Allocatable - consumed

Favour(c) ==
    /\ phase = "exploiting"
    /\ Len(allocations) < plan.trials
    /\ Viable(c)
    /\ Allocate(c, "score")
    /\ UNCHANGED phase

Finish ==
    /\ phase = "exploiting"
    /\ Len(allocations) >= plan.trials \/ \A c \in Candidates : ~Viable(c)
    /\ phase' = "planned"
    /\ UNCHANGED <<plan, allocations, consumed>>

Next ==
    \/ Begin \/ Exploit \/ Finish
    \/ \E c \in Candidates : Cover(c) \/ Favour(c)

Spec == Init /\ [][Next]_vars

\* The loop runs by itself.
FairSpec == Spec /\ WF_vars(Next)

-----------------------------------------------------------------------------
(* Properties. *)

TypeOK ==
    /\ plan \in Plans
    /\ phase \in {"started", "covering", "exploiting", "planned", "refused"}
    /\ consumed = SumFunction([c \in Candidates |-> plan.cost[c] * Planned(c)])
    /\ phase = "refused" => allocations = <<>>

\* The reserve kept for the holdout is never touched.
ReserveUntouched == consumed + plan.reserve <= plan.total

\* While a candidate lacks its mandatory trials none is a whole round ahead,
\* and a finished plan covers everybody, within every limit.
EverybodyCovered ==
    /\ phase = "covering" =>
           \A c, d \in Candidates : Planned(c) <= Planned(d) + 1
    /\ phase = "planned" =>
           /\ Len(allocations) <= plan.trials
           /\ \A c \in Candidates : Planned(c) \in plan.least .. plan.most[c]

\* A finished plan leaves nothing that another trial could have used.
NothingLeftOver ==
    phase = "planned" /\ Len(allocations) < plan.trials =>
        \A c \in Candidates :
            \/ Planned(c) = plan.most[c]
            \/ consumed + plan.cost[c] + plan.reserve > plan.total

=============================================================================
