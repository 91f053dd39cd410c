--------------------------- MODULE ParetoSelection ---------------------------
(***************************************************************************)
(* The Pareto selection among candidates that passed both gates             *)
(* (deterministic_pareto_front in src/src/portfolio_governance.rs), run     *)
(* again each time another candidate becomes eligible.  The objectives of a *)
(* candidate are its conservative improvements, one per metric, higher is   *)
(* better.  All candidates of a selection share baseline, catalog, policies *)
(* and design; one that does not, or whose id is taken, fails it.           *)
(***************************************************************************)
EXTENDS Integers

CONSTANTS
    Objectives,   \* the metrics
    Ids,          \* ids of candidates
    Values        \* improvements

ValuesAssumption == Values \subseteq Int

VARIABLES pool    \* the candidates offered, a set of [id, gain]

Candidate == [id : Ids, gain : [Objectives -> Values]]

\* Mutant of Dominates: better in one metric is enough.
DominatesInOne(c, d) == \E m \in Objectives : c.gain[m] > d.gain[m]

Dominates(c, d) ==
    /\ \A m \in Objectives : c.gain[m] >= d.gain[m]
    /\ \E m \in Objectives : c.gain[m] > d.gain[m]

\* deterministic_pareto_front
Front(S) == {c \in S : \A d \in S : d.id # c.id => ~Dominates(d, c)}

Init == pool = {}

\* from_verified_gates made c; the ids of a selection are distinct.
Offer(c) ==
    /\ \A d \in pool : d.id # c.id
    /\ pool' = pool \union {c}

Next == \E c \in Candidate : Offer(c)

Spec == Init /\ [][Next]_pool

-----------------------------------------------------------------------------
(* Properties. *)

\* The candidates are told apart by their ids.
TypeOK ==
    /\ pool \subseteq Candidate
    /\ \A c, d \in pool : c.id = d.id => c = d

\* A selection is never empty, and a candidate that is left out is dominated
\* by one that is selected, not only by one that is left out as well.
FrontCovers ==
    \A c \in pool : c \in Front(pool) \/ \E d \in Front(pool) : Dominates(d, c)

\* Another candidate may only push others out: a candidate once left out is
\* never selected later.
LeftOutStaysOut == pool \ Front(pool) \subseteq pool' \ Front(pool')
=============================================================================
