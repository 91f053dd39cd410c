------------------------------ MODULE PairedRows ------------------------------
(***************************************************************************)
(* Observations gathered row by row, in any combination, and the report     *)
(* that evaluate_paired_groups makes of them.                               *)
(***************************************************************************)
EXTENDS GovernanceEvidence

CONSTANTS
    Rows,         \* rows that may be gathered
    Policy        \* the robust policy

PolicyAssumption == ValidPolicy(Policy)

VARIABLES rows

Init == rows = {}

Gather ==
    /\ Cardinality(rows) < Policy.maximum
    /\ \E r \in Rows \ rows : rows' = rows \union {r}

Spec == Init /\ [][Gather]_rows

-----------------------------------------------------------------------------
(* Properties. *)

Reported == EvaluatePairedGroups("baseline", "candidate", rows, Policy)

\* An accepted report never counts one observation for two groups, so a
\* sufficient one stands on as many observations as groups at least.
OneGroupPerEvidence ==
    Reported # None =>
        /\ \A r, s \in rows :
               r.unit.evidence = s.unit.evidence => r.unit.group = s.unit.group
        /\ Reported.sufficient => Cardinality(Reported.evidence) >= Policy.minimum

\* The envelope of a report reaches every group it was made from, however far
\* the robust center is from it.
EnvelopeCoversGroups ==
    Reported # None =>
        \A m \in Metrics :
            LET e == Reported.estimates[m].effect
                means == GroupMeans(rows, m, Difference)
            IN e.radius # None =>
                   \A i \in DOMAIN means : means[i] \in Lower(e, 1) .. Upper(e, 1)
=============================================================================
