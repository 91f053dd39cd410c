------------------------------ MODULE PetfcPath ------------------------------
(***************************************************************************)
(* A trajectory that grows report by report, with any estimates: what its   *)
(* assessment says of the positions the envelopes leave open.               *)
(***************************************************************************)
EXTENDS PetfcAssessment

CONSTANTS
    Checkpoints,  \* the candidates, a sequence
    Estimates,    \* the estimates a report may hold
    Spread        \* the fewest groups a report needs, and has

VARIABLES path    \* the reports of the trajectory

\* A report of the next checkpoint, with evidence of its own.
Observation(i, e) ==
    [baseline |-> "base", candidate |-> Checkpoints[i], policy |-> Spread,
     design |-> Spread, estimates |-> e, evidence |-> {i}, start |-> i, end |-> i,
     sufficient |-> TRUE]

Init == \E e \in Estimates : path = Start(Observation(1, e))

Extend ==
    /\ Len(path) < Len(Checkpoints)
    /\ \E e \in Estimates :
           LET r == Observation(Len(path) + 1, e)
           IN Appends(path, r) /\ path' = Append(path, r)

Spec == Init /\ [][Extend]_path

-----------------------------------------------------------------------------
(* Positions inside the envelopes. *)

Exactly(x) == [center |-> x, radius |-> 0]
Widest(p) == Max({p[i][m].radius : i \in DOMAIN p, m \in Metrics})

\* Every path of exact positions that the envelopes of p allow.
Exact(p) ==
    {[i \in DOMAIN p |-> [m \in Metrics |-> Exactly(p[i][m].center + off[i][m])]] :
        off \in {f \in [DOMAIN p -> [Metrics -> -Widest(p) .. Widest(p)]] :
                    \A i \in DOMAIN p : \A m \in Metrics : Abs(f[i][m]) <= p[i][m].radius}}

\* The limits, for exact positions; the spread of the losses apart.
WithinLimits(q) ==
    /\ PathReasons(q) = {}
    /\ \A x \in EndReasons(q) : x = <<"distributed">>

-----------------------------------------------------------------------------
(* Properties. *)

TypeOK ==
    /\ Len(path) \in 1 .. Len(Checkpoints)
    /\ \A i \in DOMAIN path : path[i].estimates \in Estimates

\* A trajectory found compatible keeps its limits (steps, tortuosity, waste,
\* efficiency, every loss and their sum) wherever in the observed envelopes its
\* points really are (evaluate_petfc).
CompatibleIsConservative ==
    Disposition(path) = "compatible" => \A q \in Exact(Path(path)) : WithinLimits(q)

\* A proven violation at any checkpoint is never forgotten: no later report
\* makes the trajectory compatible.
ViolationSticks ==
    [][HardReasons(path) # {} => Disposition(path') # "compatible"]_path

=============================================================================
