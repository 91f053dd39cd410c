------------------------------ MODULE MCEvidence ------------------------------
(***************************************************************************)
(* What evidence is made of.  Observations are gathered into a report, and     *)
(* trajectories of two and three checkpoints have estimates that are            *)
(* envelopes, over every small input; checkpoints, adapters and deltas are read  *)
(* while others rewrite them; a candidate is tried on cases that were committed  *)
(* to, by a program that runs isolated.  A behaviour is about one of them.       *)
(***************************************************************************)
EXTENDS CheckpointActuation, Integers

CONSTANTS
    Petfc, Estimates, Contractual, Rows, Policy, Contract, NoContract, Callers, NonFinite,
    Reveals, Maps, Runners, Faithful, Allowances,  \* TerminalChallenge
    Sandboxed, Chunk, MaxPrinted                   \* IsolatedExecution

VARIABLES
    part, rows, path,
    kept, said, retained, call, fallen,
    request, monitor, child, printed, reader, claimed, overflow, late, result

checkpoints == <<disk, rewrites, store, records, admitted, job, deaths, outputs, confirmed>>
challenges == <<kept, said, retained, call, fallen>>
sandbox == <<request, monitor, child, printed, reader, claimed, overflow, late, result>>
trials == <<challenges, sandbox>>
vars == <<part, rows, path, checkpoints, trials>>

-----------------------------------------------------------------------------
TwoMetrics == {"score", "delay"}
Contracts == [m \in TwoMetrics |-> IF m = "delay" THEN [min |-> None, max |-> 4] ELSE None]
Limits == [minimumReports |-> 2, maximumReports |-> 3, step |-> 4,
           tortuosity |-> 300, waste |-> 70, efficiency |-> 10,
           degradation |-> [m \in TwoMetrics |-> 2], sum |-> 3, degraded |-> 0,
           distributed |-> 150, pathPenalty |-> 0, conservationPenalty |-> 0,
           tortuosityPenalty |-> 0, utility |-> -9]

Envelopes(centers, radii) == [center : centers, radius : radii]
Of(effect, cand) ==
    [groups |-> 2, base |-> [center |-> 3, radius |-> 0], cand |-> cand, effect |-> effect]
Safe == [center |-> 3, radius |-> 0]

\* Any two effects, under values nobody doubts.
AnyEstimates ==
    {[m \in TwoMetrics |-> IF m = "score" THEN Of(x, Safe) ELSE Of(y, Safe)] :
        x \in Envelopes({1, 2, 4}, {0, 1}), y \in Envelopes({-1, 0, 1}, {0, 1})}

\* Values that keep, break or may break the contract.
ContractEstimates ==
    {[m \in TwoMetrics |-> IF m = "score" THEN Of(x, Safe) ELSE Of([center |-> 0, radius |-> 0], z)] :
        x \in Envelopes({2, 4, 6}, {0}),
        z \in {Safe, [center |-> 3, radius |-> 2], [center |-> 6, radius |-> 1]}}

\* Every observation over three pairs, three groups and three evidence ids.
AllRows ==
    {[metric |-> "score", base |-> 0, cand |-> x,
      unit |-> [pair |-> p, group |-> g, evidence |-> e, start |-> 1, end |-> 1]] :
        p \in 1 .. 3, g \in 1 .. 3, e \in 1 .. 3, x \in {0, 1, 5}}
NoneAgreed == [m \in {"score"} |-> None]
AtMostThree == [minimum |-> 2, blocks |-> 2, maximum |-> 3]

-----------------------------------------------------------------------------
Paired == INSTANCE PairedRows WITH
    Metrics <- {"score"}, Higher <- {"score"}, Contract <- NoContract

Enclosed == INSTANCE PetfcPath WITH
    Metrics <- TwoMetrics, Higher <- {"score"}, Quality <- "score", Spread <- 2,
    Weight <- [m \in TwoMetrics |-> 1], Checkpoints <- <<"a", "b">>

Contracted == INSTANCE PetfcPath WITH
    Metrics <- TwoMetrics, Higher <- {"score"}, Quality <- "score", Spread <- 2,
    Weight <- [m \in TwoMetrics |-> 1], Checkpoints <- <<"a", "b", "c">>,
    Estimates <- Contractual

ASSUME Instances == Paired!PolicyAssumption /\ Enclosed!PetfcAssumption

\* The files that an operation reads, and the processes that run it.
Reads == [normalize |-> {"index", "shard1", "shard2"}, readout |-> {"base"},
          combine |-> {"delta1", "delta2"}, lora |-> {"base", "adapter", "config"},
          profile |-> {"base", "config"}, actuation |-> {"base", "delta"}]
Running == {p \in Procs : part = "actuation" \/ \A q \in Procs \ {p} : job[q] = Idle}

Layout == [index |-> <<"map">>, shard1 |-> <<"u">>, shard2 |-> <<"v", "w">>,
           base |-> <<"u", "w">>, adapter |-> <<"a", "b">>, config |-> <<"c">>,
           delta |-> <<"d">>, delta1 |-> <<"d1", "d2">>, delta2 |-> <<"e1", "e2">>]
Indexes == <<[u |-> "shard1", v |-> "shard2", w |-> "shard2"],
             [u |-> "shard2", v |-> "shard2", w |-> "shard2"]>>
Base(v) == [t \in {"u", "w"} |-> v]
Asked == {[base |-> Base(v), output |-> "x", planned |-> planned] :
             v \in {1, 2}, planned \in BOOLEAN}
Presented == {[kind |-> "output", base |-> Base(2), output |-> "x", content |-> Made(Base(v))] :
                 v \in {1, 2}}

\* Two labels and orders of one suite; maps that are right, wrong, and overflow.
Case(x, y) == [input |-> x, output |-> y]
BothWays == {[label |-> "x", cases |-> <<Case("a", 1), Case("b", 2)>>],
             [label |-> "y", cases |-> <<Case("b", 2), Case("a", 1)>>]}
Discoverable == {[gives |-> [a |-> 1, b |-> z]] : z \in {2, NonFinite}}

Challenge == INSTANCE TerminalChallenge WITH Limits <- Allowances, deaths <- fallen

\* One good request under two budgets, and one that fails each check.
Fine == [space |-> 2, requires |-> {}, program |-> 1, input |-> 1, staging |-> 2,
         arguments |-> TRUE, output |-> 2]
RequestsMade ==
    {Fine, [Fine EXCEPT !.output = 1], [Fine EXCEPT !.space = 1],
     [Fine EXCEPT !.requires = {"seccomp"}], [Fine EXCEPT !.program = 0],
     [Fine EXCEPT !.staging = 1], [Fine EXCEPT !.arguments = FALSE]}

Sandbox == INSTANCE IsolatedExecution WITH Requests <- Sandboxed

ASSUME Trials == Challenge!ChallengeAssumption /\ Sandbox!IsolatedAssumption

Alike == Permutations(Procs) \union Permutations(Callers)

-----------------------------------------------------------------------------
Init ==
    /\ part \in {"rows", "envelope", "contract", "challenge", "isolated"} \union DOMAIN Reads
    /\ Challenge!ChallengeInit
    /\ Sandbox!IsolatedInit
    /\ part # "isolated" => request = CHOOSE q \in Sandboxed : TRUE
    /\ Paired!Init
    /\ CASE part = "envelope" -> Enclosed!Init
         [] part = "contract" -> Contracted!Init
         [] OTHER -> path = <<>>
    /\ ActuationInit

Gather == part = "rows" /\ Paired!Gather /\ UNCHANGED <<part, path, checkpoints, trials>>

Approach == part = "envelope" /\ Enclosed!Extend /\ UNCHANGED <<part, rows, checkpoints, trials>>

Continue == part = "contract" /\ Contracted!Extend /\ UNCHANGED <<part, rows, checkpoints, trials>>

\* Checkpoints, adapters and deltas are read.
Work ==
    /\ \E p \in Running :
           \/ /\ \/ part = "normalize" /\ Normalize(p)
                 \/ part = "readout" /\ InspectReadout(p)
                 \/ part = "combine" /\ Combine(p)
                 \/ part = "lora" /\ (ImportLora(p) \/ AuthenticateAxis(p))
              /\ UNCHANGED <<outputs, confirmed>>
           \/ part = "profile" /\ Profile(p)
           \/ part = "actuation" /\ Actuate(p)
    /\ UNCHANGED <<part, rows, path, disk, rewrites, deaths, trials>>

Disturb ==
    /\ part \in DOMAIN Reads
    /\ \/ \E f \in Reads[part] : \E t \in PartsOf(f), v \in Versions : Rewrite(f, t, v)
       \/ \E p \in Running : Die(p)
    /\ UNCHANGED <<part, rows, path, outputs, confirmed, trials>>

\* A candidate is tried on committed cases.
Try ==
    /\ part = "challenge" /\ Challenge!ChallengeNext
    /\ UNCHANGED <<part, rows, path, checkpoints, sandbox>>

\* A program runs isolated.
Isolate ==
    /\ part = "isolated" /\ Sandbox!IsolatedNext
    /\ UNCHANGED <<part, rows, path, checkpoints, challenges>>

Next == Gather \/ Approach \/ Continue \/ Work \/ Disturb \/ Try \/ Isolate

Spec == Init /\ [][Next]_vars

-----------------------------------------------------------------------------
\* An accepted report counts no observation for two groups and its envelope
\* reaches every group, and a compatible trajectory keeps its limits wherever its
\* points really are (portfolio_governance.rs).
EstimatesSound ==
    /\ Paired!OneGroupPerEvidence /\ Paired!EnvelopeCoversGroups
    /\ part = "envelope" => Enclosed!TypeOK /\ Enclosed!CompatibleIsConservative
    /\ part = "contract" => Contracted!TypeOK

\* A violation proven at a checkpoint is never forgotten.
ViolationSticks ==
    [][part = "contract" /\ Contracted!HardReasons(path) # {} =>
          Contracted!Disposition(path') # "compatible"]_vars

\* What is said of a file is true of what was made of it, and an axis is the
\* delta of the adapter that it names, unless it was restored meanwhile.
ImportsSound == MadeOfWhatIsNamed /\ AxesAreExact /\ ProfilesAgree

\* What is installed is exactly what was asked for, and receipts tell the truth
\* about it.
OutputsSound == OutputsAreExact /\ ReceiptsAreTrue

\* A candidate is bound to its cases before anybody sees them, and has one verdict.
ChallengeSound == Challenge!CandidatesBlind /\ Challenge!OneVerdict

\* What is reported of an isolated program is the whole truth, within the budget.
IsolationSound == Sandbox!ReportIsTrue /\ Sandbox!NothingLeft
=============================================================================
