----------------------------- MODULE MCKnowledge -----------------------------
(***************************************************************************)
(* The knowledge engine on small contracts.  A behaviour is about one part:  *)
(*   race     two workers, who may die, on inquiries of one or two traces    *)
(*   rivals   two rivals tested by two causal interventions                  *)
(*   closure  the closure of a dependency among five nodes                   *)
(*   ends     every method, with callers that go on                          *)
(*   budget   the plan of the trials of some candidates                      *)
(***************************************************************************)
EXTENDS KnowledgeEngine

CONSTANTS
    p, q, good, bad, odd, w1, w2,
    Candidates, Plans                          \* AdaptiveBudget

VARIABLES
    part,
    plan, phase, allocations, consumed         \* AdaptiveBudget

budget == <<plan, phase, allocations, consumed>>
parts == <<part, vars, budget>>

-----------------------------------------------------------------------------
(* Contracts, and who may open which of them and work at it. *)

Opened ==
    [race |-> {"trace", "traces"}, rivals |-> {"rivals", "costly trace"},
     closure |-> {"closure"}, ends |-> {"methods", "long traces"}]
AtWork ==
    [race |-> {w1, w2}, rivals |-> {w1}, closure |-> {w1}, ends |-> {w1}]
Small == UNION {Opened[x] : x \in DOMAIN Opened}
OfferedContracts == Small
TwoWorkers == {w1, w2}

Test(claim, method, meets) ==
    [claim |-> claim, method |-> method, meets |-> meets, predicts |-> <<>>,
     node |-> None]

Predicting(claim, method, meets) ==
    [Test(claim, method, meets) EXCEPT
        !.predicts = p :> {good, odd} @@ q :> {bad, odd}]

Root(n) == [Test(<<"closure of", n>>, "closure", {good}) EXCEPT !.node = n]

Within(actions, cost, nodes, edges, depth) ==
    [actions |-> actions, cost |-> cost, nodes |-> nodes, edges |-> edges,
     depth |-> depth, evidence |-> actions]

Contract(families, duties, within) ==
    [families |-> families, duties |-> duties, budget |-> within]

Trace == 1 :> Test("c", "trace", {good})
Traces == Trace @@ 2 :> Test("c", "trace", {good})
Interventions ==
    1 :> Predicting("c", "causal", {good, bad, odd})
        @@ 2 :> Predicting("d", "causal", {good, odd})
EveryMethod ==
    1 :> Predicting("c", "counterexample", {good})
        @@ 2 :> Test("c", "scenario", {good})
        @@ 3 :> Test("d", "formal", {good})

Table ==
    "trace" :> Contract({}, Trace, Within(3, 6, 1, 1, 1))
        @@ "traces" :> Contract({}, Traces, Within(3, 6, 1, 1, 1))
        @@ "rivals" :> Contract({{p, q}}, Interventions, Within(3, 20, 1, 1, 1))
        @@ "costly trace" :> Contract({}, Trace, Within(3, 20, 1, 1, 1))
        @@ "closure" :> Contract({}, 2 :> Root(1), Within(4, 12, 4, 6, 2))
        @@ "methods" :> Contract({{p, q}}, EveryMethod, Within(3, 40, 1, 1, 1))
        @@ "long traces" :> Contract({}, Traces, Within(3, 40, 1, 1, 1))

\* TLC evaluates a definition that stands for a constant once only if it names
\* another definition: hence Contents, Seeing and Files.
Contents == Table

Schema ==
    [c \in Small |-> IF c \in Opened.rivals THEN {good, bad, odd} ELSE {good, bad}]
Seeing == Schema
Stored ==
    [c \in Small |->
        1 .. IF c \in Opened.ends THEN 4 ELSE IF c \in Opened.closure THEN 2 ELSE 1]
Files == Stored
FiveNodes == 1 .. 5
GoodOnly == {good}
DutyOf == [n \in FiveNodes |-> n + 3]
\* The release build verifies no dependency closure.
WithClosureVerifier == Methods \ {"formal"}

\* Every call for two candidates with small costs and limits.
Two == {1, 2}
Calls ==
    [cost : [Two -> {1, 2}], most : [Two -> 1 .. 3],
     total : {5, 7}, reserve : {1, 2}, least : 1 .. 2, trials : {3, 5}]
Legal == {x \in Calls : \A c \in Two : x.most[c] >= x.least}
AnyCall == CHOOSE x \in Plans : TRUE

Planning == INSTANCE AdaptiveBudget

ASSUME Instances == Planning!PlansAssumption

-----------------------------------------------------------------------------
PartsInit ==
    /\ part \in DOMAIN Opened \union {"budget"}
    /\ Init
    /\ Planning!Init
    /\ part # "budget" => plan = AnyCall

Call(Opens(_)) ==
    /\ part \in DOMAIN Opened
    /\ \E c \in Opened[part] \intersect Contracts : Opens(c)
    /\ UNCHANGED <<part, budget>>

Work ==
    /\ part \in DOMAIN Opened
    /\ \E w \in AtWork[part] \intersect Workers :
           Step(w) \/ (part # "closure" /\ (CommitUnreported(w) \/ Crash(w)))
    /\ UNCHANGED <<part, budget>>

Allocate == part = "budget" /\ Planning!Next /\ UNCHANGED <<part, vars>>

PartsNext == Call(PersistGenesis) \/ Call(EstablishGenesis) \/ Work \/ Allocate

\* The fairness of KnowledgeEngine and of AdaptiveBudget, of two parts only.
PartsSpec ==
    /\ PartsInit /\ [][PartsNext]_parts
    /\ WF_parts(part = "ends" /\ Call(PersistGenesis))
    /\ WF_parts(part = "ends" /\ Call(EstablishGenesis))
    /\ WF_parts(part = "ends" /\ Step(w1) /\ UNCHANGED <<part, budget>>)
    /\ WF_parts(Allocate)

-----------------------------------------------------------------------------
\* What the engine confirmed holds up: a confirmed commit stays in the canonical
\* lineage whoever else races for it, advance accepts every receipt that execute
\* issued, and a complete inquiry has one rival left that agrees with everything
\* observed and has followed every edge it was shown.
ClaimsHoldUp ==
    /\ TypeOK
    /\ ConfirmedStays
    /\ IssuedReceiptsApply
    /\ CompleteMeansObserved
    /\ CompleteMeansClosed

\* The canonical lineage only grows and never forks, and a terminal head stays
\* where it is.
HistoryOnlyGrows ==
    [][head # Absent =>
          /\ \E r \in receipts : head' = Advance(head, r)
          /\ Terminal(head) = None]_head

\* The reserve kept for the holdout is never touched, nobody is a whole round
\* ahead of another, and a finished plan covers everybody and leaves nothing
\* that one more trial could have used.
BudgetWellSpent ==
    /\ Planning!TypeOK
    /\ Planning!ReserveUntouched /\ Planning!EverybodyCovered /\ Planning!NothingLeftOver

\* With callers that go on, an inquiry ends, and its end is permanent; every call
\* for a plan is answered.
EveryCallEnds ==
    /\ part = "ends" => InquiryEnds
    /\ part = "budget" => <>(phase \in {"planned", "refused"})
=============================================================================
