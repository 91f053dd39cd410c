------------------------------- MODULE MCMemory -------------------------------
(***************************************************************************)
(* The procedural memory and those who write and ask it.  A behaviour is      *)
(* about one part, and the others stay at rest:                               *)
(*   advice      one configuration that succeeds and fails at four revisions  *)
(*   records     corrections, rejections and relabelled reports in two        *)
(*               lineages, up to the capacity                                 *)
(*   evolution   the engine on two problems with four sets of proposals       *)
(*   similarity  pairs of problems, and one measurement after the other       *)
(*               forgotten                                                    *)
(*   portfolio   small problems under wide and narrow policies, solved with    *)
(*               proposals in every order                                     *)
(***************************************************************************)
EXTENDS SolverApplicability, FiniteSets, SequencesExt, TLC

CONSTANTS
    AdviceContents, RecordContents, OneProblem, BothProblems, Likeness, Solve, Judge,
    Tasks, Offers, Generous, Digests

VARIABLES
    part, memory, incumbent, trajectory, lineages, trials, revision, left, right, task, offered

engine == <<incumbent, trajectory, lineages, trials, revision>>
asked == <<task, offered>>
vars == <<part, memory, engine, left, right, asked>>

-----------------------------------------------------------------------------
(* What the reports on two candidates say. *)

Low(r) == [family |-> "low rank", rank |-> r]

Report(r, c, d, e, g) ==
    [kind |-> "research", report |-> r, candidate |-> c, design |-> d, evaluator |-> e,
     groups |-> g]

Content(problem, candidate, configuration, evidence, status) ==
    [scope |-> "scope", policy |-> "policy", problem |-> problem, candidate |-> candidate,
     configuration |-> configuration, evidence |-> evidence, status |-> status,
     severity |-> IF status = "rejected" THEN "serious" ELSE None,
     utility |-> IF status = "validated" THEN 60 ELSE 0,
     correction |-> None, applied |-> None]

Success == Content("p1", "k1", Low(1), Report("r1", "k1", "d1", "e1", 4), "validated")
Failure == Content("p1", "k1", Low(1), Report("r2", "k1", "d1", "e1", 4), "rejected")
Elsewhere == [Failure EXCEPT !.evidence = Report("r3", "k1", "d2", "e1", 1)]
Fresh == [Success EXCEPT !.evidence = Report("r4", "k1", "d1", "e1", 4), !.problem = "p2"]
Proposal ==
    [Content("p1", "k2", Low(1), Report("r5", "k2", "d1", "e1", 4), "rejected") EXCEPT
        !.correction = [kind |-> "increase rank", status |-> "proposed"]]
Corrected ==
    [Content("p1", "k3", Low(2), Report("r6", "k3", "d1", "e1", 4), "validated") EXCEPT
        !.applied = "increase rank",
        !.correction = [kind |-> "increase rank", status |-> "independently validated"]]
Refused == Content("p1", "k4", Low(1), [kind |-> "rejection", receipt |-> "x1"], "rejected")
Undecided == [Content("p1", "k4", Low(2), None, "inconclusive") EXCEPT !.severity = None]
Relabelled == [Success EXCEPT !.problem = "p2"]
Regrouped == [Failure EXCEPT !.evidence = Report("r7", "k1", "d1", "e1", 3)]

Advising == {Success, Failure, Elsewhere, Fresh}
Correcting == {Proposal, Corrected, Refused, Undecided, Success, Relabelled, Regrouped}

OneFailure == {[isolation |-> <<"scope", "policy">>, problem |-> "p1"]}
TwoFailures == {[isolation |-> <<"scope", "policy">>, problem |-> p] : p \in {"p1", "p2"}}

Alike == [pair \in {"p1", "p2"} \X {"p1", "p2"} |-> 70]

-----------------------------------------------------------------------------
(* Candidates the portfolio accepts, of its own and from outside, one it     *)
(* rejects, a run without a candidate or without a verdict, and one that      *)
(* finds the incumbent again.                                                 *)

Solved(result, candidate, backend) ==
    [result |-> result, candidate |-> candidate, backend |-> backend]

SolveTable ==
    [x \in {"p1", "p2"} \X {"none", "refused", "outside", "other"} |->
        CASE x = <<"p2", "refused">> -> Solved("materialized", "k8", "external")
          [] x[2] = "refused" -> Solved("rejection", "k9", "external")
          [] x = <<"p1", "none">> -> Solved("accepted", "k1", "built in")
          [] x = <<"p2", "none">> -> Solved("accepted", "k2", "built in")
          [] x = <<"p1", "outside">> -> Solved("accepted", "k3", "external")
          [] x = <<"p2", "outside">> -> Solved("accepted", "k1", "external")
          [] x = <<"p1", "other">> -> Solved("accepted", "b1", "built in")
          [] x = <<"p2", "other">> -> Solved("failure", None, "built in")]
Verdicts == [x \in {"k1", "k2", "k3", "b1"} \X {"s1", "s2"} |->
    CASE x[1] = "k1" -> "advance" [] x[1] = "k2" -> "hard" [] x[1] = "k3" -> "advance"
      [] OTHER -> "unknown"]

-----------------------------------------------------------------------------
(* Problems to compare. *)

Compared ==
    {x \in [rows : {4}, columns : {2, 4}, rank : {None, 0, 2}, blocks : {0},
            observed : [Statistics -> {None, 0, 40}], precision : {"double"},
            structure : {"dense", "sparse"}, semantics : {"tensor"}] :
        /\ ValidApplicability(x)
        /\ x.observed["outliers"] = x.observed["noise"]
        /\ x.observed["condition"] \in {None, 0}
        /\ x.observed["sparsity"] \in {None, 40}}

-----------------------------------------------------------------------------
(* Problems to solve, small enough to see what every candidate is worth: one   *)
(* case, two of full rank, one with three outputs, one of zeros, one on which  *)
(* the sweeps do not suffice, and one that no candidate solves.                *)

Part(value, case, input) == [value |-> value, case |-> case, input |-> input]

Single ==
    [inputs |-> <<<<1, 0>>>>, targets |-> <<<<1>>>>, sweeps |-> 1, ridge |-> None,
     single |-> TRUE, components |-> <<Part(1, <<1>>, <<1, 0>>)>>]
Square ==
    [inputs |-> <<<<1, 0>>, <<0, 2>>>>, targets |-> <<<<1>>, <<2>>>>, sweeps |-> 1,
     single |-> TRUE,
     ridge |-> [kind |-> "low rank", rows |-> 1, columns |-> 2, rank |-> 2,
                left |-> <<1, 1>>, right |-> <<1, 0, 0, 1>>],
     components |-> <<Part(1, <<1, 0>>, <<1, 0>>), Part(2, <<0, 1>>, <<0, 1>>)>>]
Failing == [Square EXCEPT !.ridge = None]
Wide ==
    [Single EXCEPT !.inputs = <<<<1, 0, 0>>>>, !.targets = <<<<1, 1, 0>>>>,
        !.components = <<Part(1, <<1>>, <<1, 0, 0>>)>>]
Zeros == [Single EXCEPT !.inputs = <<<<0, 0>>>>, !.components = <<Part(0, <<1>>, <<0, 0>>)>>]
Turning == [Square EXCEPT !.sweeps = 9]
Contradictory ==
    [Square EXCEPT !.inputs = <<<<1, 0>>, <<0, 2>>, <<0, 0>>>>,
        !.targets = <<<<1>>, <<2>>, <<1>>>>,
        !.components = <<Part(1, <<1, 0, 0>>, <<1, 0>>), Part(2, <<0, 1, 0>>, <<0, 1>>)>>]

Solvable == {Single, Square, Failing, Wide, Zeros, Turning, Contradictory}

Matrix(rows, columns, weights) ==
    [kind |-> "dense", rows |-> rows, columns |-> columns, weights |-> weights]
Sparse(rows, columns, entries) ==
    [kind |-> "sparse", rows |-> rows, columns |-> columns, entries |-> entries]
Blocks(rows, columns, blocks) ==
    [kind |-> "block", rows |-> rows, columns |-> columns, blocks |-> blocks]
Block(at, rows, columns, values) ==
    [at |-> at, rows |-> rows, columns |-> columns, values |-> values]

Proposed(c) == [payload |-> "candidate", candidate |-> c]
Said(what) == [payload |-> what]

Narrow ==
    <<Proposed(Matrix(1, 2, <<1, 1>>)), Proposed(Sparse(1, 2, <<<<1, 1, 1>>>>)),
      Proposed(Sparse(1, 2, <<<<1, 2, 1>>, <<1, 1, 1>>>>)),
      Proposed(Blocks(1, 2, <<Block(<<1, 1>>, 1, 2, <<1, 0>>)>>)),
      Proposed(Sparse(1, 2, <<<<1, 1, 3>>>>)), Said("unknown")>>
Broad ==
    <<Proposed(Sparse(3, 3, <<<<1, 1, 1>>, <<2, 1, 1>>>>)),
      Proposed(Blocks(3, 3, <<Block(<<1, 1>>, 2, 1, <<1, 1>>)>>)),
      Proposed(Blocks(3, 3, <<Block(<<1, 1>>, 2, 2, <<1, 0, 1, 0>>),
                              Block(<<2, 2>>, 1, 1, <<1>>)>>)),
      Proposed([kind |-> "low rank", rows |-> 3, columns |-> 3, rank |-> 1,
                left |-> <<1, 1, 0>>, right |-> <<1, 0, 0>>]),
      Proposed(Matrix(1, 2, <<1, 1>>)), Said("not applicable")>>

OffersTable == [p \in Solvable |-> IF p = Wide THEN Broad ELSE Narrow]

\* By size, so that the order of the digests is none of the others.
DigestTable ==
    LET own == {Matrix(1, 2, <<m, n>>) : m, n \in 0 .. 2} \union
               {[kind |-> "low rank", rows |-> 1, columns |-> 2, rank |-> 1,
                 left |-> <<n>>, right |-> r] : n \in 1 .. 2, r \in {<<1, 0>>, <<0, 1>>}}
        foreign == {p.candidate : p \in {x \in Range(Narrow \o Broad) : x.payload = "candidate"}}
    IN  FoldSet(LAMBDA c, s : Append(s, c), <<>>, own \union foreign)

Plain ==
    [cases |-> 4, inputs |-> 4, outputs |-> 4, magnitude |-> 8, working |-> 64,
     parameters |-> 18, externals |-> 3, work |-> 9000, minimum |-> 1, maximum |-> 3,
     energy |-> 100, tolerance |-> 0, condition |-> 4, relative |-> 1, absolute |-> 0,
     sweeps |-> 2]

PolicySet ==
    {Plain, [Plain EXCEPT !.parameters = 3], [Plain EXCEPT !.externals = 1],
     [Plain EXCEPT !.work = 200], [Plain EXCEPT !.work = 20],
     [Plain EXCEPT !.maximum = 1, !.energy = 80],
     [Plain EXCEPT !.energy = 80, !.condition = 1], [Plain EXCEPT !.relative = 100000],
     [Plain EXCEPT !.cases = 1], [Plain EXCEPT !.minimum = 2, !.absolute = 1]}

Unlimited ==
    [q \in PolicySet |->
        [q EXCEPT !.cases = 9, !.parameters = 64, !.externals = 9, !.work = 90000,
                   !.maximum = 3, !.sweeps = 9]]

TaskSet == [problem : Solvable, policy : PolicySet]

-----------------------------------------------------------------------------
Advice == INSTANCE ProceduralMemory WITH
    Contents <- AdviceContents, FailureContents <- OneProblem, RunReceipts <- {"x1"},
    Lineages <- {1, 2}, LastRevision <- 4, MaxAttempts <- 3, MaxFailures <- 1, MaxDrifts <- 2

Records == INSTANCE ProceduralMemory WITH
    Contents <- RecordContents, FailureContents <- BothProblems, RunReceipts <- {"x1"},
    Lineages <- {1, 2}, LastRevision <- 2, MaxAttempts <- 3, MaxFailures <- 1, MaxDrifts <- 1

Evolution == INSTANCE NumericalEvolution WITH
    Problems <- {"p1", "p2"}, Proposals <- {"none", "refused", "outside", "other"},
    Suites <- {"s1", "s2"}, Checkpoints <- {"b1", "b2"}, MaxPoints <- 2, LastRevision <- 5,
    MaxAttempts <- 5, MaxFailures <- 1, MaxDrifts <- 1

Portfolio == INSTANCE SolverPortfolio WITH
    MaxOffers <- 3, Largest <- 1000, MaxDense <- 64, MaxLowRank <- 2

ASSUME Instances ==
    /\ Advice!RecordLimits /\ Advice!MemoryAssumption
    /\ Records!RecordLimits /\ Records!MemoryAssumption
    /\ Evolution!RecordLimits /\ Evolution!EvolutionAssumption
    /\ LimitsAssumption
    /\ Portfolio!PortfolioAssumption

\* x with one of its measurements gone.
Forgotten(x) ==
    {[x EXCEPT !.observed[s] = None] : s \in Statistics} \union {[x EXCEPT !.rank = None]}

Init ==
    /\ part \in {"advice", "records", "evolution", "similarity", "portfolio"}
    /\ Evolution!Init
    /\ IF part = "similarity"
       THEN /\ left \in {x \in Compared : x.columns = 4 /\ x.structure = "dense" /\ x.rank # 2}
            /\ right \in Compared
       ELSE left = None /\ right = None
    /\ IF part = "portfolio" THEN Portfolio!PortfolioInit ELSE task = None /\ offered = <<>>

Advise == part = "advice" /\ Advice!Next /\ UNCHANGED <<part, engine, left, right, asked>>

Record == part = "records" /\ Records!Next /\ UNCHANGED <<part, engine, left, right, asked>>

Evolve == part = "evolution" /\ Evolution!Next /\ UNCHANGED <<part, left, right, asked>>

ForgetLeft ==
    /\ part = "similarity"
    /\ left' \in Forgotten(left)
    /\ UNCHANGED <<part, memory, engine, right, asked>>

ForgetRight ==
    /\ part = "similarity"
    /\ right' \in Forgotten(right)
    /\ UNCHANGED <<part, memory, engine, left, asked>>

Propose == part = "portfolio" /\ Portfolio!Offer /\ UNCHANGED <<part, memory, engine, left, right>>

Next == Advise \/ Record \/ Evolve \/ ForgetLeft \/ ForgetRight \/ Propose

Spec == Init /\ [][Next]_vars

-----------------------------------------------------------------------------
\* Advice never rests on a report that a functional change has overtaken, and
\* what is put first has no failure that was not followed by a success.
AdviceSound ==
    part = "advice" =>
        Advice!TypeOK /\ Advice!StaleStaysStale /\ Advice!PrioritizedIsUnrefuted

\* A report or a rejection is held once and counts for one outcome, in one
\* unbroken chain per lineage; what was taken in is acknowledged when it comes
\* again, and the memory can be put together again from what it holds.
\* Trajectory, trials and memory hold the same evaluations, repeating a
\* deterministic run is no fresh evidence, and a success is learned only from
\* code that is known, within the invariants.
ExperienceSound ==
    /\ part = "records" =>
           /\ Records!TypeOK
           /\ Records!OneEvidenceOneAttempt
           /\ Records!LineageIsChain
           /\ Records!ReplayIsAcknowledged
           /\ Records!RebuildKeeps
    /\ part = "evolution" =>
           /\ Evolution!TypeOK
           /\ Evolution!EvidenceAgrees
           /\ Evolution!NoFreshEvidenceByRepeating
           /\ Evolution!SuccessIsEarned

\* The portfolio's answer does not depend on the order of the proposals, narrow
\* limits hide it and never turn it, and proposals from outside can only improve
\* what is accepted.
PortfolioSound ==
    part = "portfolio" =>
        /\ Portfolio!PortfolioTypeOK
        /\ Portfolio!OrderIsIrrelevant
        /\ Portfolio!LimitsOnlyHide
        /\ Portfolio!ProposalsOnlyHelp

\* "Exact sealed lineage identity. Callers use this value when advancing a
\* chain" (procedural_memory.rs:1679): the head of a lineage is held.
LineageHeadStored == Evolution!LineageHeadStored

\* A measurement that is missing is no match (the comment on the result of
\* applicability_similarity), and never to anybody's advantage: two problems
\* look exactly alike only if everything about both was measured, which of them
\* is the query makes no difference, and whoever measures less is never more
\* alike for it, so that leaving out a diagnostic cannot bring experience over
\* that the full record would not.
LikenessMeasured ==
    [][part = "similarity" =>
          LET likeness == Similarity(left, right)
          IN  /\ Similarity(left', right') <= likeness
              /\ Similarity(right, left) = likeness
              /\ likeness = 100 =>
                     \A x \in {left, right} :
                         x.rank # None /\ \A s \in Statistics : x.observed[s] # None]_vars
=============================================================================
