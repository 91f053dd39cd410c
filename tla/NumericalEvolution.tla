--------------------------- MODULE NumericalEvolution ---------------------------
(***************************************************************************)
(* The engine that solves, evaluates and remembers (src/src/                 *)
(* numerical_evolution.rs): NumericalEvolutionEngine over the procedural     *)
(* memory of ProceduralRecords.  The portfolio is deterministic, so what it  *)
(* makes of a problem and the proposals is a constant; so is what a suite    *)
(* of holdout problems shows of a candidate.                                 *)
(***************************************************************************)
EXTENDS ProceduralRecords

CONSTANTS
    Problems, Proposals, Suites, Checkpoints,
    Solve,          \* [Problems \X Proposals -> [result, candidate, backend]]
    Judge,          \* [<<candidate, suite>> -> what the gate says]
    MaxPoints,      \* MAX_TRAJECTORY_POINTS and the petfc policy's reports
    LastRevision    \* bound on the revisions

EvolutionAssumption ==
    /\ MaxPoints \in Nat \ {0} /\ LastRevision \in Nat \ {0}
    /\ None \notin Checkpoints
    /\ \A p \in Problems, x \in Proposals :
           Solve[p, x].result \in {"accepted", "rejection", "materialized", "failure"}

VARIABLES
    memory,         \* procedural_memory
    incumbent,      \* incumbent_id
    trajectory,     \* research_trajectory: its reports, in order
    lineages,       \* [Problems -> the head of its lineage, or None]
    trials,         \* known_research_trials
    revision        \* last_revision

vars == <<memory, incumbent, trajectory, lineages, trials, revision>>

Heads == {p \in Problems : lineages[p] # None}

Init ==
    /\ memory = Empty
    /\ incumbent = None
    /\ trajectory = <<>>
    /\ lineages = [p \in Problems |-> None]
    /\ trials = {}
    /\ revision = 0

-----------------------------------------------------------------------------
(* Attempts *)

Backend(backend) ==
    IF backend = "external" THEN [family |-> "external", rank |-> None]
    ELSE [family |-> "svd", rank |-> None]

Content(problem, solved) ==
    [scope |-> "context", policy |-> "policy", problem |-> problem,
     candidate |-> solved.candidate, configuration |-> Backend(solved.backend),
     correction |-> None, applied |-> None, utility |-> 0]

\* attempt_disposition, with the provenance that a success needs.
Status(verdict, backend) ==
    CASE verdict \in {"hard", "reject"} -> "rejected"
      [] verdict = "advance" /\ backend # "external" -> "validated"
      [] OTHER -> "inconclusive"

Severity(verdict) ==
    CASE verdict = "hard" -> "hard" [] verdict = "reject" -> "serious" [] OTHER -> None

\* The report on a candidate: the window is the revision's own.
ReportOn(candidate, suite, baseline, r) ==
    [candidate |-> candidate, suite |-> suite, baseline |-> baseline, revision |-> r]

\* derive_attempt: the evidence is the report, under the suite's design.
Researched(problem, solved, suite, r) ==
    [evidence |-> [kind |-> "research", report |-> ReportOn(solved.candidate, suite, incumbent', r),
                   candidate |-> solved.candidate, design |-> suite, evaluator |-> "policy",
                   groups |-> 2],
     status |-> Status(Judge[solved.candidate, suite], solved.backend),
     severity |-> Severity(Judge[solved.candidate, suite])]
        @@ Content(problem, solved)

\* derive_rejected_candidate_attempt: the receipt is that of the portfolio's
\* report, which is the same whenever the run is.
Refused(problem, proposals, solved) ==
    [evidence |-> [kind |-> "rejection", receipt |-> <<problem, proposals>>],
     status |-> "rejected", severity |-> "serious"]
        @@ Content(problem, solved)

\* derive_attempt_draft: the root of the problem's lineage, or the child of
\* its head.
Drafted(problem, content, r) ==
    LET head == lineages[problem]
    IN [content |-> content, lineage |-> problem, revision |-> r, parent |-> head,
        ordinal |-> IF head = None THEN 0 ELSE head.ordinal + 1]

Taken(attempt) == AnswerToAttempt(memory, attempt) \in {"inserted", "present"}

-----------------------------------------------------------------------------
(* evolve *)

\* What is asked before anything is solved.  The first baseline is the
\* incumbent, and stays it though the run should fail.
Admitted(baseline, r) ==
    /\ r > revision
    /\ incumbent \in {None, baseline}
    /\ incumbent' = baseline

\* An error after that leaves everything else alone.
Fails == UNCHANGED <<memory, trajectory, lineages, trials, revision>>

\* The answer that carries no evidence uses the revision up.
NothingNew(r) ==
    /\ revision' = r
    /\ UNCHANGED <<memory, trajectory, lineages, trials>>

\* A rejected candidate: whether the memory took the attempt or knew it
\* already, the lineage moves on to it.
SolverRejected(problem, proposals, solved, r) ==
    LET attempt == Drafted(problem, Refused(problem, proposals, solved), r)
    IN IF Taken(attempt)
       THEN /\ memory' = RecordAttempt(memory, attempt)
            /\ lineages' = [lineages EXCEPT ![problem] = attempt]
            /\ revision' = r
            /\ UNCHANGED <<trajectory, trials>>
       ELSE Fails

\* derive_solver_run_failure and record_solver_run_failure.
SolverFailed(problem, proposals, r) ==
    LET failure == [content |-> problem, receipt |-> <<problem, proposals>>, revision |-> r]
    IN IF AnswerToFailure(memory, failure) \in {"inserted", "present"}
       THEN /\ memory' = RecordFailure(memory, failure)
            /\ revision' = r
            /\ UNCHANGED <<trajectory, lineages, trials>>
       ELSE Fails

\* research_trial_digest: the problem and the revision are not in it.
Trial(candidate, suite, baseline) == <<baseline, candidate, suite>>

\* PetfcTrajectory::start, append_report and the limit of evaluate_petfc: one
\* design, one baseline, every checkpoint once.
Extends(report) ==
    \/ trajectory = <<>>
    \/ /\ Len(trajectory) < MaxPoints
       /\ report.baseline = trajectory[1].baseline
       /\ report.suite = trajectory[1].suite
       /\ \A i \in DOMAIN trajectory : trajectory[i].candidate # report.candidate

\* A candidate that is accepted and new is evaluated; the report, the attempt
\* and the point of the trajectory are taken together or not at all.
Evaluated(problem, solved, suite, baseline, r) ==
    LET report == ReportOn(solved.candidate, suite, baseline, r)
        attempt == Drafted(problem, Researched(problem, solved, suite, r), r)
    IN IF Extends(report) /\ AnswerToAttempt(memory, attempt) = "inserted"
       THEN /\ memory' = RecordAttempt(memory, attempt)
            /\ lineages' = [lineages EXCEPT ![problem] = attempt]
            /\ trajectory' = Append(trajectory, report)
            /\ trials' = trials \union {Trial(solved.candidate, suite, baseline)}
            /\ revision' = r
       ELSE Fails

\* The incumbent itself, or a trial that was run before.
Known(solved, suite, baseline) ==
    \/ solved.candidate = baseline
    \/ Trial(solved.candidate, suite, baseline) \in trials

Evolve(problem, proposals, suite, baseline, r) ==
    LET solved == Solve[problem, proposals]
    IN /\ Admitted(baseline, r)
       /\ CASE solved.result = "rejection" -> SolverRejected(problem, proposals, solved, r)
            [] solved.result = "materialized" -> NothingNew(r)
            [] solved.result = "failure" -> SolverFailed(problem, proposals, r)
            [] solved.result = "accepted" ->
                   IF Known(solved, suite, baseline) THEN NothingNew(r)
                   ELSE Evaluated(problem, solved, suite, baseline, r)

\* observe_functional_change needs two attempts that are Comparable; a run is
\* never evaluated twice, so that the engine has none to offer it
\* (NoFreshEvidenceByRepeating).
Next ==
    \E problem \in Problems, proposals \in Proposals, suite \in Suites,
       baseline \in Checkpoints, r \in 1 .. LastRevision :
        Evolve(problem, proposals, suite, baseline, r)

Spec == Init /\ [][Next]_vars

-----------------------------------------------------------------------------
TypeOK ==
    /\ incumbent \in Checkpoints \union {None}
    /\ revision \in 0 .. LastRevision
    /\ Len(trajectory) <= MaxPoints
    /\ \A p \in Heads : lineages[p].lineage = p
    /\ \A t \in trials : t[1] \in Checkpoints /\ t[3] \in Suites

ResearchAttempts == {a \in memory.attempts : Research(a.content)}

\* Every report is counted once and everywhere: the points of the trajectory,
\* the trials that are known and the attempts that rest on research are the
\* same evaluations of the same incumbent under the same suite, in the order of
\* their revisions.
EvidenceAgrees ==
    /\ {trajectory[i] : i \in DOMAIN trajectory} =
           {a.content.evidence.report : a \in ResearchAttempts}
    /\ Cardinality(trials) = Len(trajectory)
    /\ \A i \in DOMAIN trajectory :
           /\ trajectory[i].baseline = incumbent /\ trajectory[i].suite = trajectory[1].suite
           /\ Trial(trajectory[i].candidate, trajectory[i].suite, incumbent) \in trials
           /\ i > 1 => trajectory[i - 1].revision < trajectory[i].revision

\* Repeating a deterministic run is no fresh evidence: of one candidate on
\* one suite there is one attempt, on whatever problem and however often it
\* came up, and a rejection is held once.
NoFreshEvidenceByRepeating ==
    \A a, b \in memory.attempts :
        (/\ a.content.candidate = b.content.candidate
         /\ Research(a.content) /\ Research(b.content)
         /\ a.content.evidence.design = b.content.evidence.design)
            \/ (/\ Rejection(a.content) /\ Rejection(b.content)
                /\ a.content.evidence.receipt = b.content.evidence.receipt)
        => a = b

\* A success is learned only from a backend whose code is known, and never
\* while a hard invariant is violated.
SuccessIsEarned ==
    \A a \in memory.attempts : a.content.status = "validated" =>
        /\ Research(a.content)
        /\ a.content.configuration.family # "external"
        /\ Judge[a.content.candidate, a.content.evidence.design] = "advance"

\* "Exact sealed lineage identity. Callers use this value when advancing a
\* chain" (procedural_memory.rs:1679): the head that the next attempt on a
\* problem continues is an attempt the memory holds.
LineageHeadStored == \A p \in Heads : lineages[p] \in memory.attempts

=============================================================================
