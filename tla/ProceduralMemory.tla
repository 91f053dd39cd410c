--------------------------- MODULE ProceduralMemory ---------------------------
(***************************************************************************)
(* The procedural memory in use (src/src/procedural_memory.rs): attempts,    *)
(* run failures and functional changes are recorded one by one, and advice   *)
(* is retrieved from what is held.                                           *)
(***************************************************************************)
EXTENDS ProceduralRecords

CONSTANTS
    Contents,           \* what an attempt may say
    FailureContents,    \* what a run failure may say
    RunReceipts,
    Lineages,           \* a set of naturals
    LastRevision,       \* bound on the revisions
    Likeness            \* [<<problem, problem>> -> 0 .. 100], applicability_similarity

MemoryAssumption ==
    /\ Lineages \subseteq Nat /\ LastRevision \in Nat \ {0}
    /\ \A pair \in DOMAIN Likeness : Likeness[pair] \in 0 .. 100

VARIABLE memory

vars == memory

Revisions == 1 .. LastRevision

Init == memory = Empty

\* SolverAttempt::seal, seal_rejected_candidate and record_attempt.  A parent
\* that is not held is refused, and is left out here.
SubmitAttempt(attempt) == memory' = RecordAttempt(memory, attempt)

SubmitFailure(failure) == memory' = RecordFailure(memory, failure)

\* derive_functional_change, and record_drift.
ObserveChange(before, after) ==
    /\ Comparable(before, after)
    /\ memory' = RecordDrift(memory, Change(memory, before, after))

Next ==
    \/ \E content \in Contents, lineage \in Lineages, revision \in Revisions,
          parent \in {None} \union memory.attempts :
           SubmitAttempt([content |-> content, lineage |-> lineage, parent |-> parent,
                          revision |-> revision,
                          ordinal |-> IF parent = None THEN 0 ELSE parent.ordinal + 1])
    \/ \E content \in FailureContents, receipt \in RunReceipts, revision \in Revisions :
           SubmitFailure([content |-> content, receipt |-> receipt, revision |-> revision])
    \/ \E before, after \in memory.attempts : ObserveChange(before, after)

Spec == Init /\ [][Next]_vars

-----------------------------------------------------------------------------
(* retrieve: a query is [isolation, problem, revision, similarity], where the *)
(* least similarity is None for ExactOnly.  Fractions are in hundredths.      *)

\* Mutant of Stale: only what the drift itself names.
StaleOnlyAtRevision(attempt) ==
    /\ Research(attempt.content)
    /\ \E d \in memory.drifts : d.current = attempt.content.evidence.report

\* A drift of the scope at or after the attempt.
Stale(attempt) ==
    /\ Research(attempt.content)
    /\ InvalidatedThrough(memory, DriftScope(attempt.content)) >= attempt.revision

Exact(attempt, query) == attempt.content.problem = query.problem

SimilarityTo(attempt, query) ==
    IF Exact(attempt, query) THEN 100
    ELSE Likeness[<<attempt.content.problem, query.problem>>]

\* A solver rejection speaks of the exact problem alone.
Eligible(query) ==
    {a \in memory.attempts :
        /\ Isolation(a.content) = query.isolation
        /\ a.revision <= query.revision
        /\ ~Stale(a)
        /\ a.content.configuration.family # "external"
        /\ a.content.status # "inconclusive"
        /\ Rejection(a.content) => Exact(a, query)
        /\ ~Exact(a, query) =>
               query.similarity # None /\ SimilarityTo(a, query) >= query.similarity}

\* The design a contribution counts for: a rejection is one of its own.
DesignOf(a) ==
    IF Research(a.content) THEN <<"design", a.content.evidence.design>>
    ELSE <<"receipt", a.content.evidence.receipt>>

\* One contribution for each design, the newest; equal revisions are decided
\* by digest, of which nothing is known.
Contributions(query, configuration) ==
    LET held == {a \in Eligible(query) : a.content.configuration = configuration}
    IN {CHOOSE a \in held :
            DesignOf(a) = d /\ \A b \in held : DesignOf(b) = d => a.revision >= b.revision :
        d \in {DesignOf(a) : a \in held}}

\* 1 - exp(-groups / 8); half for a rejection by the solver.
Strength(a) ==
    IF Rejection(a.content) THEN 50
    ELSE LET g == a.content.evidence.groups
         IN CASE g = 1 -> 12 [] g = 2 -> 22 [] g = 3 -> 31 [] g = 4 -> 39 [] OTHER -> 63

\* FailureSeverity::penalty
Penalty == [recoverable |-> 55, serious |-> 80, hard |-> 100]

Weight(a, query) == SimilarityTo(a, query) * Strength(a)

Utility(a) ==
    IF a.content.status = "validated" THEN a.content.utility
    ELSE -Penalty[a.content.severity]

SignedEvidence(query, configuration) ==
    LET held == Contributions(query, configuration)
    IN MapThenSumSet(LAMBDA a : Weight(a, query) * Utility(a), held)
           \div MapThenSumSet(LAMBDA a : Weight(a, query), held)

Negative(a) == a.content.status \in {"rejected", "failed"}

Disposition(query, configuration) ==
    LET signed == SignedEvidence(query, configuration)
    IN CASE /\ signed > 15
            /\ \A a \in Contributions(query, configuration) : ~Negative(a) -> "prioritize"
         [] signed < -15 -> "deprioritize"
         [] OTHER -> "observe"

\* Every configuration somebody has experience with is advised about, and
\* none is blocked.
Advised(query) == {a.content.configuration : a \in Eligible(query)}

-----------------------------------------------------------------------------
Queries ==
    [isolation : {Isolation(c) : c \in Contents}, problem : {c.problem : c \in Contents},
     revision : Revisions, similarity : {None, 50}]

TypeOK ==
    /\ \A a \in memory.attempts :
           a.content \in Contents /\ a.lineage \in Lineages /\ a.revision \in Revisions
    /\ Cardinality(memory.attempts) <= MaxAttempts
    /\ Cardinality(memory.failures) <= MaxFailures
    /\ Cardinality(memory.drifts) <= MaxDrifts
    /\ \A s \in DOMAIN memory.invalidated : memory.invalidated[s] \in Revisions

\* "The same exact report cannot become fresh evidence by being replayed
\* later" (attempt_evidence_semantics_equal): however it is wrapped, a report
\* or a rejection is held once, and counts for one outcome.
OneEvidenceOneAttempt ==
    \A a, b \in memory.attempts :
        (/\ a.content.evidence # None /\ b.content.evidence # None
         /\ Receipt(a.content) = Receipt(b.content)) => a = b

\* Advice never rests on a report that a functional change has overtaken, nor
\* on the change's own: no replay at a later revision, and no change derived
\* afterwards from older reports, brings it back.
StaleStaysStale ==
    \A d \in memory.drifts, q \in Queries : \A a \in Eligible(q) :
        Research(a.content) =>
            /\ a.content.evidence.report \notin {d.previous, d.current}
            /\ DriftScope(a.content) = d.scope => a.revision > d.revision

\* A configuration is put first only if every failure of it that applies to
\* the query was followed, in the same design, by a success.
PrioritizedIsUnrefuted ==
    \A q \in Queries : \A c \in Advised(q) :
        Disposition(q, c) = "prioritize" =>
            \A bad \in Eligible(q) : (bad.content.configuration = c /\ Negative(bad)) =>
                \E good \in Eligible(q) :
                    /\ good.content.configuration = c /\ good.content.status = "validated"
                    /\ DesignOf(good) = DesignOf(bad) /\ good.revision >= bad.revision

\* Every lineage that is held is one unbroken chain over one problem in one
\* scope, and a correction is applied only where the attempt before proposed
\* it and the configuration shows it.
LineageIsChain ==
    \A a \in memory.attempts :
        /\ a.ordinal > 0 =>
               \E b \in memory.attempts :
                   /\ b = a.parent /\ b.lineage = a.lineage /\ b.ordinal = a.ordinal - 1
                   /\ b.revision < a.revision /\ b.content.problem = a.content.problem
                   /\ a.content.applied # None =>
                          Proposes(b.content, a.content.applied)
        /\ \A b \in memory.attempts : (a.lineage = b.lineage /\ a.ordinal = b.ordinal) => a = b

\* Whoever kept the records can put the same memory together again from them
\* ("Canonical replay: input order cannot change the resulting reducer
\* state").
RebuildKeeps == Rebuild(memory.attempts, memory.failures, memory.drifts) = memory

\* Evidence that was taken in is acknowledged however often and under
\* whatever lineage it comes again, also when the memory is full.
ReplayIsAcknowledged ==
    \A a \in memory.attempts : a.content.evidence # None =>
        \A lineage \in Lineages, revision \in Revisions :
            a.content.applied = None =>
                AnswerToAttempt(memory,
                    [content |-> a.content, lineage |-> lineage, ordinal |-> 0,
                     parent |-> None, revision |-> revision]) = "present"

=============================================================================
