--------------------------- MODULE ProceduralRecords ---------------------------
(***************************************************************************)
(* The procedural memory as a reducer (src/src/procedural_memory.rs): what   *)
(* one record does to it, and how it is rebuilt.  A memory is a record       *)
(* [attempts, failures, drifts, invalidated]; the other indexes of the code  *)
(* are lookups in these sets.                                                *)
(*                                                                          *)
(* An attempt is a record [content, lineage, ordinal, parent, revision]: the *)
(* content is what it says (scope, problem, candidate, configuration,        *)
(* evidence, outcome), the rest is the wrapper it is filed under.  A digest  *)
(* commits the whole record, so that equal digests are equal records.        *)
(***************************************************************************)
EXTENDS Integers, FiniteSets, Sequences, SequencesExt, FiniteSetsExt

CONSTANTS
    None,
    MaxAttempts,        \* MAX_ATTEMPTS
    MaxFailures,        \* MAX_SOLVER_RUN_FAILURES
    MaxDrifts           \* MAX_DRIFT_RECORDS

RecordLimits ==
    /\ MaxAttempts \in Nat \ {0} /\ MaxFailures \in Nat \ {0}
    /\ MaxDrifts \in Nat \ {0} /\ None \notin Nat

Research(content) == content.evidence # None /\ content.evidence.kind = "research"
Rejection(content) == content.evidence # None /\ content.evidence.kind = "rejection"

-----------------------------------------------------------------------------
(* SolverAttempt::authenticate *)

\* AttemptOutcome::validate: the corrections that fit a status.
CorrectionOf(status) ==
    CASE status = "validated" -> {"independently validated"}
      [] status \in {"rejected", "failed"} -> {"proposed", "refuted"}
      [] status = "inconclusive" -> {"applied unverified"}

\* validate_applied_correction
AppliedFits(content) ==
    IF content.applied = None
    THEN content.correction # None => content.correction.status = "proposed"
    ELSE /\ content.correction # None
         /\ content.correction.kind = content.applied
         /\ content.correction.status # "proposed"

Outcome(content) ==
    /\ (content.severity # None) <=> (content.status \in {"rejected", "failed"})
    /\ content.correction # None => content.correction.status \in CorrectionOf(content.status)
    /\ AppliedFits(content)

\* A rejected candidate carries no correction, and without evidence there is
\* nothing but an inconclusive attempt.
EvidenceShape(content) ==
    \/ /\ Research(content)
       /\ content.evidence.candidate = content.candidate
    \/ /\ Rejection(content)
       /\ content.status = "rejected" /\ content.correction = None
    \/ content.evidence = None /\ content.status = "inconclusive"

Authentic(attempt) ==
    /\ Outcome(attempt.content)
    /\ EvidenceShape(attempt.content)
    /\ attempt.revision > 0
    /\ (attempt.ordinal = 0) <=> (attempt.parent = None)
    /\ attempt.ordinal = 0 => attempt.content.applied = None

-----------------------------------------------------------------------------
(* Lineages *)

\* IsolationKey::from_bindings
Isolation(content) == <<content.scope, content.policy>>

\* correction_is_realized
Realized(parent, child, kind) ==
    CASE kind = "increase rank" ->
             /\ parent.configuration.rank # None /\ child.configuration.rank # None
             /\ child.configuration.rank > parent.configuration.rank
      [] kind = "switch to svd" -> child.configuration.family = "svd"
      [] kind = "expand evidence" ->
             /\ Research(parent) /\ Research(child)
             /\ child.evidence.groups > parent.evidence.groups
      [] kind = "repair evaluator" ->
             /\ Research(parent) /\ Research(child)
             /\ child.evidence.evaluator # parent.evidence.evaluator

Proposes(content, kind) ==
    /\ content.correction # None
    /\ content.correction.kind = kind
    /\ content.correction.status # "refuted"

\* What validate_lineage asks of a parent that is held.
Continues(parent, attempt) ==
    /\ parent.lineage = attempt.lineage
    /\ parent.ordinal + 1 = attempt.ordinal
    /\ parent.revision < attempt.revision
    /\ Isolation(parent.content) = Isolation(attempt.content)
    /\ parent.content.problem = attempt.content.problem
    /\ attempt.content.applied # None =>
           /\ Proposes(parent.content, attempt.content.applied)
           /\ Realized(parent.content, attempt.content, attempt.content.applied)

\* validate_lineage
ValidLineage(memory, attempt) ==
    /\ \A a \in memory.attempts : <<a.lineage, a.ordinal>> # <<attempt.lineage, attempt.ordinal>>
    /\ attempt.ordinal > 0 =>
           attempt.parent \in memory.attempts /\ Continues(attempt.parent, attempt)

-----------------------------------------------------------------------------
(* record_attempt *)

Empty == [attempts |-> {}, failures |-> {}, drifts |-> {}, invalidated |-> <<>>]

\* The receipts an attempt's evidence goes by.
Receipt(content) ==
    IF Research(content) THEN <<"report", content.evidence.report>>
    ELSE <<"receipt", content.evidence.receipt>>

\* The attempts already filed under the evidence of this one.
Filed(memory, content) ==
    IF content.evidence = None THEN {}
    ELSE {a \in memory.attempts :
            a.content.evidence # None /\ Receipt(a.content) = Receipt(content)}

\* A design commits the groups it counts.
DesignRelabelled(memory, content) ==
    Research(content) /\ \E a \in memory.attempts :
        /\ Research(a.content)
        /\ a.content.evidence.design = content.evidence.design
        /\ a.content.evidence.groups # content.evidence.groups

AnswerWithoutReceipts(memory, attempt) ==
    CASE ~Authentic(attempt) -> "invalid"
      [] attempt \in memory.attempts -> "present"
      [] DesignRelabelled(memory, attempt.content) -> "design relabel"
      [] Cardinality(memory.attempts) >= MaxAttempts -> "capacity"
      [] ~ValidLineage(memory, attempt) -> "lineage"
      [] OTHER -> "inserted"

\* The same evidence with the same meaning (attempt_evidence_semantics_equal,
\* which leaves the wrapper out) is present already, whatever it is filed
\* under; with another meaning it is refused.
AnswerToAttempt(memory, attempt) ==
    CASE ~Authentic(attempt) -> "invalid"
      [] attempt \in memory.attempts -> "present"
      [] \E a \in Filed(memory, attempt.content) : a.content = attempt.content -> "present"
      [] Filed(memory, attempt.content) # {} -> "relabel"
      [] DesignRelabelled(memory, attempt.content) -> "design relabel"
      [] Cardinality(memory.attempts) >= MaxAttempts -> "capacity"
      [] ~ValidLineage(memory, attempt) -> "lineage"
      [] OTHER -> "inserted"

RecordAttempt(memory, attempt) ==
    IF AnswerToAttempt(memory, attempt) = "inserted"
    THEN [memory EXCEPT !.attempts = @ \union {attempt}] ELSE memory

-----------------------------------------------------------------------------
(* record_solver_run_failure: a failure is [content, receipt, revision]. *)

\* The capacity is looked at before the receipt is.
AnswerToFailure(memory, failure) ==
    CASE failure \in memory.failures -> "present"
      [] Cardinality(memory.failures) >= MaxFailures -> "capacity"
      [] \E f \in memory.failures : f.receipt = failure.receipt /\ f.content = failure.content ->
             "present"
      [] \E f \in memory.failures : f.receipt = failure.receipt -> "relabel"
      [] OTHER -> "inserted"

RecordFailure(memory, failure) ==
    IF AnswerToFailure(memory, failure) = "inserted"
    THEN [memory EXCEPT !.failures = @ \union {failure}] ELSE memory

-----------------------------------------------------------------------------
(* Drift: a record [scope, previous, current, revision], where the scope is   *)
(* one candidate under one design and evaluator, and leaves the problem and   *)
(* the configuration out.                                                     *)

\* DriftScope::from_attempt
DriftScope(content) ==
    <<content.scope, content.candidate, content.evidence.design, content.evidence.evaluator>>

\* attempt_for_report_receipt
Reported(memory, report) ==
    {a \in memory.attempts : Research(a.content) /\ a.content.evidence.report = report}

AnswerToDrift(memory, drift) ==
    LET before == Reported(memory, drift.previous)
        after == Reported(memory, drift.current)
    IN CASE drift \in memory.drifts -> "present"
         [] Cardinality(memory.drifts) >= MaxDrifts -> "capacity"
         [] before = {} \/ after = {} -> "not registered"
         [] ~\E b \in before, a \in after :
                /\ DriftScope(b.content) = drift.scope /\ DriftScope(a.content) = drift.scope
                /\ b.revision < a.revision /\ drift.revision = a.revision -> "mismatch"
         [] \E d \in memory.drifts :
                d.previous = drift.previous /\ d.current = drift.current -> "relabel"
         [] OTHER -> "inserted"

InvalidatedThrough(memory, scope) ==
    IF scope \in DOMAIN memory.invalidated THEN memory.invalidated[scope] ELSE 0

RecordDrift(memory, drift) ==
    IF AnswerToDrift(memory, drift) = "inserted"
    THEN [memory EXCEPT
            !.drifts = @ \union {drift},
            !.invalidated =
                (drift.scope :>
                    Max({drift.revision, InvalidatedThrough(memory, drift.scope)})) @@ @]
    ELSE memory

\* derive_functional_change: two reports over one design that are both held,
\* the later one in a later window.  Whether their intervals are apart is the
\* reports' own business.
Change(memory, before, after) ==
    [scope |-> DriftScope(after.content), previous |-> before.content.evidence.report,
     current |-> after.content.evidence.report, revision |-> after.revision]

Comparable(before, after) ==
    /\ Research(before.content) /\ Research(after.content)
    /\ DriftScope(before.content) = DriftScope(after.content)
    /\ before.content.evidence.groups = after.content.evidence.groups
    /\ before.revision < after.revision

-----------------------------------------------------------------------------
(* rebuild_with_solver_failures *)

\* Lineage and ordinal decide; the digest that breaks a tie is anyone's guess.
Sooner(a, b) ==
    \/ a.lineage < b.lineage
    \/ a.lineage = b.lineage /\ a.ordinal < b.ordinal

Canonical(attempts) == SetToSortSeq(attempts, Sooner)

\* A record that is refused ends the rebuild.
Broken == [broken |-> TRUE]

Rebuild(attempts, failures, drifts) ==
    LET withAttempt(m, a) ==
            IF m = Broken \/ AnswerToAttempt(m, a) \notin {"inserted", "present"}
            THEN Broken ELSE RecordAttempt(m, a)
        withFailure(m, f) ==
            IF m = Broken \/ AnswerToFailure(m, f) \notin {"inserted", "present"}
            THEN Broken ELSE RecordFailure(m, f)
        withDrift(m, d) ==
            IF m = Broken \/ AnswerToDrift(m, d) \notin {"inserted", "present"}
            THEN Broken ELSE RecordDrift(m, d)
    IN FoldLeft(withDrift,
           FoldLeft(withFailure,
               FoldLeft(withAttempt, Empty, Canonical(attempts)),
               SetToSeq(failures)),
           SetToSeq(drifts))
=============================================================================
