--------------------------- MODULE AdaptiveLearning ---------------------------
(***************************************************************************)
(* One persistent adaptive-learning session (learning_orchestrator.rs): a     *)
(* marker that reserves its name, receipts stored under their digests, an     *)
(* event for each in the ledger, and a pointer to the current receipt.  A     *)
(* receipt holds the whole cycle and names its predecessor; reading a session *)
(* replays the chain from its start.  Callers in several processes start the  *)
(* session, have apertures issued and hand in evidence, under one lock.       *)
(*                                                                         *)
(* Digests determine contents: a receipt and an envelope of evidence stand    *)
(* for their digests.  Observation files are not the session's own: whoever   *)
(* runs the experiments may rewrite them at any time.                         *)
(*                                                                         *)
(* What a session hands to the engine comes after it.  Representation          *)
(* evidence (representation_evidence.rs) is recorded for its observations:    *)
(* each is written again, with a sealed representation, to a destination in   *)
(* a namespace of its own, and a receipt that is bound to a ledger event      *)
(* lists them.  The finalization input (learning_finalization.rs) is made     *)
(* from the complete session and one such receipt, by readers without a lock. *)
(***************************************************************************)
EXTENDS Integers, FiniteSets, SequencesExt

CONSTANTS
    None,
    Procs,
    Targets,           \* learning targets, with their policies
    Apertures,         \* 1 .. candidate_budget, in the order of their ids
    PlanSteps,
    Objective(_, _, _),\* of a target, an aperture and what was measured before
    Measured(_, _),    \* the outcome of an aperture on a version of an observation
    Observations, Versions,
    Envelopes,         \* digests of evidence envelopes
    Says,              \* envelope -> [target, aperture, observation, version, value]
    MaxFailures,       \* bound: deaths and failed appends
    MaxRewrites,       \* bound: rewritten observations and envelopes
    Recorders, Preparers,  \* processes
    Requests,              \* digests of install requests
    Installs,              \* request -> sequence of [observation, version, destination]
    Protocol,              \* request -> sealed protocol
    Destinations,
    MaxDeaths              \* bound: recorders that die

\* What was measured before, for the posterior.
Past(done) == [i \in DOMAIN done |-> <<Says[done[i]].aperture, Says[done[i]].value>>]

\* An objective is a number, whatever was measured in a plan.
StepsAssumption ==
    /\ None \notin Procs \union Targets \union Envelopes
    /\ Apertures \subseteq Nat /\ IsFiniteSet(Apertures)
    /\ PlanSteps \in Nat \ {0}
    /\ \A t \in Targets, a \in Apertures, n \in 0 .. PlanSteps :
           \A done \in [1 .. n -> Envelopes] : Objective(t, a, Past(done)) \in Int

\* Records that are installed, and states of a recorder that is at work.
Records ==
    [observation : Observations, version : Versions,
     protocol : {Protocol[q] : q \in Requests}]
RecorderStates ==
    [request : Requests, next : Nat, event : Nat \union {None},
     phase : {"install", "find", "append", "file", "verify"}]

RequestsAssumption ==
    /\ None \notin Nat \union Records \union RecorderStates
    /\ \A q \in Requests :
           /\ Installs[q] # <<>>
           /\ Installs[q] \in Seq([observation : Observations, version : Versions,
                                  destination : Destinations])

VARIABLES
    marker, pointer,   \* files of the session
    receipts, stored,  \* immutable files: receipts, envelopes of evidence
    ledger,            \* the receipts that events were appended for, in order
    observed,          \* the version each observation file holds
    offered,           \* the envelope at the path the callers name
    lock, task,        \* the holder of the session's lock, what each process does
    failures, rewrites,
    installed,   \* destination -> the record it holds
    events,      \* the requests that recording events name, in order
    filed,       \* request -> the event its receipt names
    recorder, preparer,
    inputs,      \* finalization inputs that were returned
    answered,    \* history: requests whose receipt was returned
    together,    \* history: requests two recorders were at the ledger with
    deaths

files == <<marker, pointer, receipts, stored, ledger>>
outside == <<observed, offered, rewrites>>
sessionVars == <<files, outside, lock, task, failures>>
recording == <<installed, events, filed, recorder, answered, together, deaths>>
preparing == <<preparer, inputs>>
handoff == <<sessionVars, recording, preparing>>

-----------------------------------------------------------------------------
(* The plan. *)

\* next_learning_aperture: the best of the apertures not completed, the
\* first of the best; the posterior is a function of what was measured.
Remaining(done) == Apertures \ {Says[done[i]].aperture : i \in DOMAIN done}

Canonical(target, done) ==
    IF Len(done) >= PlanSteps \/ Remaining(done) = {} THEN None
    ELSE LET best == {a \in Remaining(done) : \A b \in Remaining(done) :
                         Objective(target, b, Past(done)) <= Objective(target, a, Past(done))}
         IN  CHOOSE a \in best : \A b \in best : a <= b

\* validate_experiment_evidence: an outcome derived from the observation that
\* the envelope names, which its file still holds.
Fits(e, target, aperture) ==
    /\ Says[e].target = target
    /\ Says[e].aperture = aperture
    /\ Says[e].value = Measured(aperture, Says[e].version)

Intact(e) == observed[Says[e].observation] = Says[e].version

-----------------------------------------------------------------------------
(* Receipts. *)

Receipt(kind, prior, generation, target, pending, done) ==
    [kind |-> kind, prior |-> prior, generation |-> generation, target |-> target,
     pending |-> pending, done |-> done]

\* What a pointer that is not there holds.
Absent == Receipt("none", None, 0, None, None, <<>>)

Started(target) == Receipt("started", None, 0, target, None, <<>>)

Issued(r) ==
    Receipt("issued", r, r.generation + 1, r.target, Canonical(r.target, r.done), r.done)

Assimilated(r, e) ==
    Receipt("assimilated", r, r.generation + 1, r.target, None, Append(r.done, e))

\* validate_cycle
CycleIsSound(r) ==
    /\ r.target \in Targets
    /\ \A i \in DOMAIN r.done :
           /\ r.done[i] \in stored
           /\ Fits(r.done[i], r.target, Says[r.done[i]].aperture)
           /\ Intact(r.done[i])
    /\ \A i, j \in DOMAIN r.done :
           i # j => Says[r.done[i]].aperture # Says[r.done[j]].aperture
    /\ r.pending # None => r.pending = Canonical(r.target, r.done)

\* The step from the predecessor, made again (validate_receipt_transition).
Follows(r) ==
    \/ r = Started(r.target)
    \/ /\ r.kind = "issued"
       /\ r.prior.pending = None
       /\ r = Issued(r.prior)
    \/ /\ r.kind = "assimilated"
       /\ r.prior.pending # None
       /\ Fits(Last(r.done), r.target, r.prior.pending)
       /\ r = Assimilated(r.prior, Last(r.done))

Ancestry(r) ==
    LET back[g \in 0 .. r.generation] ==
            IF g = r.generation THEN r ELSE back[g + 1].prior
    IN  {back[g] : g \in 0 .. r.generation}

EventsOf(r) == {i \in DOMAIN ledger : ledger[i] = r}

\* The receipt is stored and its event found, exactly once.
Bound(r) == r \in receipts /\ Cardinality(EventsOf(r)) = 1

\* load_current_receipt
Loads ==
    /\ pointer # Absent
    /\ \A r \in Ancestry(pointer) : Bound(r) /\ CycleIsSound(r) /\ Follows(r)

-----------------------------------------------------------------------------
(* Callers.  A call ends, whether refused or not, by giving up the lock.      *)

Doing(p, op, phase) == task[p].op = op /\ task[p].phase = phase
Persisting(p, phase) == task[p].phase = phase

Task(op, phase, target, receipt) ==
    [op |-> op, phase |-> phase, target |-> target, receipt |-> receipt]
Idle == Task("none", "idle", None, Absent)

Call(p, op, target) ==
    /\ task[p].phase = "idle"
    /\ task' = [task EXCEPT ![p] = Task(op, "called", target, Absent)]
    /\ UNCHANGED <<files, outside, lock, failures>>

Start(p, target) == Call(p, "start", target)
IssueNext(p) == Call(p, "issue", None)
\* The envelope is read before the lock is taken, and again after it.
Assimilate(p) == offered # None /\ Call(p, "assimilate", None)

TakeLock(p) ==
    /\ Persisting(p, "called") /\ lock = None
    /\ lock' = p
    /\ task' = [task EXCEPT ![p].phase = "locked"]
    /\ UNCHANGED <<files, outside, failures>>

Leave(p) ==
    /\ lock' = None
    /\ task' = [task EXCEPT ![p] = Idle]

Persist(p, r) ==
    /\ task' = [task EXCEPT ![p].phase = "write", ![p].receipt = r]
    /\ UNCHANGED lock

\* Mutant of Reserve: only a name that is reserved, without a session yet, is
\* taken.
ReserveUnlessMarked(p) ==
    /\ Doing(p, "start", "locked")
    /\ IF pointer = Absent /\ marker # None
       THEN Leave(p) /\ UNCHANGED marker
       ELSE marker' = task[p].target /\ Persist(p, Started(task[p].target))
    /\ UNCHANGED <<pointer, receipts, stored, ledger, outside, failures>>

\* The name is free only while it has neither a marker nor a pointer.
Reserve(p) ==
    /\ Doing(p, "start", "locked")
    /\ IF pointer # Absent \/ marker # None
       THEN Leave(p) /\ UNCHANGED marker
       ELSE marker' = task[p].target /\ Persist(p, Started(task[p].target))
    /\ UNCHANGED <<pointer, receipts, stored, ledger, outside, failures>>

\* Mutant of MayIssue: the pending aperture is not looked at.
MayIssueAgain == Loads /\ Canonical(pointer.target, pointer.done) # None

MayIssue ==
    /\ Loads
    /\ pointer.pending = None
    /\ Canonical(pointer.target, pointer.done) # None

Propose(p) ==
    /\ Doing(p, "issue", "locked")
    /\ IF MayIssue THEN Persist(p, Issued(pointer)) ELSE Leave(p)
    /\ UNCHANGED <<files, outside, failures>>

MayAssimilate(e) ==
    /\ Loads
    /\ pointer.pending # None
    /\ e # None
    /\ Fits(e, pointer.target, pointer.pending)
    /\ Intact(e)
    /\ e \notin ToSet(pointer.done)

\* persist_experiment_evidence, before the receipt.
Accept(p) ==
    /\ Doing(p, "assimilate", "locked")
    /\ IF MayAssimilate(offered)
       THEN /\ stored' = stored \union {offered}
            /\ Persist(p, Assimilated(pointer, offered))
       ELSE Leave(p) /\ UNCHANGED stored
    /\ UNCHANGED <<marker, pointer, receipts, ledger, outside, failures>>

\* persist_receipt: a receipt of this digest must not be there yet.
WriteReceipt(p) ==
    /\ Persisting(p, "write")
    /\ IF CycleIsSound(task[p].receipt) /\ task[p].receipt \notin receipts
       THEN /\ receipts' = receipts \union {task[p].receipt}
            /\ task' = [task EXCEPT ![p].phase = "append"]
            /\ UNCHANGED lock
       ELSE Leave(p) /\ UNCHANGED receipts
    /\ UNCHANGED <<marker, pointer, stored, ledger, outside, failures>>

AppendEvent(p) ==
    /\ Persisting(p, "append")
    /\ ledger' = Append(ledger, task[p].receipt)
    /\ task' = [task EXCEPT ![p].phase = "point"]
    /\ UNCHANGED <<marker, pointer, receipts, stored, outside, lock, failures>>

\* The ledger refuses the event.
AppendFails(p) ==
    /\ Persisting(p, "append")
    /\ failures < MaxFailures
    /\ failures' = failures + 1
    /\ Leave(p)
    /\ UNCHANGED <<files, outside>>

MovePointer(p) ==
    /\ Persisting(p, "point")
    /\ pointer' = task[p].receipt
    /\ task' = [task EXCEPT ![p].phase = "reload"]
    /\ UNCHANGED <<marker, receipts, stored, ledger, outside, lock, failures>>

\* The session is read again; what was written stays, whatever the answer.
Answer(p) ==
    /\ Persisting(p, "reload")
    /\ Leave(p)
    /\ UNCHANGED <<files, outside, failures>>

\* A process dies; the kernel releases its lock.
Die(p) ==
    /\ task[p].phase # "idle"
    /\ failures < MaxFailures
    /\ failures' = failures + 1
    /\ task' = [task EXCEPT ![p] = Idle]
    /\ lock' = IF lock = p THEN None ELSE lock
    /\ UNCHANGED <<files, outside>>

\* Outside the session, an observation is measured anew, or another envelope
\* is put at the callers' path.
Rewrite(o, v) ==
    /\ rewrites < MaxRewrites /\ observed[o] # v
    /\ observed' = [observed EXCEPT ![o] = v]
    /\ rewrites' = rewrites + 1
    /\ UNCHANGED <<files, offered, lock, task, failures>>

Offer(e) ==
    /\ rewrites < MaxRewrites /\ offered # e
    /\ offered' = e
    /\ rewrites' = rewrites + 1
    /\ UNCHANGED <<files, observed, lock, task, failures>>

-----------------------------------------------------------------------------

SessionInit ==
    /\ marker = None /\ pointer = Absent
    /\ receipts = {} /\ stored = {}
    /\ ledger = <<>>
    /\ observed \in [Observations -> Versions]
    /\ offered = None
    /\ lock = None
    /\ task = [p \in Procs |-> Idle]
    /\ failures = 0 /\ rewrites = 0

Work(p) ==
    \/ TakeLock(p) \/ Reserve(p) \/ Propose(p) \/ Accept(p)
    \/ WriteReceipt(p) \/ AppendEvent(p) \/ AppendFails(p) \/ MovePointer(p)
    \/ Answer(p) \/ Die(p)

SessionNext ==
    \/ \E p \in Procs :
           \/ \E t \in Targets : Start(p, t)
           \/ IssueNext(p) \/ Assimilate(p) \/ Work(p)
    \/ \E o \in Observations, v \in Versions : Rewrite(o, v)
    \/ \E e \in Envelopes : Offer(e)

-----------------------------------------------------------------------------
(* Recording representation evidence. *)

\* destination_observation_bytes: the source, and its representation.
RecordOf(q, x) ==
    [observation |-> x.observation, version |-> x.version, protocol |-> Protocol[q]]

EventsFor(q) == {i \in DOMAIN events : events[i] = q}
SoleEvent(q) == CHOOSE i \in EventsFor(q) : TRUE

\* load_verified_representation_evidence_receipt: receipt, event, sources and
\* destinations are what they were.
ReceiptLoads(q) ==
    /\ filed[q] # None
    /\ EventsFor(q) = {filed[q]}
    /\ \A x \in ToSet(Installs[q]) :
           /\ observed[x.observation] = x.version
           /\ installed[x.destination] = RecordOf(q, x)

\* verify_existing_receipt does not ask for the sources.
ReceiptVerifies(q) ==
    /\ EventsFor(q) = {filed[q]}
    /\ \A x \in ToSet(Installs[q]) : installed[x.destination] = RecordOf(q, x)

At(r, phase) == recorder[r] # None /\ recorder[r].phase = phase

Become(r, state) == recorder' = [recorder EXCEPT ![r] = state]

Recording(q, phase, next, event) ==
    [request |-> q, next |-> next, event |-> event, phase |-> phase]

BeginRecord(r, q) ==
    /\ recorder[r] = None
    /\ Become(r, Recording(q, IF filed[q] # None THEN "verify" ELSE "install", 1, None))
    /\ UNCHANGED <<sessionVars, preparing, installed, events, filed, answered,
                   together, deaths>>

\* One destination after another; a record that is there already must be this one.
Install(r) ==
    /\ At(r, "install")
    /\ LET q == recorder[r].request
           n == recorder[r].next
           x == Installs[q][n]
       IN  IF /\ observed[x.observation] = x.version
              /\ installed[x.destination] \in {None, RecordOf(q, x)}
           THEN /\ installed' = [installed EXCEPT ![x.destination] = RecordOf(q, x)]
                /\ Become(r, IF n = Len(Installs[q]) THEN Recording(q, "find", 1, None)
                             ELSE Recording(q, "install", n + 1, None))
           ELSE Become(r, None) /\ UNCHANGED installed
    /\ UNCHANGED <<sessionVars, preparing, events, filed, answered, together, deaths>>

AtLedger(q) ==
    {r \in Recorders : recorder[r] # None /\ recorder[r].request = q
                           /\ recorder[r].phase \in {"find", "append"}}

\* Mutant of FindEvent: an event of an earlier attempt is not looked for.
FindNothing(r) ==
    /\ At(r, "find")
    /\ Become(r, Recording(recorder[r].request, "append", 1, None))
    /\ UNCHANGED <<sessionVars, preparing, installed, events, filed, answered,
                   together, deaths>>

\* The event of an earlier attempt is adopted; several are an error.
FindEvent(r) ==
    /\ At(r, "find")
    /\ LET q == recorder[r].request
       IN  /\ CASE EventsFor(q) = {} ->
                       Become(r, Recording(q, "append", 1, None))
                [] Cardinality(EventsFor(q)) = 1 ->
                       Become(r, Recording(q, "file", 1, SoleEvent(q)))
                [] OTHER -> Become(r, None)
           /\ together' = IF AtLedger(q) # {r} THEN together \union {q} ELSE together
    /\ UNCHANGED <<sessionVars, preparing, installed, events, filed, answered, deaths>>

AppendRecorded(r) ==
    /\ At(r, "append")
    /\ events' = Append(events, recorder[r].request)
    /\ Become(r, Recording(recorder[r].request, "file", 1, Len(events) + 1))
    /\ UNCHANGED <<sessionVars, preparing, installed, filed, answered, together, deaths>>

FileReceipt(r) ==
    /\ At(r, "file")
    /\ LET q == recorder[r].request
       IN  IF filed[q] \in {None, recorder[r].event}
           THEN /\ filed' = [filed EXCEPT ![q] = recorder[r].event]
                /\ Become(r, Recording(q, "verify", 1, None))
           ELSE Become(r, None) /\ UNCHANGED filed
    /\ UNCHANGED <<sessionVars, preparing, installed, events, answered, together, deaths>>

Verify(r) ==
    /\ At(r, "verify")
    /\ answered' = IF ReceiptVerifies(recorder[r].request)
                   THEN answered \union {recorder[r].request} ELSE answered
    /\ Become(r, None)
    /\ UNCHANGED <<sessionVars, preparing, installed, events, filed, together, deaths>>

RecorderDies(r) ==
    /\ recorder[r] # None /\ deaths < MaxDeaths
    /\ deaths' = deaths + 1
    /\ Become(r, None)
    /\ UNCHANGED <<sessionVars, preparing, installed, events, filed, answered, together>>

-----------------------------------------------------------------------------
(* Preparing a finalization input. *)

Complete(r) == r.kind = "assimilated" /\ Len(r.done) = PlanSteps

\* The session's chain, its evidence, and the observations behind it.
ReadSession(c, q) ==
    /\ preparer[c] = None
    /\ Loads /\ Complete(pointer)
    /\ preparer' = [preparer EXCEPT ![c] = [session |-> pointer, request |-> q]]
    /\ UNCHANGED <<sessionVars, recording, inputs>>

SourcesOf(r) ==
    {<<Says[r.done[i]].observation, Says[r.done[i]].version>> : i \in DOMAIN r.done}
InstalledSources(q) == {<<x.observation, x.version>> : x \in ToSet(Installs[q])}
Named(sources) == {s[1] : s \in sources}

\* The same observations, no two experiments with one, and the same bytes.
Matches(r, q) ==
    /\ Cardinality(Named(SourcesOf(r))) = Len(r.done)
    /\ SourcesOf(r) = InstalledSources(q)

\* The receipt is replayed after the session was, and the two are bound.
Bind(c) ==
    /\ preparer[c] # None
    /\ inputs' = IF /\ ReceiptLoads(preparer[c].request)
                    /\ Matches(preparer[c].session, preparer[c].request)
                 THEN inputs \union {preparer[c]} ELSE inputs
    /\ preparer' = [preparer EXCEPT ![c] = None]
    /\ UNCHANGED <<sessionVars, recording>>

\* verify_learning_finalization_input: made again, it is the same input.
Canonically(input) ==
    /\ Loads /\ Complete(pointer)
    /\ ReceiptLoads(input.request) /\ Matches(pointer, input.request)
    /\ input = [session |-> pointer, request |-> input.request]

-----------------------------------------------------------------------------

HandoffInit ==
    /\ installed = [d \in Destinations |-> None]
    /\ events = <<>>
    /\ filed = [q \in Requests |-> None]
    /\ recorder = [r \in Recorders |-> None]
    /\ preparer = [c \in Preparers |-> None]
    /\ inputs = {} /\ answered = {} /\ together = {}
    /\ deaths = 0

Record(r) ==
    \/ \E q \in Requests : BeginRecord(r, q)
    \/ Install(r) \/ FindEvent(r) \/ AppendRecorded(r) \/ FileReceipt(r)
    \/ Verify(r) \/ RecorderDies(r)

Prepare(c) == Bind(c) \/ \E q \in Requests : ReadSession(c, q)

-----------------------------------------------------------------------------
(* Properties. *)

Pending == Apertures \union {None}

IsReceipt(r) ==
    /\ r.kind \in {"started", "issued", "assimilated"}
    /\ r.target \in Targets /\ r.pending \in Pending
    /\ r.done \in Seq(Envelopes) /\ Len(r.done) <= PlanSteps
    /\ r.pending # None => Len(r.done) < PlanSteps
    /\ r.generation = 2 * Len(r.done) + (IF r.pending = None THEN 0 ELSE 1)

\* Files hold receipts and envelopes, and one process at most holds the lock.
SessionTypeOK ==
    /\ marker \in Targets \union {None}
    /\ pointer = Absent \/ IsReceipt(pointer)
    /\ \A r \in receipts : IsReceipt(r)
    /\ \A i \in DOMAIN ledger : ledger[i] \in receipts
    /\ stored \subseteq Envelopes
    /\ observed \in [Observations -> Versions]
    /\ offered \in Envelopes \union {None}
    /\ lock \in Procs \union {None}
    /\ \A p \in Procs : lock = p <=> task[p].phase \notin {"idle", "called"}

\* Only files that are not the session's own can make it unreadable: the chain
\* behind the pointer is stored and entered in the ledger to the last receipt,
\* makes every step again, and counts no experiment twice, wherever a process
\* died (load_current_receipt_under_root).
PointerReplays ==
    pointer # Absent =>
        /\ \A r \in Ancestry(pointer) : Bound(r) /\ Follows(r)
        /\ \A i \in DOMAIN pointer.done : pointer.done[i] \in stored
        /\ IsInjective(pointer.done)

\* The session never goes back, branches off or skips a step: the pointer moves
\* from a receipt to its successor only, whoever calls at once.
PointerAdvances ==
    pointer' # pointer =>
        IF pointer = Absent THEN pointer' = Started(marker) ELSE pointer'.prior = pointer

\* Without a death or a failed append no call leaves anything behind that a
\* later one would trip over: the receipts are those of the chain, one event
\* each, and the name is reserved only for a session that exists.
NothingStranded ==
    lock = None /\ failures = 0 =>
        /\ marker = None <=> pointer = Absent
        /\ receipts = IF pointer = Absent THEN {} ELSE Ancestry(pointer)
        /\ ToSet(ledger) = receipts

Inputs == [session : {pointer} \union receipts, request : Requests]

\* Every record is one that a request makes.
HandoffTypeOK ==
    /\ \A d \in Destinations : installed[d] # None =>
           \E q \in Requests : \E x \in ToSet(Installs[q]) :
               x.destination = d /\ installed[d] = RecordOf(q, x)
    /\ events \in Seq(Requests)
    /\ \A q \in Requests : filed[q] \in (DOMAIN events) \union {None}
    /\ inputs \subseteq Inputs

\* An input that was returned stays the canonical one: the session it was made
\* from never moves again, so that as long as the files of observations are as
\* they were the engine makes the same input again, and it binds to every
\* experiment the destination made from the bytes that were measured
\* (verify_learning_finalization_input).
InputsStayCanonical ==
    \A input \in inputs :
        /\ pointer = input.session
        /\ Loads /\ ReceiptLoads(input.request) => Canonically(input)
        /\ \A i \in DOMAIN input.session.done :
               LET e == Says[input.session.done[i]]
               IN  \E x \in ToSet(Installs[input.request]) :
                       /\ installed[x.destination] = RecordOf(input.request, x)
                       /\ x.observation = e.observation /\ x.version = e.version

\* A recorder that dies anywhere is made good by the next one: an event that
\* was appended is adopted, so that a request has one event, and its receipt
\* goes on verifying, unless two recorders were at the ledger with it at once.
RecordedOnce ==
    \A q \in Requests \ together :
        /\ Cardinality(EventsFor(q)) <= 1
        /\ q \in answered => ReceiptVerifies(q)

\* A record that was installed is never replaced.
RecordsStay ==
    \A d \in Destinations : installed[d] # None => installed'[d] = installed[d]
=============================================================================
