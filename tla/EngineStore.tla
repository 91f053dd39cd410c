---------------------------- MODULE EngineStore ----------------------------
(***************************************************************************)
(* The durable state under state/ that one BrainEngine owns, and what the   *)
(* engine reads off it: the canonical head, the health that admits an       *)
(* execution, the bindings of a sleep receipt and of a learning             *)
(* finalization receipt.  CorpusTransition and SleepCycle give the          *)
(* operations that change this state; Engine composes them.                 *)
(*                                                                         *)
(* A digest is the value it identifies.  What an analysis computes from a   *)
(* corpus (fields, report, dense materialisation) is a function of the      *)
(* corpus, so the corpus stands for it.  History files named by their own   *)
(* digest are never removed and are left out.                               *)
(***************************************************************************)
EXTENDS Integers, Sequences, FiniteSets

CONSTANTS
    Corpora,     \* observation sets, each named by its digest
    Provided,    \* the corpus and the evidence a store may start with
    Promotable,  \* the corpora whose reconstruction may be promoted
    Inputs,      \* learning finalization inputs
    NewCorpus,   \* the corpus that an input installs
    Bundles,     \* sleep evidence bundles an installer may publish
    Attests,     \* the corpus whose report a bundle verifies, or None
    None,        \* an absent file or an absent field
    MaxGen       \* bound: promotions of one bank lineage

ASSUME ConstantsAssumption ==
    /\ Provided \subseteq [corpus : Corpora, evidence : Bundles \union {None}]
    /\ Promotable \subseteq Corpora
    /\ NewCorpus \in [Inputs -> Corpora]
    /\ Attests \in [Bundles -> Corpora \union {None}]
    /\ None \notin Corpora \union Inputs \union Bundles
    /\ MaxGen \in Nat

-----------------------------------------------------------------------------
(* What the files hold. *)

Option(S) == S \union {None}

Labels == {"observations", "skill_bank", "shadow_skill_bank",
           "memory_current", "sleep_state", "sleep_evidence_current"}

\* The digests a CanonicalEngineHead names: the shadow bank is not one.
HeadLabels == Labels \ {"shadow_skill_bank"}

\* What every receipt-sealed archive holds; the shadow bank is optional.
RequiredLabels == HeadLabels

\* A skill bank holds the fields of the corpora it was reconciled with.
Banks == [corpora : SUBSET Corpora, gen : Nat]

Memories == [corpus : Corpora, bank : Option(Banks), certified : BOOLEAN]

Statuses == {"certified", "revoked"}

SleepStates == [corpus : Corpora, evidence : Option(Bundles),
                status : Statuses, bank : Option(Banks), promoted : BOOLEAN]

SleepKeys == [corpus : Corpora, evidence : Option(Bundles),
              status : Statuses, bank : Option(Banks)]

\* sleep_operation_key: the promotion flag of a state is not in its key.
SleepKey(s) == [corpus |-> s.corpus, evidence |-> s.evidence,
                status |-> s.status, bank |-> s.bank]

\* The memory snapshot a sleep installs with state s.
MemoryOf(s) == [corpus |-> s.corpus, bank |-> s.bank,
                certified |-> s.status = "certified"]

\* The memory and the shadow bank a corpus commit derives from corpus c.
CommitMemory(c) == [corpus |-> c, bank |-> None, certified |-> TRUE]
CommitShadow(c) == [corpora |-> {c}, gen |-> 1]

\* learning_finalization_operation_key; New(k) is a function of its input.
Keys == [input : Inputs, prior : Corpora]
New(k) == NewCorpus[k.input]

\* A store of every label, as a record.
Stores == [observations : Option(Corpora), skill_bank : Option(Banks),
           shadow_skill_bank : Option(Banks), memory_current : Option(Memories),
           sleep_state : Option(SleepStates),
           sleep_evidence_current : Option(Bundles)]

Phases == {"IntentRecorded", "PriorArchived", "NewCorpusStaged",
           "NewCorpusPublished", "CommitSealed", "ReceiptSealed"}

\* None is none of these either: it stands for the file that is not there.
ASSUME NoneIsNoRecord ==
    None \notin Banks \union Memories \union Keys \union Stores \union Phases

Events == [kind : {"sleep"}, op : SleepStates]
            \union [kind : {"commit"}, op : Corpora]
            \union [kind : {"transition"}, op : Keys]

SleepPlans == [state : SleepStates, promote : BOOLEAN]

\* The values a file with label l can hold.
Holds(l) ==
    CASE l = "observations"           -> Corpora
      [] l = "skill_bank"             -> Banks
      [] l = "shadow_skill_bank"      -> Banks
      [] l = "memory_current"         -> Memories
      [] l = "sleep_state"            -> SleepStates
      [] l = "sleep_evidence_current" -> Bundles

\* f gives every label in L a value of its kind, or None.
IsStore(f, L) == /\ f = [l \in L |-> f[l]]
                 /\ \A l \in L : f[l] \in Option(Holds(l))

EmptyStore == [l \in Labels |-> None]

-----------------------------------------------------------------------------
VARIABLES
    live,        \* label -> current file, the live authority pointers
    archive,     \* key -> label -> file, corpus_transitions/by-operation/<key>
    archiveDirs, \* keys whose by-operation directory exists
    inflight,    \* key -> "none", "made" (directory only) or "intent"
    closed,      \* keys whose intent was moved to their archive
    aborted,     \* keys whose intent was moved to corpus_transitions/aborted
    journal,     \* key -> last phase written, or None
    commits,     \* corpus -> "none", "staged" or "sealed" commit transaction
    receipts,    \* key -> the archive its finalization receipt names, or None
    head,        \* canonical_engine_head.json, or None
    ledger,      \* the event ledger
    sleepOpened, \* sleep operation keys that have a transaction directory
    sleepStaged, \* sleep states whose transaction intent was written
    sleepReceipts, \* sleep states that have a receipt
    pc,          \* the next step of the operation that holds the engine lock
    job,         \* the transition key of that operation, or None
    cursor,      \* its position in FileOrder
    prior,       \* prior_runtime_artifacts of the last finalization
    plan         \* what the running sleep installs, or None

durable == <<live, archive, archiveDirs, inflight, closed, aborted, journal,
             commits, receipts, head, ledger, sleepOpened, sleepStaged,
             sleepReceipts>>
control == <<pc, job, cursor, prior, plan>>

\* The order in which finalization retires, and recovery restores, the files
\* other than the observation directory.
FileOrder == <<"skill_bank", "shadow_skill_bank", "memory_current",
               "sleep_state", "sleep_evidence_current">>

-----------------------------------------------------------------------------
(* What the engine reads. *)

\* incomplete_transition_operation_key: the names under inflight/.
Inflight == {k \in Keys : inflight[k] # "none"}

\* require_no_incomplete_corpus_transition
NoIncompleteTransition == Inflight = {}

\* find_v2_event_by_payload_string: exactly one event e; a second one with the
\* same operation key makes the search fail.
FoundOnce(e) == Cardinality({i \in DOMAIN ledger : ledger[i] = e}) = 1

CommitEvent(c) == [kind |-> "commit", op |-> c]
TransitionEvent(k) == [kind |-> "transition", op |-> k]
SleepEvent(s) == [kind |-> "sleep", op |-> s]

SleepEventsOf(key) ==
    {i \in DOMAIN ledger : ledger[i].kind = "sleep"
                             /\ SleepKey(ledger[i].op) = key}

\* verify_sleep_receipt_ledger_binding, for the current sleep state s
SleepReceiptBound(s) ==
    /\ s \in sleepReceipts
    /\ live.sleep_state = s
    /\ Cardinality(SleepEventsOf(SleepKey(s))) = 1
    /\ \A i \in SleepEventsOf(SleepKey(s)) : ledger[i].op = s

\* verify_current_sleep_installation
SleepInstalled(s) ==
    /\ SleepReceiptBound(s)
    /\ live.memory_current = MemoryOf(s)
    /\ live.skill_bank = s.bank
    /\ live.sleep_evidence_current = s.evidence

\* The identities a canonical head pins.
LiveAuthority == [l \in HeadLabels |-> live[l]]

\* verify_current_canonical_engine_head
HeadVerified ==
    /\ head # None
    /\ head.authority = LiveAuthority
    /\ Inflight = IF head.incomplete = None THEN {} ELSE {head.incomplete}

\* runtime_integrity_health: integrity_healthy, which includes
\* current_corpus_bound
IntegrityHealthy ==
    /\ HeadVerified
    /\ NoIncompleteTransition
    /\ live.observations # None
    /\ live.skill_bank # None
    /\ live.sleep_state # None
    /\ live.sleep_evidence_current # None
    /\ SleepInstalled(live.sleep_state)
    /\ live.sleep_state.corpus = live.observations

\* runtime_integrity_health: execution_authorized, which every composition
\* entry point requires through require_current_certification.  The state
\* is "certified" only if its evidence was verified.
ExecutionAuthorized ==
    IntegrityHealthy /\ live.sleep_state.status = "certified"

\* load_verified_learning_finalization_receipt_under_root, with the intent of
\* k found in state i: the receipt, the current corpus, the commit, the archive
\* and the ledger event have to agree.
ReceiptVerified(k) ==
    /\ receipts[k] # None
    /\ live.observations = New(k)
    /\ commits[New(k)] = "sealed"
    /\ FoundOnce(CommitEvent(New(k)))
    /\ archive[k] = receipts[k]
    /\ archive[k].observations = k.prior
    /\ \A l \in RequiredLabels : archive[k][l] # None
    /\ FoundOnce(TransitionEvent(k))

-----------------------------------------------------------------------------
(* Steps that both operations take. *)

Idle == pc = "idle"

\* The operation ends, on success or on an error it returns, and the engine
\* lock is released.
Release == /\ pc' = "idle"
           /\ job' = None
           /\ cursor' = 1
           /\ plan' = None
           /\ UNCHANGED prior

Goto(next) == pc' = next /\ UNCHANGED <<job, cursor, prior, plan>>

\* Mutant of AdvanceHead: the head pins the shadow bank too.
AdvanceHeadPinsShadow(incomplete) ==
    head' = [authority |-> live, incomplete |-> incomplete]

\* advance_canonical_engine_head and publish_canonical_head, under the engine
\* lock: the pointer is replaced by a snapshot of the live authority before it
\* is verified, so the same head is there whether the call returns an error or
\* not.
AdvanceHead(incomplete) ==
    head' = [authority |-> LiveAuthority, incomplete |-> incomplete]

\* HeadIncomplete::Preserve
Preserved == IF head = None THEN None ELSE head.incomplete

AppendEvent(e) == ledger' = Append(ledger, e)

SetLive(l, v) == live' = [live EXCEPT ![l] = v]

-----------------------------------------------------------------------------
\* A store whose first corpus has been installed by its provider, with an
\* evidence bundle or without one, and on which no operation has run.
StoreInit ==
    /\ \E first \in Provided :
         live = [EmptyStore EXCEPT !.observations = first.corpus,
                                   !.sleep_evidence_current = first.evidence]
    /\ archive = [k \in Keys |-> EmptyStore]
    /\ archiveDirs = {}
    /\ inflight = [k \in Keys |-> "none"]
    /\ closed = {}
    /\ aborted = {}
    /\ journal = [k \in Keys |-> None]
    /\ commits = [c \in Corpora |-> "none"]
    /\ receipts = [k \in Keys |-> None]
    /\ head = None
    /\ ledger = <<>>
    /\ sleepOpened = {}
    /\ sleepStaged = {}
    /\ sleepReceipts = {}
    /\ pc = "idle"
    /\ job = None
    /\ cursor = 1
    /\ prior = EmptyStore
    /\ plan = None
=============================================================================
