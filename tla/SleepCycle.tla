----------------------------- MODULE SleepCycle -----------------------------
(***************************************************************************)
(* The sleep cycle: it certifies the live corpus against the published      *)
(* evidence, or revokes it, and installs memory, bank and sleep state under *)
(* one ledger event and one receipt.  The evidence pointer belongs to an    *)
(* installer outside the engine that does not take the engine lock.         *)
(***************************************************************************)
EXTENDS EngineStore

-----------------------------------------------------------------------------
(* sleep_cycle, up to the first durable step. *)

\* authorize_empty_bank_bootstrap
EmptyBankBootstrapAuthorized ==
    live.sleep_state # None =>
        /\ live.sleep_state.status = "revoked"
        /\ ~live.sleep_state.promoted
        /\ live.sleep_state.bank = None
        /\ SleepInstalled(live.sleep_state)

\* The evidence verifies the report of the live corpus.
Certified ==
    /\ live.observations \in Promotable
    /\ live.sleep_evidence_current # None
    /\ Attests[live.sleep_evidence_current] = live.observations

PreviousSameCertified ==
    /\ live.sleep_state # None
    /\ live.sleep_state.corpus = live.observations
    /\ live.sleep_state.status = "certified"

ShouldPromote == Certified /\ ~PreviousSameCertified

\* reconcile_full_corpus adds the fields of the corpus to those of the bank that
\* is live, if there is one, and gives the result the next generation.
NextBank ==
    IF live.skill_bank = None
    THEN [corpora |-> {live.observations}, gen |-> 1]
    ELSE [corpora |-> live.skill_bank.corpora \union {live.observations},
          gen     |-> live.skill_bank.gen + 1]

FreshState ==
    [corpus   |-> live.observations,
     evidence |-> live.sleep_evidence_current,
     status   |-> IF Certified THEN "certified" ELSE "revoked",
     bank     |-> IF ShouldPromote THEN NextBank ELSE live.skill_bank,
     promoted |-> ShouldPromote]

\* Replaying the operation of the current sleep state keeps that state.
PlannedState ==
    IF /\ live.sleep_state # None
       /\ SleepKey(live.sleep_state) = SleepKey(FreshState)
    THEN live.sleep_state
    ELSE FreshState

MayPlanSleep ==
    /\ Idle
    /\ NoIncompleteTransition
    /\ live.observations # None
    /\ live.skill_bank = None => EmptyBankBootstrapAuthorized
    /\ ShouldPromote /\ live.skill_bank # None => live.skill_bank.gen < MaxGen

Plan(next) ==
    /\ plan' = [state |-> PlannedState, promote |-> ShouldPromote]
    /\ pc' = next
    /\ UNCHANGED <<job, cursor, prior>>

ReceiptsOf(key) == {s \in sleepReceipts : SleepKey(s) = key}

\* The operation has a receipt: it is verified, then only the head is written.
ReplaySleep ==
    /\ MayPlanSleep
    /\ PlannedState \in sleepReceipts
    /\ live.sleep_state = PlannedState
    /\ SleepInstalled(PlannedState)
    /\ Plan("s_head")
    /\ UNCHANGED durable

\* The operation was staged by an earlier attempt with the same content.
ResumeSleep ==
    /\ MayPlanSleep
    /\ ReceiptsOf(SleepKey(PlannedState)) = {}
    /\ SleepKey(PlannedState) \in sleepOpened
    /\ PlannedState \in sleepStaged
    /\ Plan("s_event")
    /\ UNCHANGED durable

\* A new operation makes its transaction directory; the intent comes last, so
\* a crash before it leaves a directory that no attempt accepts.
OpenSleep ==
    /\ MayPlanSleep
    /\ ReceiptsOf(SleepKey(PlannedState)) = {}
    /\ SleepKey(PlannedState) \notin sleepOpened
    /\ sleepOpened' = sleepOpened \union {SleepKey(PlannedState)}
    /\ Plan("s_stage")
    /\ UNCHANGED <<live, archive, archiveDirs, inflight, closed, aborted,
                   journal, commits, receipts, head, ledger, sleepStaged,
                   sleepReceipts>>

-----------------------------------------------------------------------------
(* The steps of the transaction. *)

\* verify_current_sleep_evidence_pointer
EvidenceUnchanged == live.sleep_evidence_current = plan.state.evidence

\* Mutant of StageSleep: the pointers are moved before the event is recorded.
StageInstallsBank ==
    /\ pc = "s_stage"
    /\ sleepStaged' = sleepStaged \union {plan.state}
    /\ SetLive("skill_bank", plan.state.bank)
    /\ Goto("s_event")
    /\ UNCHANGED <<archive, archiveDirs, inflight, closed, aborted, journal,
                   commits, receipts, head, ledger, sleepOpened, sleepReceipts>>

StageSleep ==
    /\ pc = "s_stage"
    /\ sleepStaged' = sleepStaged \union {plan.state}
    /\ Goto("s_event")
    /\ UNCHANGED <<live, archive, archiveDirs, inflight, closed, aborted,
                   journal, commits, receipts, head, ledger, sleepOpened,
                   sleepReceipts>>

Recorded == SleepEventsOf(SleepKey(plan.state))

\* find_v2_event_by_payload_string and verify_sleep_transaction_ledger_binding:
\* an event that was found has to be the only one and to name this state.
EventUsable == /\ Cardinality(Recorded) \in {0, 1}
               /\ \A i \in Recorded : ledger[i].op = plan.state

\* Mutant of AuthorizeSleep: the event is appended without a search.
AuthorizeAgain ==
    /\ pc = "s_event"
    /\ EvidenceUnchanged
    /\ AppendEvent(SleepEvent(plan.state))
    /\ Goto("s_memory")
    /\ UNCHANGED <<live, archive, archiveDirs, inflight, closed, aborted,
                   journal, commits, receipts, head, sleepOpened, sleepStaged,
                   sleepReceipts>>

\* The event of this operation is found, or appended.
AuthorizeSleep ==
    /\ pc = "s_event"
    /\ EvidenceUnchanged
    /\ EventUsable
    /\ IF Recorded = {} THEN AppendEvent(SleepEvent(plan.state))
                        ELSE UNCHANGED ledger
    /\ Goto("s_memory")
    /\ UNCHANGED <<live, archive, archiveDirs, inflight, closed, aborted,
                   journal, commits, receipts, head, sleepOpened, sleepStaged,
                   sleepReceipts>>

InstallMemory ==
    /\ pc = "s_memory"
    /\ SetLive("memory_current", MemoryOf(plan.state))
    /\ Goto(IF plan.promote THEN "s_bank" ELSE "s_state")
    /\ UNCHANGED <<archive, archiveDirs, inflight, closed, aborted, journal,
                   commits, receipts, head, ledger, sleepOpened, sleepStaged,
                   sleepReceipts>>

InstallBank ==
    /\ pc = "s_bank"
    /\ SetLive("skill_bank", plan.state.bank)
    /\ Goto("s_state")
    /\ UNCHANGED <<archive, archiveDirs, inflight, closed, aborted, journal,
                   commits, receipts, head, ledger, sleepOpened, sleepStaged,
                   sleepReceipts>>

\* The evidence, where there is one, is read again before the state.
InstallSleepState ==
    /\ pc = "s_state"
    /\ plan.state.evidence # None => EvidenceUnchanged
    /\ SetLive("sleep_state", plan.state)
    /\ Goto("s_receipt")
    /\ UNCHANGED <<archive, archiveDirs, inflight, closed, aborted, journal,
                   commits, receipts, head, ledger, sleepOpened, sleepStaged,
                   sleepReceipts>>

SealSleep ==
    /\ pc = "s_receipt"
    /\ sleepReceipts' = sleepReceipts \union {plan.state}
    /\ Goto("s_head")
    /\ UNCHANGED <<live, archive, archiveDirs, inflight, closed, aborted,
                   journal, commits, receipts, head, ledger, sleepOpened,
                   sleepStaged>>

\* verify_current_sleep_installation, then
\* advance_canonical_engine_head(Preserve)
FinishSleep ==
    /\ pc = "s_head"
    /\ SleepInstalled(plan.state)
    /\ AdvanceHead(Preserved)
    /\ Release
    /\ UNCHANGED <<live, archive, archiveDirs, inflight, closed, aborted,
                   journal, commits, receipts, ledger, sleepOpened,
                   sleepStaged, sleepReceipts>>

\* A check of the evidence or of the installation fails.
SleepRefused ==
    /\ \/ pc = "s_event" /\ ~(EvidenceUnchanged /\ EventUsable)
       \/ pc = "s_state" /\ plan.state.evidence # None /\ ~EvidenceUnchanged
       \/ pc = "s_head" /\ ~SleepInstalled(plan.state)
    /\ Release
    /\ UNCHANGED durable

-----------------------------------------------------------------------------
\* The installer replaces the evidence pointer, at any time.
InstallEvidence(b) ==
    /\ b # live.sleep_evidence_current
    /\ SetLive("sleep_evidence_current", b)
    /\ UNCHANGED <<archive, archiveDirs, inflight, closed, aborted, journal,
                   commits, receipts, head, ledger, sleepOpened, sleepStaged,
                   sleepReceipts, control>>

-----------------------------------------------------------------------------
SleepStart == ReplaySleep \/ ResumeSleep \/ OpenSleep

SleepStep ==
    \/ StageSleep
    \/ AuthorizeSleep
    \/ InstallMemory
    \/ InstallBank
    \/ InstallSleepState
    \/ SealSleep
    \/ FinishSleep
    \/ SleepRefused
=============================================================================
