------------------------------- MODULE Engine -------------------------------
(***************************************************************************)
(* One engine store, the operations of CorpusTransition and SleepCycle on   *)
(* it, a process that may die between any two durable steps of either, and  *)
(* an evidence installer that runs beside them.                             *)
(*                                                                         *)
(* with_engine_authority takes an exclusive lock on                         *)
(* state/engine_authority.lock for the whole of every operation, and the    *)
(* kernel drops it when the process dies: at most one operation is under    *)
(* way, which is what pc says.                                              *)
(***************************************************************************)
EXTENDS CorpusTransition, SleepCycle

CONSTANTS
    MaxCrashes,   \* bound: process deaths in the middle of an operation
    MaxInstalls   \* bound: evidence bundles published after the first

ASSUME BoundsAssumption == MaxCrashes \in Nat /\ MaxInstalls \in Nat

VARIABLES crashes, installs

counters == <<crashes, installs>>
vars == <<durable, control, counters>>

\* The process dies, or a system call of the operation fails: what was made
\* durable stays.
Crash ==
    /\ ~Idle
    /\ crashes < MaxCrashes
    /\ crashes' = crashes + 1
    /\ Release
    /\ UNCHANGED <<durable, installs>>

Install(b) ==
    /\ installs < MaxInstalls
    /\ installs' = installs + 1
    /\ InstallEvidence(b)
    /\ UNCHANGED crashes

Operate ==
    \/ \E i \in Inputs : BeginFinalize(i)
    \/ \E k \in Keys : CloseByReplay(k)
    \/ \E k \in Keys : RecoverStart(k)
    \/ SleepStart

Continue == FinalizeStep \/ RecoverStep \/ SleepStep

Init == StoreInit /\ crashes = 0 /\ installs = 0

Next ==
    \/ Operate /\ UNCHANGED counters
    \/ Continue /\ UNCHANGED counters
    \/ \E b \in Bundles : Install(b)
    \/ Crash

Spec == Init /\ [][Next]_vars

\* A running operation does its next step, an operator calls recovery while a
\* transition is interrupted, and sleep is called again and again.  Finalizations,
\* crashes and the installer owe nothing.
FairSpec ==
    /\ Spec
    /\ WF_vars(Continue /\ UNCHANGED counters)
    /\ WF_vars(\E k \in Keys : RecoverStart(k) /\ UNCHANGED counters)
    /\ WF_vars(SleepStart /\ UNCHANGED counters)

-----------------------------------------------------------------------------
(* Types. *)

Steps == {"idle", "f_intent", "f_journal_intent", "f_head_set",
          "f_archive_dir", "f_archive_observations", "f_archive", "f_unlink",
          "f_journal_archived", "f_journal_staged", "f_publish",
          "f_journal_published", "f_commit", "f_commit_event", "f_memory",
          "f_shadow", "f_commit_receipt", "f_head_preserve",
          "f_journal_commit", "f_event", "f_receipt", "f_close",
          "f_journal_receipt", "f_head_clear",
          "r_restore", "r_unlink", "r_abort_intent", "r_abort_restored",
          "r_head_clear",
          "s_stage", "s_event", "s_memory", "s_bank", "s_state", "s_receipt",
          "s_head"}

SleepSteps == {"s_stage", "s_event", "s_memory", "s_bank", "s_state",
               "s_receipt", "s_head"}
TransitionSteps == Steps \ (SleepSteps \union {"idle"})

IsHead(h) == /\ h = [authority |-> h.authority, incomplete |-> h.incomplete]
             /\ IsStore(h.authority, HeadLabels)
             /\ h.incomplete \in Option(Keys)

\* The shape of every file.
StoreTypeOK ==
    /\ IsStore(live, Labels)
    /\ archive = [k \in Keys |-> archive[k]]
    /\ \A k \in Keys : IsStore(archive[k], Labels)
    /\ archiveDirs \subseteq Keys
    /\ inflight \in [Keys -> {"none", "made", "intent"}]
    /\ closed \subseteq Keys
    /\ aborted \subseteq Keys
    /\ journal \in [Keys -> Option(Phases)]
    /\ commits \in [Corpora -> {"none", "staged", "sealed"}]
    /\ receipts = [k \in Keys |-> receipts[k]]
    /\ \A k \in Keys : receipts[k] = None \/ IsStore(receipts[k], Labels)
    /\ head = None \/ IsHead(head)
    /\ ledger \in Seq(Events)
    /\ sleepOpened \subseteq SleepKeys
    /\ sleepStaged \subseteq SleepStates
    /\ sleepReceipts \subseteq SleepStates

\* The locals of the running operation: a transition knows its key, a sleep
\* knows its plan.
ControlTypeOK ==
    /\ pc \in Steps
    /\ job \in Option(Keys)
    /\ pc \in TransitionSteps => job \in Keys
    /\ cursor \in 1 .. Len(FileOrder) + 1
    /\ IsStore(prior, Labels)
    /\ plan \in Option(SleepPlans)
    /\ pc \in SleepSteps => plan \in SleepPlans

TypeOK ==
    /\ StoreTypeOK
    /\ ControlTypeOK
    /\ crashes \in 0 .. MaxCrashes
    /\ installs \in 0 .. MaxInstalls

-----------------------------------------------------------------------------
(* Safety. *)

\* The labels only the engine writes.
EngineLabels == HeadLabels \ {"sleep_evidence_current"}

\* While a transition is under way or interrupted, every file of the revoked
\* runtime it replaces is still live or in its archive, whatever was renamed,
\* linked, removed or refused before and wherever the process died.
PriorNeverLost ==
    \A k \in Inflight, l \in EngineLabels :
        prior[l] \in {live[l], archive[k][l]}

\* A finalization receipt stands for a whole transition: its archive is the
\* one it was sealed with and holds every required file of the prior corpus,
\* the commit of the new corpus is sealed, both events are in the ledger
\* exactly once, and the new corpus is live or was itself archived.
ReceiptSealsTransition ==
    \A k \in Keys : receipts[k] # None =>
        /\ archive[k] = receipts[k]
        /\ archive[k].observations = k.prior
        /\ \A l \in RequiredLabels : archive[k][l] # None
        /\ commits[New(k)] = "sealed"
        /\ FoundOnce(CommitEvent(New(k)))
        /\ FoundOnce(TransitionEvent(k))
        /\ New(k) \in {live.observations}
                        \union {archive[j].observations : j \in Keys}

\* commit_finalized_learning_session "cannot carry a prior shadow/active bank
\* into the new parameter/function domain": at rest, the banks hold fields of
\* the live corpus alone, also after crashes, refusals and recoveries.
NoBankCarriedOver ==
    Idle /\ NoIncompleteTransition =>
        \A l \in {"skill_bank", "shadow_skill_bank"} :
            live[l] # None => live[l].corpora = {live.observations}

\* What require_current_certification admits to composition: a promotable
\* corpus, evidence that verifies this corpus and no other, a bank of this
\* corpus alone, and a ledger event that authorised exactly this state.
AuthorizedOnlyOnOwnCorpus ==
    Idle /\ ExecutionAuthorized =>
        /\ live.observations \in Promotable
        /\ Attests[live.sleep_evidence_current] = live.observations
        /\ live.skill_bank.corpora = {live.observations}
        /\ FoundOnce(SleepEvent(live.sleep_state))

\* The journal of a transition never reports a phase whose effect is not
\* durable: an interrupted transition is diagnosed from it.
JournalNeverAhead ==
    \A k \in Keys :
        /\ journal[k] \in {"NewCorpusPublished", "CommitSealed"} /\ k \in Inflight
               => live.observations = New(k)
        /\ journal[k] \in {"CommitSealed", "ReceiptSealed"}
               => commits[New(k)] = "sealed"
        /\ journal[k] = "ReceiptSealed" => receipts[k] # None /\ k \in closed

\* find_v2_event_by_payload_string fails for good on a second event with the
\* same operation key: no crash and no retry may append one.
LedgerUnambiguous ==
    \A i, j \in DOMAIN ledger :
        /\ i # j
        /\ ledger[i].kind = ledger[j].kind
        => IF ledger[i].kind = "sleep"
           THEN SleepKey(ledger[i].op) # SleepKey(ledger[j].op)
           ELSE ledger[i].op # ledger[j].op

\* A recovery that reports RestoredPriorCorpus has given back every file the
\* engine owns and left nothing in the archive.
RestoreGivesBackPrior ==
    pc = "r_abort_restored" =>
        /\ \A l \in EngineLabels : live[l] = prior[l]
        /\ \A l \in Labels : archive[job][l] = None

\* Every sleep receipt has its one ledger event, naming the same state, and no
\* other receipt under its operation key: a state of the same operation with
\* another promotion flag would be a sibling under one identity.
SleepReceiptHasOneEvent ==
    \A s \in sleepReceipts :
        /\ FoundOnce(SleepEvent(s))
        /\ ReceiptsOf(SleepKey(s)) = {s}

\* "The ledger event authorizes pointer changes": no bank is active, or was
\* archived as active, that a certified sleep event does not name.
ActiveBankAuthorized ==
    \A b \in {live.skill_bank} \union {archive[k].skill_bank : k \in Keys} :
        b # None => \E i \in DOMAIN ledger :
                        /\ ledger[i].kind = "sleep"
                        /\ ledger[i].op.bank = b
                        /\ ledger[i].op.status = "certified"

\* Journal, ledger and sleep receipts tell one story of what was done: none is
\* ahead of the others, and none tells it twice.
RecordsAgree == JournalNeverAhead /\ LedgerUnambiguous /\ SleepReceiptHasOneEvent

\* Banks never cross corpora: what is active, archived as active or admitted to
\* composition belongs to one corpus and was authorized for it.
BanksBelongToCorpus ==
    NoBankCarriedOver /\ AuthorizedOnlyOnOwnCorpus /\ ActiveBankAuthorized

-----------------------------------------------------------------------------
(* What a step may never do. *)

\* A step of the transition k: from its prior corpus to none, from none to its
\* new one, or back, with its intent on disk before and after the step.
CorpusMoves(k) ==
    /\ inflight[k] = "intent" /\ inflight'[k] = "intent"
    /\ receipts[k] = None
    /\ <<live.observations, live'.observations>> \in
         {<<k.prior, None>>, <<None, New(k)>>, <<None, k.prior>>}

\* The live corpus moves only while an unsealed intent on disk says which corpus
\* is being replaced by which: what recovery decides from is there whenever the
\* corpus is not where it was.
CorpusMovesUnderIntent ==
    [][live'.observations # live.observations =>
         \E k \in Keys : CorpusMoves(k)]_vars

-----------------------------------------------------------------------------
(* Progress. *)

\* A transition that was sealed does not stay incomplete.
SealedCloses ==
    \A k \in Keys : (receipts[k] # None) ~> (inflight[k] = "none")

Interrupted(k) == Idle /\ inflight[k] = "intent"

\* Recovery settles every interrupted transition that did not publish its
\* corpus, unless the intent of an earlier attempt is in the way.
RecoverySettles ==
    \A k \in Keys :
        (Interrupted(k) /\ live.observations # New(k) /\ k \notin aborted)
            ~> (inflight[k] = "none")

\* However often the evidence moves and the process dies, a transition comes to
\* an end, forwards or backwards.
TransitionsEnd == SealedCloses /\ RecoverySettles

-----------------------------------------------------------------------------
(* What the documentation says, and the code does not do. *)

\* "rolls back an intent that never retired the prior corpus": recovery aborts
\* an intent as untouched only if nothing of the prior runtime is archived.
RollbackOnlyUntouched ==
    pc = "r_abort_intent" => \A l \in Labels : archive[job][l] = None

=============================================================================
