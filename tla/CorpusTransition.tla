------------------------- MODULE CorpusTransition --------------------------
(***************************************************************************)
(* The learning finalization that replaces the live corpus of a revoked     *)
(* runtime, and the recovery of one that was interrupted.  Each action is   *)
(* one durable step; Crash, in Engine, may fall between any two of them.    *)
(***************************************************************************)
EXTENDS EngineStore

-----------------------------------------------------------------------------
(* commit_finalized_learning_session, up to the first durable step. *)

\* No receipt carries this input: the search that comes before any look at the
\* current corpus.
InputUnsealed(i) == \A k \in Keys : k.input = i => receipts[k] = None

\* snapshot_revoked_prior_runtime_artifacts
SnapshotPriorRuntimeArtifacts ==
    prior' = [live EXCEPT !.shadow_skill_bank = None]

\* The guards of a finalization of input i, and the inflight directory it
\* makes.  An archive directory left by an earlier attempt of the same
\* operation refuses the attempt.
BeginFinalize(i) ==
    LET k == [input |-> i, prior |-> live.observations]
    IN  /\ Idle
        /\ NewCorpus[i] \in Promotable
        /\ InputUnsealed(i)
        /\ NoIncompleteTransition
        /\ live.observations \notin {None, NewCorpus[i]}
        /\ IntegrityHealthy
        /\ live.sleep_state.status = "revoked"
        /\ k \notin archiveDirs
        /\ inflight' = [inflight EXCEPT ![k] = "made"]
        /\ pc' = "f_intent"
        /\ job' = k
        /\ SnapshotPriorRuntimeArtifacts
        /\ UNCHANGED <<live, archive, archiveDirs, closed, aborted, journal,
                       commits, receipts, head, ledger, sleepOpened,
                       sleepStaged, sleepReceipts, cursor, plan>>

\* The finalization of an input that already has a receipt closes the inflight
\* intent of that receipt, if it is still there and everything verifies, and
\* returns the receipt.  It does not touch the head.
CloseByReplay(k) ==
    /\ Idle
    /\ receipts[k] # None
    /\ Inflight = {k}
    /\ inflight[k] = "intent"
    /\ ReceiptVerified(k)
    /\ inflight' = [inflight EXCEPT ![k] = "none"]
    /\ closed' = closed \union {k}
    /\ UNCHANGED <<live, archive, archiveDirs, aborted, journal, commits,
                   receipts, head, ledger, sleepOpened, sleepStaged,
                   sleepReceipts, pc, job, cursor, prior, plan>>

-----------------------------------------------------------------------------
(* The finalization from its intent on. *)

\* Mutant of WriteIntent: the intent file is not written.
WriteIntentSkipped ==
    /\ pc = "f_intent"
    /\ Goto("f_journal_intent")
    /\ UNCHANGED durable

WriteIntent ==
    /\ pc = "f_intent"
    /\ inflight' = [inflight EXCEPT ![job] = "intent"]
    /\ Goto("f_journal_intent")
    /\ UNCHANGED <<live, archive, archiveDirs, closed, aborted, journal,
                   commits, receipts, head, ledger, sleepOpened, sleepStaged,
                   sleepReceipts>>

\* The phase each journal write records, and the step after it.
JournalPhase ==
    [f_journal_intent    |-> "IntentRecorded",
     f_journal_archived  |-> "PriorArchived",
     f_journal_staged    |-> "NewCorpusStaged",
     f_journal_published |-> "NewCorpusPublished",
     f_journal_commit    |-> "CommitSealed",
     f_journal_receipt   |-> "ReceiptSealed"]

AfterJournal ==
    [f_journal_intent    |-> "f_head_set",
     f_journal_archived  |-> "f_journal_staged",
     f_journal_staged    |-> "f_publish",
     f_journal_published |-> "f_commit",
     f_journal_commit    |-> "f_event",
     f_journal_receipt   |-> "f_head_clear"]

\* write_transition_journal
WriteTransitionJournal ==
    /\ pc \in DOMAIN JournalPhase
    /\ journal' = [journal EXCEPT ![job] = JournalPhase[pc]]
    /\ Goto(AfterJournal[pc])
    /\ UNCHANGED <<live, archive, archiveDirs, inflight, closed, aborted,
                   commits, receipts, head, ledger, sleepOpened, sleepStaged,
                   sleepReceipts>>

\* advance_canonical_engine_head(Set)
MarkHead ==
    /\ pc = "f_head_set"
    /\ AdvanceHead(job)
    /\ Goto("f_archive_dir")
    /\ UNCHANGED <<live, archive, archiveDirs, inflight, closed, aborted,
                   journal, commits, receipts, ledger, sleepOpened,
                   sleepStaged, sleepReceipts>>

MakeArchiveDir ==
    /\ pc = "f_archive_dir"
    /\ archiveDirs' = archiveDirs \union {job}
    /\ Goto("f_archive_observations")
    /\ UNCHANGED <<live, archive, inflight, closed, aborted, journal, commits,
                   receipts, head, ledger, sleepOpened, sleepStaged,
                   sleepReceipts>>

\* move_private_directory_transactional: one rename takes the directory from
\* the live store to the archive.
ArchiveObservations ==
    /\ pc = "f_archive_observations"
    /\ archive' = [archive EXCEPT ![job].observations = live.observations]
    /\ SetLive("observations", None)
    /\ Goto("f_archive")
    /\ UNCHANGED <<archiveDirs, inflight, closed, aborted, journal, commits,
                   receipts, head, ledger, sleepOpened, sleepStaged,
                   sleepReceipts>>

\* The label at the cursor, while there is one.
AtFile(step) == pc = step /\ cursor \in DOMAIN FileOrder
File == FileOrder[cursor]

\* archive_private_state_file finds the file it expects, or any file where the
\* snapshot names none (the shadow bank).
ArchiveExpected(l) == live[l] # None /\ prior[l] \in {None, live[l]}

\* Mutant of LinkIntoArchive: the live name is removed before the link is made.
UnlinkBeforeLink ==
    /\ AtFile("f_archive")
    /\ ArchiveExpected(File)
    /\ SetLive(File, None)
    /\ Goto("f_unlink")
    /\ UNCHANGED <<archive, archiveDirs, inflight, closed, aborted, journal,
                   commits, receipts, head, ledger, sleepOpened, sleepStaged,
                   sleepReceipts>>

\* move_private_file_transactional: the archive name is linked first and the
\* live name removed after it, so a crash can leave both.
LinkIntoArchive ==
    /\ AtFile("f_archive")
    /\ ArchiveExpected(File)
    /\ archive' = [archive EXCEPT ![job][File] = live[File]]
    /\ Goto("f_unlink")
    /\ UNCHANGED <<live, archiveDirs, inflight, closed, aborted, journal,
                   commits, receipts, head, ledger, sleepOpened, sleepStaged,
                   sleepReceipts>>

\* The live name is removed only if it is still the inode that was linked.
UnlinkLive ==
    /\ AtFile("f_unlink")
    /\ live[File] = archive[job][File]
    /\ SetLive(File, None)
    /\ pc' = "f_archive"
    /\ cursor' = cursor + 1
    /\ UNCHANGED <<archive, archiveDirs, inflight, closed, aborted, journal,
                   commits, receipts, head, ledger, sleepOpened, sleepStaged,
                   sleepReceipts, job, prior, plan>>

\* An optional file that is absent has nothing to archive.
SkipAbsent ==
    /\ AtFile("f_archive")
    /\ live[File] = None
    /\ prior[File] = None
    /\ cursor' = cursor + 1
    /\ UNCHANGED <<durable, pc, job, prior, plan>>

\* A file that is not the one the snapshot named stops the finalization, which
\* stays visibly incomplete.
ArchiveRefused ==
    /\ \/ /\ AtFile("f_archive")
          /\ prior[File] \notin {None, live[File]}
       \/ /\ AtFile("f_unlink")
          /\ live[File] # archive[job][File]
    /\ Release
    /\ UNCHANGED durable

AllArchived ==
    /\ pc = "f_archive"
    /\ cursor = Len(FileOrder) + 1
    /\ pc' = "f_journal_archived"
    /\ cursor' = 1
    /\ UNCHANGED <<durable, job, prior, plan>>

\* persist_observations with no live directory: the staged directory becomes
\* the live one in one rename.
PublishCorpus ==
    /\ pc = "f_publish"
    /\ SetLive("observations", New(job))
    /\ Goto("f_journal_published")
    /\ UNCHANGED <<archive, archiveDirs, inflight, closed, aborted, journal,
                   commits, receipts, head, ledger, sleepOpened, sleepStaged,
                   sleepReceipts>>

-----------------------------------------------------------------------------
(* commit_after_verified_corpus_transition *)

\* The commit transaction of a corpus that was not committed before; the live
\* shadow bank has to be gone.
StageCommit ==
    /\ pc = "f_commit"
    /\ live.shadow_skill_bank = None
    /\ commits[New(job)] = "none"
    /\ commits' = [commits EXCEPT ![New(job)] = "staged"]
    /\ Goto("f_commit_event")
    /\ UNCHANGED <<live, archive, archiveDirs, inflight, closed, aborted,
                   journal, receipts, head, ledger, sleepOpened, sleepStaged,
                   sleepReceipts>>

\* A corpus that has a commit receipt takes the branch that verifies it, and
\* that branch reads the current memory and the current shadow bank, which
\* this finalization has just archived.
CommitRefused ==
    /\ pc = "f_commit"
    /\ ~(live.shadow_skill_bank = None /\ commits[New(job)] = "none")
    /\ Release
    /\ UNCHANGED durable

\* No event carries the key of a commit whose transaction was just staged, so
\* the search before the append finds none.
AppendCommitEvent ==
    /\ pc = "f_commit_event"
    /\ AppendEvent(CommitEvent(New(job)))
    /\ Goto("f_memory")
    /\ UNCHANGED <<live, archive, archiveDirs, inflight, closed, aborted,
                   journal, commits, receipts, head, sleepOpened, sleepStaged,
                   sleepReceipts>>

InstallCommitMemory ==
    /\ pc = "f_memory"
    /\ SetLive("memory_current", CommitMemory(New(job)))
    /\ Goto("f_shadow")
    /\ UNCHANGED <<archive, archiveDirs, inflight, closed, aborted, journal,
                   commits, receipts, head, ledger, sleepOpened, sleepStaged,
                   sleepReceipts>>

InstallShadowBank ==
    /\ pc = "f_shadow"
    /\ SetLive("shadow_skill_bank", CommitShadow(New(job)))
    /\ Goto("f_commit_receipt")
    /\ UNCHANGED <<archive, archiveDirs, inflight, closed, aborted, journal,
                   commits, receipts, head, ledger, sleepOpened, sleepStaged,
                   sleepReceipts>>

SealCommit ==
    /\ pc = "f_commit_receipt"
    /\ commits' = [commits EXCEPT ![New(job)] = "sealed"]
    /\ Goto("f_head_preserve")
    /\ UNCHANGED <<live, archive, archiveDirs, inflight, closed, aborted,
                   journal, receipts, head, ledger, sleepOpened, sleepStaged,
                   sleepReceipts>>

\* advance_canonical_engine_head(Preserve)
PreserveHead ==
    /\ pc = "f_head_preserve"
    /\ AdvanceHead(Preserved)
    /\ Goto("f_journal_commit")
    /\ UNCHANGED <<live, archive, archiveDirs, inflight, closed, aborted,
                   journal, commits, receipts, ledger, sleepOpened,
                   sleepStaged, sleepReceipts>>

-----------------------------------------------------------------------------
(* The seal of the finalization. *)

\* Mutant of AppendTransitionEvent: the receipt is sealed without the event.
SkipTransitionEvent ==
    /\ pc = "f_event"
    /\ Goto("f_receipt")
    /\ UNCHANGED durable

\* Unlike the commit event, this one is appended without a search.
AppendTransitionEvent ==
    /\ pc = "f_event"
    /\ AppendEvent(TransitionEvent(job))
    /\ Goto("f_receipt")
    /\ UNCHANGED <<live, archive, archiveDirs, inflight, closed, aborted,
                   journal, commits, receipts, head, sleepOpened, sleepStaged,
                   sleepReceipts>>

SealReceipt ==
    /\ pc = "f_receipt"
    /\ receipts' = [receipts EXCEPT ![job] = archive[job]]
    /\ Goto("f_close")
    /\ UNCHANGED <<live, archive, archiveDirs, inflight, closed, aborted,
                   journal, commits, head, ledger, sleepOpened, sleepStaged,
                   sleepReceipts>>

\* The intent directory is renamed into the archive.
CloseIntent ==
    /\ pc = "f_close"
    /\ inflight' = [inflight EXCEPT ![job] = "none"]
    /\ closed' = closed \union {job}
    /\ Goto("f_journal_receipt")
    /\ UNCHANGED <<live, archive, archiveDirs, aborted, journal, commits,
                   receipts, head, ledger, sleepOpened, sleepStaged,
                   sleepReceipts>>

\* advance_canonical_engine_head(Clear), the last step of a finalization and
\* of a recovery.
ClearHead ==
    /\ pc \in {"f_head_clear", "r_head_clear"}
    /\ AdvanceHead(None)
    /\ Release
    /\ UNCHANGED <<live, archive, archiveDirs, inflight, closed, aborted,
                   journal, commits, receipts, ledger, sleepOpened,
                   sleepStaged, sleepReceipts>>

-----------------------------------------------------------------------------
(* recover_incomplete_corpus_transition.  The outcomes that change nothing   *)
(* (NoIncompleteTransition, RequiresOriginalFinalizationReplay, and the two  *)
(* rejections) are stutters.                                                 *)

\* The transition under recovery: the only inflight name.
Recovers(k) == Idle /\ Inflight = {k}

\* A receipt closes the intent; everything it binds is verified first.
RecoverClose(k) ==
    /\ Recovers(k)
    /\ receipts[k] # None
    /\ inflight[k] = "intent"
    /\ ReceiptVerified(k)
    /\ inflight' = [inflight EXCEPT ![k] = "none"]
    /\ closed' = closed \union {k}
    /\ pc' = "r_head_clear"
    /\ job' = k
    /\ UNCHANGED <<live, archive, archiveDirs, aborted, journal, commits,
                   receipts, head, ledger, sleepOpened, sleepStaged,
                   sleepReceipts, cursor, prior, plan>>

\* Mutant of Classify: a live prior corpus is rejected before it is recognised.
ClassifyRejectsLive(liveCorpus, priorCorpus, newCorpus, archived) ==
    IF liveCorpus = newCorpus THEN "RequiresOriginalFinalizationReplay"
    ELSE IF liveCorpus # None THEN "RejectUnrecognizedLiveCorpus"
    ELSE IF ~archived THEN "RollBackIntent"
    ELSE "RestorePriorCorpus"

\* classify_unsealed_corpus_recovery
Classify(liveCorpus, priorCorpus, newCorpus, archived) ==
    IF liveCorpus = newCorpus THEN "RequiresOriginalFinalizationReplay"
    ELSE IF liveCorpus \notin {None, priorCorpus}
         THEN "RejectUnrecognizedLiveCorpus"
    ELSE IF ~archived THEN "RollBackIntent"
    ELSE IF liveCorpus # None THEN "RejectLiveAndArchiveBothPresent"
    ELSE "RestorePriorCorpus"

Decision(k) == Classify(live.observations, k.prior, New(k),
                        archive[k].observations # None)

Unsealed(k) == Recovers(k) /\ receipts[k] = None /\ inflight[k] = "intent"

\* restore_archived_prior_corpus: the observation directory goes back first,
\* in one rename.
RecoverRestore(k) ==
    /\ Unsealed(k)
    /\ Decision(k) = "RestorePriorCorpus"
    /\ SetLive("observations", archive[k].observations)
    /\ archive' = [archive EXCEPT ![k].observations = None]
    /\ pc' = "r_restore"
    /\ job' = k
    /\ UNCHANGED <<archiveDirs, inflight, closed, aborted, journal, commits,
                   receipts, head, ledger, sleepOpened, sleepStaged,
                   sleepReceipts, cursor, prior, plan>>

RecoverRollback(k) ==
    /\ Unsealed(k)
    /\ Decision(k) = "RollBackIntent"
    /\ pc' = "r_abort_intent"
    /\ job' = k
    /\ UNCHANGED <<durable, cursor, prior, plan>>

\* Each archived file is linked back to its live name, then removed from the
\* archive.
LinkBack ==
    /\ AtFile("r_restore")
    /\ archive[job][File] # None
    /\ live[File] = None
    /\ SetLive(File, archive[job][File])
    /\ Goto("r_unlink")
    /\ UNCHANGED <<archive, archiveDirs, inflight, closed, aborted, journal,
                   commits, receipts, head, ledger, sleepOpened, sleepStaged,
                   sleepReceipts>>

UnlinkArchived ==
    /\ AtFile("r_unlink")
    /\ live[File] = archive[job][File]
    /\ archive' = [archive EXCEPT ![job][File] = None]
    /\ pc' = "r_restore"
    /\ cursor' = cursor + 1
    /\ UNCHANGED <<live, archiveDirs, inflight, closed, aborted, journal,
                   commits, receipts, head, ledger, sleepOpened, sleepStaged,
                   sleepReceipts, job, prior, plan>>

\* The live name is read back once the archived one is gone: evidence that was
\* published in between fails the comparison.
RestoreReplaced ==
    /\ AtFile("r_unlink")
    /\ live[File] # archive[job][File]
    /\ archive' = [archive EXCEPT ![job][File] = None]
    /\ Release
    /\ UNCHANGED <<live, archiveDirs, inflight, closed, aborted, journal,
                   commits, receipts, head, ledger, sleepOpened, sleepStaged,
                   sleepReceipts>>

SkipNotArchived ==
    /\ AtFile("r_restore")
    /\ archive[job][File] = None
    /\ cursor' = cursor + 1
    /\ UNCHANGED <<durable, pc, job, prior, plan>>

\* Mutant of RestoreRefused: a live file in the way is left where it is.
RestoreSkipsOccupied ==
    /\ AtFile("r_restore")
    /\ archive[job][File] # None
    /\ live[File] # None
    /\ cursor' = cursor + 1
    /\ UNCHANGED <<durable, pc, job, prior, plan>>

\* A live file in the way stops the restoration: the observations and the
\* files before it are already back.
RestoreRefused ==
    /\ AtFile("r_restore")
    /\ archive[job][File] # None
    /\ live[File] # None
    /\ Release
    /\ UNCHANGED durable

AllRestored ==
    /\ pc = "r_restore"
    /\ cursor = Len(FileOrder) + 1
    /\ pc' = "r_abort_restored"
    /\ cursor' = 1
    /\ UNCHANGED <<durable, job, prior, plan>>

Aborting == pc \in {"r_abort_intent", "r_abort_restored"}

\* abort_inflight_transition
AbortInflight ==
    /\ Aborting
    /\ job \notin aborted
    /\ inflight' = [inflight EXCEPT ![job] = "none"]
    /\ aborted' = aborted \union {job}
    /\ Goto("r_head_clear")
    /\ UNCHANGED <<live, archive, archiveDirs, closed, journal, commits,
                   receipts, head, ledger, sleepOpened, sleepStaged,
                   sleepReceipts>>

\* The rename has no replace: the intent of an earlier attempt of the same
\* operation is in its way.
AbortRefused ==
    /\ Aborting
    /\ job \in aborted
    /\ Release
    /\ UNCHANGED durable

-----------------------------------------------------------------------------
FinalizeStep ==
    \/ WriteIntent
    \/ WriteTransitionJournal
    \/ MarkHead
    \/ MakeArchiveDir
    \/ ArchiveObservations
    \/ LinkIntoArchive
    \/ UnlinkLive
    \/ SkipAbsent
    \/ ArchiveRefused
    \/ AllArchived
    \/ PublishCorpus
    \/ StageCommit
    \/ CommitRefused
    \/ AppendCommitEvent
    \/ InstallCommitMemory
    \/ InstallShadowBank
    \/ SealCommit
    \/ PreserveHead
    \/ AppendTransitionEvent
    \/ SealReceipt
    \/ CloseIntent

RecoverStart(k) == RecoverClose(k) \/ RecoverRestore(k) \/ RecoverRollback(k)

RecoverStep ==
    \/ LinkBack
    \/ UnlinkArchived
    \/ RestoreReplaced
    \/ SkipNotArchived
    \/ RestoreRefused
    \/ AllRestored
    \/ AbortInflight
    \/ AbortRefused
    \/ ClearHead
=============================================================================
