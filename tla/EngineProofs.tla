---------------------------- MODULE EngineProofs ----------------------------
(***************************************************************************)
(* Proofs about Engine for every choice of its constants: its types, and    *)
(* what a corpus transition keeps.  The prior runtime is never lost, a      *)
(* reported restoration is complete, and the live corpus moves only under   *)
(* an intent on disk.  Then what its records say: the ledger tells each     *)
(* operation once, a receipt stands for a whole transition, and no bank     *)
(* crosses from one corpus to another.                                      *)
(***************************************************************************)
EXTENDS Engine, TLAPS, FiniteSetTheorems

-----------------------------------------------------------------------------
(* Stores. *)

\* Writing a value of the right kind at a label keeps a store a store.
LEMMA StoreUpdate ==
    ASSUME NEW L, NEW f, IsStore(f, L), NEW l \in L, NEW v \in Option(Holds(l))
    PROVE  IsStore([f EXCEPT ![l] = v], L)
BY DEF IsStore

\* A store over all labels holds, at each label, a value of its kind or None.
LEMMA StoreAt ==
    ASSUME NEW f, IsStore(f, Labels), NEW l \in Labels
    PROVE  f[l] \in Option(Holds(l))
BY DEF IsStore

\* What each label holds.
LEMMA HoldsAt ==
    /\ Holds("observations") = Corpora
    /\ Holds("skill_bank") = Banks
    /\ Holds("shadow_skill_bank") = Banks
    /\ Holds("memory_current") = Memories
    /\ Holds("sleep_state") = SleepStates
    /\ Holds("sleep_evidence_current") = Bundles
BY DEF Holds

\* No store is None.
LEMMA StoreIsThere ==
    ASSUME NEW f, IsStore(f, Labels)
    PROVE  f # None
<1>1. DOMAIN f = {"observations", "skill_bank", "shadow_skill_bank",
                  "memory_current", "sleep_state", "sleep_evidence_current"}
      BY DEF IsStore, Labels
<1>2. f \in Stores
      BY <1>1, StoreAt, HoldsAt DEF IsStore, Labels, Stores
<1> QED
    BY <1>2, NoneIsNoRecord

LEMMA EmptyStoreIsStore == IsStore(EmptyStore, Labels)
BY DEF IsStore, EmptyStore, Option

\* The files behind the cursor of an archive or a restore are labels.
LEMMA FileOrderIsLabels ==
    /\ Len(FileOrder) = 5
    /\ DOMAIN FileOrder = 1 .. 5
    /\ \A n \in 1 .. 5 : FileOrder[n] \in Labels
BY DEF FileOrder, Labels

\* The authority a head records is a store over the labels it names.
LEMMA LiveAuthorityIsStore ==
    ASSUME IsStore(live, Labels)
    PROVE  IsStore(LiveAuthority, HeadLabels)
BY DEF IsStore, LiveAuthority, HeadLabels

-----------------------------------------------------------------------------
(* Type correctness. *)

\* What the engine reads at one label has the kind of that label.
LEMMA LiveTypes ==
    ASSUME StoreTypeOK
    PROVE  /\ live.observations \in Option(Corpora)
           /\ live.skill_bank \in Option(Banks)
           /\ live.sleep_state \in Option(SleepStates)
           /\ live.sleep_evidence_current \in Option(Bundles)
BY StoreAt, HoldsAt DEF StoreTypeOK, Labels

LEMMA InitTypeOK == Init => TypeOK
<1> SUFFICES ASSUME Init PROVE TypeOK
    OBVIOUS
<1>1. IsStore(live, Labels)
  <2>1. PICK first \in Provided :
            live = [EmptyStore EXCEPT !.observations = first.corpus,
                                      !.sleep_evidence_current = first.evidence]
        BY DEF Init, StoreInit
  <2>2. first.corpus \in Corpora /\ first.evidence \in Option(Bundles)
        BY ConstantsAssumption DEF Option
  <2>3. IsStore([EmptyStore EXCEPT !.observations = first.corpus], Labels)
        BY <2>2, EmptyStoreIsStore, StoreUpdate, HoldsAt DEF Labels, Option
  <2>4. IsStore([[EmptyStore EXCEPT !.observations = first.corpus]
                     EXCEPT !.sleep_evidence_current = first.evidence], Labels)
        BY <2>2, <2>3, StoreUpdate, HoldsAt DEF Labels
  <2> QED
        BY <2>1, <2>4
<1>2. \A k \in Keys : archive[k] = EmptyStore /\ receipts[k] = None
      BY DEF Init, StoreInit
<1>3. StoreTypeOK
      BY <1>1, <1>2, EmptyStoreIsStore DEF Init, StoreInit, StoreTypeOK, Option
<1>4. ControlTypeOK
      BY FileOrderIsLabels, EmptyStoreIsStore
      DEF Init, StoreInit, ControlTypeOK, Option, Steps, TransitionSteps,
          SleepSteps
<1> QED
    BY <1>3, <1>4, BoundsAssumption DEF Init, TypeOK

\* An operation that ends leaves no local to type.
LEMMA ReleaseControl ==
    ASSUME ControlTypeOK, Release
    PROVE  ControlTypeOK'
BY FileOrderIsLabels
DEF ControlTypeOK, Release, Option, Steps, TransitionSteps, SleepSteps

\* A step of a transition, or of a sleep, keeps its locals.
LEMMA GotoControl ==
    ASSUME ControlTypeOK, NEW n, Goto(n),
           \/ pc \in TransitionSteps /\ n \in TransitionSteps
           \/ pc \in SleepSteps /\ n \in SleepSteps
    PROVE  ControlTypeOK'
BY DEF ControlTypeOK, Goto, Option, Steps, TransitionSteps, SleepSteps

\* So does a step that only moves the cursor.
LEMMA CursorControl ==
    ASSUME ControlTypeOK, pc \in TransitionSteps, pc' \in TransitionSteps,
           cursor' \in 1 .. Len(FileOrder) + 1, UNCHANGED <<job, prior, plan>>
    PROVE  ControlTypeOK'
BY DEF ControlTypeOK, Steps, TransitionSteps, SleepSteps

\* The start of a transition.
LEMMA StartControl ==
    ASSUME ControlTypeOK, pc' \in TransitionSteps, job' \in Keys,
           IsStore(prior', Labels), UNCHANGED <<cursor, plan>>
    PROVE  ControlTypeOK'
BY DEF ControlTypeOK, Option, Steps, TransitionSteps, SleepSteps

LEMMA DurableUnchanged ==
    ASSUME StoreTypeOK, UNCHANGED durable
    PROVE  StoreTypeOK'
BY DEF StoreTypeOK, durable

\* The key of a transition and the corpus it installs.
LEMMA JobTypes ==
    ASSUME ControlTypeOK, pc \in TransitionSteps
    PROVE  job \in Keys /\ New(job) \in Corpora
BY ConstantsAssumption DEF ControlTypeOK, Keys, New

\* The file at the cursor.
LEMMA FileTypes ==
    ASSUME NEW step, AtFile(step)
    PROVE  File \in Labels /\ cursor \in 1 .. 5
BY FileOrderIsLabels DEF AtFile, File

\* A publication of the head records a well-formed head.
LEMMA AdvanceHeadTypes ==
    ASSUME StoreTypeOK, NEW x \in Option(Keys), AdvanceHead(x)
    PROVE  IsHead(head')
BY LiveAuthorityIsStore DEF StoreTypeOK, AdvanceHead, IsHead

\* The steps of a finalization keep the types.
LEMMA FinalizeTypes ==
    ASSUME StoreTypeOK, ControlTypeOK, FinalizeStep
    PROVE  StoreTypeOK' /\ ControlTypeOK'
<1> USE DEF StoreTypeOK
<1>1. CASE WriteIntent
  <2>1. pc \in TransitionSteps
        BY <1>1 DEF WriteIntent, TransitionSteps, Steps, SleepSteps
  <2> QED
      BY <1>1, <2>1, JobTypes, GotoControl
      DEF WriteIntent, TransitionSteps, Steps, SleepSteps
<1>2. CASE WriteTransitionJournal
  <2>1. pc \in TransitionSteps /\ AfterJournal[pc] \in TransitionSteps
        BY <1>2 DEF WriteTransitionJournal, JournalPhase, AfterJournal,
                    TransitionSteps, Steps, SleepSteps
  <2>2. JournalPhase[pc] \in Option(Phases)
        BY <1>2 DEF WriteTransitionJournal, JournalPhase, Phases, Option
  <2> QED
      BY <1>2, <2>1, <2>2, JobTypes, GotoControl DEF WriteTransitionJournal
<1>3. CASE MarkHead
  <2>1. pc \in TransitionSteps /\ ControlTypeOK'
        BY <1>3, GotoControl
        DEF MarkHead, TransitionSteps, Steps, SleepSteps
  <2>2. IsHead(head')
        BY <1>3, <2>1, JobTypes, AdvanceHeadTypes DEF MarkHead, Option
  <2> QED
      BY <1>3, <2>1, <2>2 DEF MarkHead
<1>4. CASE MakeArchiveDir
  <2>1. pc \in TransitionSteps /\ ControlTypeOK'
        BY <1>4, GotoControl
        DEF MakeArchiveDir, TransitionSteps, Steps, SleepSteps
  <2> QED
      BY <1>4, <2>1, JobTypes DEF MakeArchiveDir
<1>5. CASE ArchiveObservations
  <2>1. pc \in TransitionSteps /\ ControlTypeOK'
        BY <1>5, GotoControl
        DEF ArchiveObservations, TransitionSteps, Steps, SleepSteps
  <2>2. job \in Keys
        BY <2>1, JobTypes
  <2>3. live.observations \in Option(Holds("observations"))
        BY LiveTypes, HoldsAt
  <2>4. IsStore([archive[job] EXCEPT !["observations"] = live.observations],
                Labels)
        BY <2>2, <2>3, StoreUpdate DEF Labels
  <2>5. archive' = [archive EXCEPT ![job] =
                      [archive[job] EXCEPT !["observations"] = live.observations]]
        BY <1>5 DEF ArchiveObservations
  <2>6. \A k \in Keys : IsStore(archive'[k], Labels)
        BY <2>2, <2>4, <2>5
  <2>7. IsStore(live', Labels)
        BY <1>5, StoreUpdate DEF ArchiveObservations, SetLive, Labels, Option
  <2> QED
      BY <1>5, <2>1, <2>5, <2>6, <2>7 DEF ArchiveObservations
<1>6. CASE LinkIntoArchive
  <2>1. pc \in TransitionSteps /\ ControlTypeOK'
        BY <1>6, GotoControl
        DEF LinkIntoArchive, AtFile, TransitionSteps, Steps, SleepSteps
  <2>2. job \in Keys /\ File \in Labels
        BY <1>6, <2>1, JobTypes, FileTypes DEF LinkIntoArchive
  <2>3. IsStore([archive[job] EXCEPT ![File] = live[File]], Labels)
        BY <2>2, StoreAt, StoreUpdate
  <2>4. archive' = [archive EXCEPT ![job] =
                      [archive[job] EXCEPT ![File] = live[File]]]
        BY <1>6 DEF LinkIntoArchive
  <2>5. \A k \in Keys : IsStore(archive'[k], Labels)
        BY <2>2, <2>3, <2>4
  <2> QED
      BY <1>6, <2>1, <2>4, <2>5 DEF LinkIntoArchive
<1>7. CASE UnlinkLive
  <2>1. ControlTypeOK'
        BY <1>7, CursorControl, FileOrderIsLabels
        DEF UnlinkLive, AtFile, TransitionSteps, Steps, SleepSteps
  <2>2. IsStore(live', Labels)
        BY <1>7, FileTypes, StoreUpdate DEF UnlinkLive, SetLive, Option
  <2> QED
      BY <1>7, <2>1, <2>2 DEF UnlinkLive
<1>8. CASE SkipAbsent
  <2>1. ControlTypeOK'
        BY <1>8, CursorControl, FileOrderIsLabels
        DEF SkipAbsent, AtFile, TransitionSteps, Steps, SleepSteps
  <2> QED
      BY <1>8, <2>1, DurableUnchanged DEF SkipAbsent
<1>9. CASE ArchiveRefused
      BY <1>9, ReleaseControl, DurableUnchanged DEF ArchiveRefused
<1>10. CASE AllArchived
  <2>1. ControlTypeOK'
        BY <1>10, CursorControl, FileOrderIsLabels
        DEF AllArchived, TransitionSteps, Steps, SleepSteps
  <2> QED
      BY <1>10, <2>1, DurableUnchanged DEF AllArchived
<1>11. CASE PublishCorpus
  <2>1. pc \in TransitionSteps /\ ControlTypeOK'
        BY <1>11, GotoControl
        DEF PublishCorpus, TransitionSteps, Steps, SleepSteps
  <2>2. IsStore(live', Labels)
        BY <1>11, <2>1, JobTypes, StoreUpdate, HoldsAt
        DEF PublishCorpus, SetLive, Labels, Option
  <2> QED
      BY <1>11, <2>1, <2>2 DEF PublishCorpus
<1>12. CASE StageCommit
  <2>1. pc \in TransitionSteps /\ ControlTypeOK'
        BY <1>12, GotoControl
        DEF StageCommit, TransitionSteps, Steps, SleepSteps
  <2> QED
      BY <1>12, <2>1, JobTypes DEF StageCommit
<1>13. CASE CommitRefused
      BY <1>13, ReleaseControl, DurableUnchanged DEF CommitRefused
<1>14. CASE AppendCommitEvent
  <2>1. pc \in TransitionSteps /\ ControlTypeOK'
        BY <1>14, GotoControl
        DEF AppendCommitEvent, TransitionSteps, Steps, SleepSteps
  <2>2. CommitEvent(New(job)) \in Events
        BY <2>1, JobTypes DEF CommitEvent, Events
  <2>3. ledger' \in Seq(Events)
        BY <1>14, <2>2 DEF AppendCommitEvent, AppendEvent
  <2> QED
      BY <1>14, <2>1, <2>3 DEF AppendCommitEvent
<1>15. CASE InstallCommitMemory
  <2>1. pc \in TransitionSteps /\ ControlTypeOK'
        BY <1>15, GotoControl
        DEF InstallCommitMemory, TransitionSteps, Steps, SleepSteps
  <2>2. CommitMemory(New(job)) \in Option(Holds("memory_current"))
        BY <2>1, JobTypes, HoldsAt DEF CommitMemory, Memories, Option
  <2>3. IsStore(live', Labels)
        BY <1>15, <2>2, StoreUpdate DEF InstallCommitMemory, SetLive, Labels
  <2> QED
      BY <1>15, <2>1, <2>3 DEF InstallCommitMemory
<1>16. CASE InstallShadowBank
  <2>1. pc \in TransitionSteps /\ ControlTypeOK'
        BY <1>16, GotoControl
        DEF InstallShadowBank, TransitionSteps, Steps, SleepSteps
  <2>2. CommitShadow(New(job)) \in Option(Holds("shadow_skill_bank"))
        BY <2>1, JobTypes, HoldsAt DEF CommitShadow, Banks, Option
  <2>3. IsStore(live', Labels)
        BY <1>16, <2>2, StoreUpdate DEF InstallShadowBank, SetLive, Labels
  <2> QED
      BY <1>16, <2>1, <2>3 DEF InstallShadowBank
<1>17. CASE SealCommit
  <2>1. pc \in TransitionSteps /\ ControlTypeOK'
        BY <1>17, GotoControl
        DEF SealCommit, TransitionSteps, Steps, SleepSteps
  <2> QED
      BY <1>17, <2>1, JobTypes DEF SealCommit
<1>18. CASE PreserveHead
  <2>1. pc \in TransitionSteps /\ ControlTypeOK'
        BY <1>18, GotoControl
        DEF PreserveHead, TransitionSteps, Steps, SleepSteps
  <2>2. Preserved \in Option(Keys)
        BY DEF Preserved, IsHead, Option
  <2>3. IsHead(head')
        BY <1>18, <2>2, AdvanceHeadTypes DEF PreserveHead
  <2> QED
      BY <1>18, <2>1, <2>3 DEF PreserveHead
<1>19. CASE AppendTransitionEvent
  <2>1. pc \in TransitionSteps /\ ControlTypeOK'
        BY <1>19, GotoControl
        DEF AppendTransitionEvent, TransitionSteps, Steps, SleepSteps
  <2>2. TransitionEvent(job) \in Events
        BY <2>1, JobTypes DEF TransitionEvent, Events
  <2>3. ledger' \in Seq(Events)
        BY <1>19, <2>2 DEF AppendTransitionEvent, AppendEvent
  <2> QED
      BY <1>19, <2>1, <2>3 DEF AppendTransitionEvent
<1>20. CASE SealReceipt
  <2>1. pc \in TransitionSteps /\ ControlTypeOK'
        BY <1>20, GotoControl
        DEF SealReceipt, TransitionSteps, Steps, SleepSteps
  <2>2. job \in Keys /\ IsStore(archive[job], Labels)
        BY <2>1, JobTypes
  <2>3. receipts' = [receipts EXCEPT ![job] = archive[job]]
        BY <1>20 DEF SealReceipt
  <2>4. \A k \in Keys : receipts'[k] = None \/ IsStore(receipts'[k], Labels)
        BY <2>2, <2>3
  <2> QED
      BY <1>20, <2>1, <2>3, <2>4 DEF SealReceipt
<1>21. CASE CloseIntent
  <2>1. pc \in TransitionSteps /\ ControlTypeOK'
        BY <1>21, GotoControl
        DEF CloseIntent, TransitionSteps, Steps, SleepSteps
  <2> QED
      BY <1>21, <2>1, JobTypes DEF CloseIntent
<1> QED
    BY <1>1, <1>2, <1>3, <1>4, <1>5, <1>6, <1>7, <1>8, <1>9, <1>10, <1>11,
       <1>12, <1>13, <1>14, <1>15, <1>16, <1>17, <1>18, <1>19, <1>20, <1>21
    DEF FinalizeStep

\* The steps of a recovery keep the types.
LEMMA RecoverTypes ==
    ASSUME StoreTypeOK, ControlTypeOK, RecoverStep
    PROVE  StoreTypeOK' /\ ControlTypeOK'
<1> USE DEF StoreTypeOK
<1>1. CASE LinkBack
  <2>1. pc \in TransitionSteps /\ ControlTypeOK'
        BY <1>1, GotoControl
        DEF LinkBack, AtFile, TransitionSteps, Steps, SleepSteps
  <2>2. job \in Keys /\ File \in Labels
        BY <1>1, <2>1, JobTypes, FileTypes DEF LinkBack
  <2>3. archive[job][File] \in Option(Holds(File))
        BY <2>2, StoreAt
  <2>4. IsStore(live', Labels)
        BY <1>1, <2>2, <2>3, StoreUpdate DEF LinkBack, SetLive
  <2> QED
      BY <1>1, <2>1, <2>4 DEF LinkBack
<1>2. ASSUME UnlinkArchived \/ RestoreReplaced
      PROVE  /\ archive' = [k \in Keys |-> archive'[k]]
             /\ \A k \in Keys : IsStore(archive'[k], Labels)
  <2>1. AtFile("r_unlink")
        BY <1>2 DEF UnlinkArchived, RestoreReplaced
  <2>2. job \in Keys /\ File \in Labels
        BY <2>1, JobTypes, FileTypes
        DEF AtFile, TransitionSteps, Steps, SleepSteps
  <2>3. IsStore([archive[job] EXCEPT ![File] = None], Labels)
        BY <2>2, StoreUpdate DEF Option
  <2>4. archive' = [archive EXCEPT ![job] =
                      [archive[job] EXCEPT ![File] = None]]
        BY <1>2 DEF UnlinkArchived, RestoreReplaced
  <2> QED
      BY <2>2, <2>3, <2>4
<1>3. CASE UnlinkArchived
  <2>1. ControlTypeOK'
        BY <1>3, CursorControl, FileOrderIsLabels
        DEF UnlinkArchived, AtFile, TransitionSteps, Steps, SleepSteps
  <2> QED
      BY <1>2, <1>3, <2>1 DEF UnlinkArchived
<1>4. CASE RestoreReplaced
  <2>1. ControlTypeOK'
        BY <1>4, ReleaseControl DEF RestoreReplaced
  <2> QED
      BY <1>2, <1>4, <2>1 DEF RestoreReplaced
<1>5. CASE SkipNotArchived
  <2>1. ControlTypeOK'
        BY <1>5, CursorControl, FileOrderIsLabels
        DEF SkipNotArchived, AtFile, TransitionSteps, Steps, SleepSteps
  <2> QED
      BY <1>5, <2>1, DurableUnchanged DEF SkipNotArchived
<1>6. CASE RestoreRefused
      BY <1>6, ReleaseControl, DurableUnchanged DEF RestoreRefused
<1>7. CASE AllRestored
  <2>1. ControlTypeOK'
        BY <1>7, CursorControl, FileOrderIsLabels
        DEF AllRestored, TransitionSteps, Steps, SleepSteps
  <2> QED
      BY <1>7, <2>1, DurableUnchanged DEF AllRestored
<1>8. CASE AbortInflight
  <2>1. pc \in TransitionSteps /\ ControlTypeOK'
        BY <1>8, GotoControl
        DEF AbortInflight, Aborting, TransitionSteps, Steps, SleepSteps
  <2> QED
      BY <1>8, <2>1, JobTypes DEF AbortInflight
<1>9. CASE AbortRefused
      BY <1>9, ReleaseControl, DurableUnchanged DEF AbortRefused
<1>10. CASE ClearHead
  <2>1. ControlTypeOK' /\ IsHead(head')
        BY <1>10, ReleaseControl, AdvanceHeadTypes DEF ClearHead, Option
  <2> QED
      BY <1>10, <2>1 DEF ClearHead
<1> QED
    BY <1>1, <1>3, <1>4, <1>5, <1>6, <1>7, <1>8, <1>9, <1>10 DEF RecoverStep

\* So do its first step and the two ways a finalization begins.
LEMMA TransitionStartTypes ==
    ASSUME StoreTypeOK, ControlTypeOK,
           \/ \E i \in Inputs : BeginFinalize(i)
           \/ \E k \in Keys : CloseByReplay(k) \/ RecoverStart(k)
    PROVE  StoreTypeOK' /\ ControlTypeOK'
<1> USE DEF StoreTypeOK
<1>1. ASSUME NEW i \in Inputs, BeginFinalize(i)
      PROVE  StoreTypeOK' /\ ControlTypeOK'
  <2> DEFINE k == [input |-> i, prior |-> live.observations]
  <2>1. k \in Keys
        BY <1>1, LiveTypes DEF BeginFinalize, Keys, Option
  <2>2. IsStore(prior', Labels)
        BY <1>1, StoreUpdate
        DEF BeginFinalize, SnapshotPriorRuntimeArtifacts, Labels, Option
  <2>3. ControlTypeOK'
        BY <1>1, <2>1, <2>2, StartControl
        DEF BeginFinalize, TransitionSteps, Steps, SleepSteps
  <2> QED
      BY <1>1, <2>1, <2>3 DEF BeginFinalize
<1>2. ASSUME NEW k \in Keys, CloseByReplay(k)
      PROVE  StoreTypeOK' /\ ControlTypeOK'
      BY <1>2 DEF CloseByReplay, ControlTypeOK
<1>3. ASSUME NEW k \in Keys, RecoverStart(k)
      PROVE  StoreTypeOK' /\ ControlTypeOK'
  <2>1. ControlTypeOK'
        BY <1>3, StartControl
        DEF RecoverStart, RecoverClose, RecoverRestore, RecoverRollback,
            ControlTypeOK, TransitionSteps, Steps, SleepSteps
  <2>2. CASE RecoverClose(k)
        BY <2>1, <2>2 DEF RecoverClose
  <2>3. CASE RecoverRestore(k)
    <3>1. archive[k].observations \in Option(Holds("observations"))
          BY StoreAt DEF Labels
    <3>2. IsStore(live', Labels)
          BY <2>3, <3>1, StoreUpdate DEF RecoverRestore, SetLive, Labels
    <3>3. IsStore([archive[k] EXCEPT !["observations"] = None], Labels)
          BY StoreUpdate DEF Option, Labels
    <3>4. archive' = [archive EXCEPT ![k] =
                        [archive[k] EXCEPT !["observations"] = None]]
          BY <2>3 DEF RecoverRestore
    <3> QED
        BY <2>1, <2>3, <3>2, <3>3, <3>4 DEF RecoverRestore
  <2>4. CASE RecoverRollback(k)
        BY <2>1, <2>4, DurableUnchanged DEF RecoverRollback
  <2> QED
      BY <1>3, <2>2, <2>3, <2>4 DEF RecoverStart
<1> QED
    BY <1>1, <1>2, <1>3

\* The state a sleep plans is a sleep state, and has its key.
LEMMA PlannedStateTypes ==
    ASSUME StoreTypeOK, MayPlanSleep
    PROVE  /\ PlannedState \in SleepStates
           /\ SleepKey(PlannedState) \in SleepKeys
           /\ ShouldPromote \in BOOLEAN
<1>1. live.observations \in Corpora
      BY LiveTypes DEF MayPlanSleep, Option
<1>2. NextBank \in Banks
      BY <1>1, LiveTypes DEF NextBank, Banks, Option
<1>3. ShouldPromote \in BOOLEAN
      BY DEF ShouldPromote, Certified, PreviousSameCertified
<1>4. FreshState \in SleepStates
      BY <1>1, <1>2, <1>3, LiveTypes
      DEF FreshState, SleepStates, Statuses, Option
<1>5. PlannedState \in SleepStates
      BY <1>4, LiveTypes DEF PlannedState, Option
<1>6. SleepKey(PlannedState) \in SleepKeys
      BY <1>5 DEF SleepKey, SleepKeys, SleepStates
<1> QED
    BY <1>3, <1>5, <1>6

\* The plan of a running sleep.
LEMMA PlanTypes ==
    ASSUME ControlTypeOK, pc \in SleepSteps
    PROVE  plan.state \in SleepStates /\ plan.promote \in BOOLEAN
BY DEF ControlTypeOK, SleepPlans

LEMMA SleepStartTypes ==
    ASSUME StoreTypeOK, ControlTypeOK, SleepStart
    PROVE  StoreTypeOK' /\ ControlTypeOK'
<1>1. MayPlanSleep
      BY DEF SleepStart, ReplaySleep, ResumeSleep, OpenSleep
<1>2. PICK n \in SleepSteps : Plan(n)
      BY DEF SleepStart, ReplaySleep, ResumeSleep, OpenSleep, SleepSteps
<1>3. ControlTypeOK'
      BY <1>1, <1>2, PlannedStateTypes
      DEF ControlTypeOK, Plan, SleepPlans, Option, TransitionSteps, Steps,
          SleepSteps
<1>4. StoreTypeOK'
  <2>1. CASE OpenSleep
        BY <1>1, <2>1, PlannedStateTypes DEF OpenSleep, StoreTypeOK
  <2>2. CASE ReplaySleep \/ ResumeSleep
        BY <2>2, DurableUnchanged DEF ReplaySleep, ResumeSleep
  <2> QED
      BY <2>1, <2>2 DEF SleepStart
<1> QED
    BY <1>3, <1>4

LEMMA SleepTypes ==
    ASSUME StoreTypeOK, ControlTypeOK, SleepStep
    PROVE  StoreTypeOK' /\ ControlTypeOK'
<1> USE DEF StoreTypeOK
<1>1. pc \in SleepSteps
      BY DEF SleepStep, StageSleep, AuthorizeSleep, InstallMemory, InstallBank,
             InstallSleepState, SealSleep, FinishSleep, SleepRefused, SleepSteps
<1>2. plan.state \in SleepStates
      BY <1>1, PlanTypes
<1>3. ControlTypeOK'
  <2>1. CASE FinishSleep \/ SleepRefused
        BY <2>1, ReleaseControl DEF FinishSleep, SleepRefused
  <2>2. CASE \E n \in SleepSteps : Goto(n)
        BY <1>1, <2>2, GotoControl
  <2> QED
      BY <2>1, <2>2
      DEF SleepStep, StageSleep, AuthorizeSleep, InstallMemory, InstallBank,
          InstallSleepState, SealSleep, SleepSteps
<1>4. CASE StageSleep
      BY <1>2, <1>3, <1>4 DEF StageSleep
<1>5. CASE AuthorizeSleep
  <2>1. SleepEvent(plan.state) \in Events
        BY <1>2 DEF SleepEvent, Events
  <2>2. ledger' \in Seq(Events)
        BY <1>5, <2>1 DEF AuthorizeSleep, AppendEvent
  <2> QED
      BY <1>3, <1>5, <2>2 DEF AuthorizeSleep
<1>6. CASE InstallMemory
  <2>1. MemoryOf(plan.state) \in Option(Holds("memory_current"))
        BY <1>2, HoldsAt DEF MemoryOf, Memories, SleepStates, Option
  <2>2. IsStore(live', Labels)
        BY <1>6, <2>1, StoreUpdate DEF InstallMemory, SetLive, Labels
  <2> QED
      BY <1>3, <1>6, <2>2 DEF InstallMemory
<1>7. CASE InstallBank
  <2>1. plan.state.bank \in Option(Holds("skill_bank"))
        BY <1>2, HoldsAt DEF SleepStates
  <2>2. IsStore(live', Labels)
        BY <1>7, <2>1, StoreUpdate DEF InstallBank, SetLive, Labels
  <2> QED
      BY <1>3, <1>7, <2>2 DEF InstallBank
<1>8. CASE InstallSleepState
  <2>1. plan.state \in Option(Holds("sleep_state"))
        BY <1>2, HoldsAt DEF Option
  <2>2. IsStore(live', Labels)
        BY <1>8, <2>1, StoreUpdate DEF InstallSleepState, SetLive, Labels
  <2> QED
      BY <1>3, <1>8, <2>2 DEF InstallSleepState
<1>9. CASE SealSleep
      BY <1>2, <1>3, <1>9 DEF SealSleep
<1>10. CASE FinishSleep
  <2>1. Preserved \in Option(Keys)
        BY DEF Preserved, IsHead, Option
  <2>2. IsHead(head')
        BY <1>10, <2>1, AdvanceHeadTypes DEF FinishSleep
  <2> QED
      BY <1>3, <1>10, <2>2 DEF FinishSleep
<1>11. CASE SleepRefused
      BY <1>3, <1>11, DurableUnchanged DEF SleepRefused
<1> QED
    BY <1>4, <1>5, <1>6, <1>7, <1>8, <1>9, <1>10, <1>11 DEF SleepStep

LEMMA InstallTypes ==
    ASSUME StoreTypeOK, ControlTypeOK, NEW b \in Bundles, InstallEvidence(b)
    PROVE  StoreTypeOK' /\ ControlTypeOK'
<1>1. IsStore(live', Labels)
      BY StoreUpdate, HoldsAt
      DEF InstallEvidence, SetLive, StoreTypeOK, Labels, Option
<1> QED
    BY <1>1 DEF InstallEvidence, StoreTypeOK, ControlTypeOK, control

LEMMA NextTypeOK == TypeOK /\ [Next]_vars => TypeOK'
<1> SUFFICES ASSUME TypeOK, [Next]_vars PROVE TypeOK'
    OBVIOUS
<1> USE DEF TypeOK
<1>1. CASE Operate /\ UNCHANGED counters
      BY <1>1, TransitionStartTypes, SleepStartTypes DEF Operate, counters
<1>2. CASE Continue /\ UNCHANGED counters
      BY <1>2, FinalizeTypes, RecoverTypes, SleepTypes DEF Continue, counters
<1>3. ASSUME NEW b \in Bundles, Install(b)
      PROVE  TypeOK'
  <2>1. StoreTypeOK' /\ ControlTypeOK'
        BY <1>3, InstallTypes DEF Install
  <2> QED
      BY <1>3, <2>1, BoundsAssumption DEF Install
<1>4. CASE Crash
  <2>1. StoreTypeOK' /\ ControlTypeOK'
        BY <1>4, DurableUnchanged, ReleaseControl DEF Crash
  <2> QED
      BY <1>4, <2>1, BoundsAssumption DEF Crash
<1>5. CASE UNCHANGED vars
      BY <1>5
      DEF vars, durable, control, counters, StoreTypeOK, ControlTypeOK
<1> QED
    BY <1>1, <1>2, <1>3, <1>4, <1>5 DEF Next

\* Every file and every local keeps its kind, in every run of the engine with
\* its crashes and with the evidence installer beside it.
THEOREM TypeCorrect == Spec => []TypeOK
<1>1. Init => TypeOK
      BY InitTypeOK
<1>2. TypeOK /\ [Next]_vars => TypeOK'
      BY NextTypeOK
<1> QED
    BY <1>1, <1>2, PTL DEF Spec

-----------------------------------------------------------------------------
(* The inductive invariant of the transition.  Its parts say where the       *)
(* running operation is.                                                    *)

\* The steps at which the running operation owns an inflight directory.
BeforeRetiring == {"f_intent", "f_journal_intent", "f_head_set",
                   "f_archive_dir", "f_archive_observations"}
Retiring == {"f_archive", "f_unlink"}
Retired == {"f_journal_archived", "f_journal_staged", "f_publish"}
Published == {"f_journal_published", "f_commit", "f_commit_event", "f_memory",
              "f_shadow", "f_commit_receipt", "f_head_preserve",
              "f_journal_commit", "f_event", "f_receipt", "f_close"}
Restoring == {"r_restore", "r_unlink"}
Owning == BeforeRetiring \union Retiring \union Retired \union Published
            \union Restoring \union {"r_abort_intent", "r_abort_restored"}

\* One transition is inflight at a time: it belongs to the running operation,
\* or to none, and never runs beside a sleep.
OneTransition ==
    /\ \A j, k \in Inflight : j = k
    /\ pc \in Owning => job \in Inflight
    /\ pc \in Owning \ {"f_intent"} => inflight[job] = "intent"
    /\ pc \in Owning \ {"f_close"} => receipts[job] = None
    /\ pc \in SleepSteps => Inflight = {}

\* The snapshot of an inflight transition names every file, and what an
\* archive holds as observations is the prior corpus of its key.
SnapshotWhole ==
    /\ \A k \in Inflight : /\ prior.observations = k.prior
                           /\ \A l \in EngineLabels : prior[l] # None
    /\ \A k \in Keys : archive[k].observations \in {None, k.prior}

\* Where the prior corpus is while it is retired.
CorpusPlaced ==
    /\ pc \in BeforeRetiring => live.observations = job.prior
    /\ pc \in Retiring \union Retired => live.observations = None

\* The files behind the cursor are archived, or back.
CursorAt ==
    /\ pc \notin Retiring \union Restoring => cursor = 1
    /\ pc \in Retiring =>
         /\ archive[job].observations = prior.observations
         /\ \A n \in 1 .. (cursor - 1) : FileOrder[n] \in EngineLabels =>
                archive[job][FileOrder[n]] = prior[FileOrder[n]]
    /\ pc \in Retired \union Published =>
         \A l \in EngineLabels : archive[job][l] = prior[l]
    /\ pc \in Restoring =>
         /\ archive[job].observations = None
         /\ \A n \in 1 .. (cursor - 1) : archive[job][FileOrder[n]] = None
    /\ pc = "r_unlink" /\ File \in EngineLabels => live[File] = archive[job][File]
    /\ pc = "r_abort_restored" => \A l \in Labels : archive[job][l] = None

TransitionInv ==
    /\ OneTransition
    /\ SnapshotWhole
    /\ CorpusPlaced
    /\ CursorAt
    /\ PriorNeverLost

-----------------------------------------------------------------------------
(* Lemmas on the parts.                                                      *)

LEMMA EngineLabelsAre ==
    EngineLabels = {"observations", "skill_bank", "memory_current", "sleep_state"}
BY DEF EngineLabels, HeadLabels, Labels

\* The files other than the observation directory, in the order of the cursor.
LEMMA FileOrderAt ==
    /\ \A n \in 1 .. 5 : FileOrder[n] \in Labels \ {"observations"}
    /\ \A l \in Labels \ {"observations"} : \E n \in 1 .. 5 : FileOrder[n] = l
    /\ \A m, n \in 1 .. 5 : FileOrder[m] = FileOrder[n] => m = n
BY DEF FileOrder, Labels

\* A key is a pair, and no pair is None.
LEMMA KeyParts ==
    ASSUME NEW k \in Keys
    PROVE  k.prior \in Corpora /\ k.prior # None
BY ConstantsAssumption DEF Keys

\* An operation that ends leaves the invariant to the files.
LEMMA ReleaseInv ==
    ASSUME TransitionInv, Release,
           UNCHANGED <<live, archive, inflight, receipts>>
    PROVE  TransitionInv'
BY DEF TransitionInv, OneTransition, SnapshotWhole, CorpusPlaced, CursorAt,
       PriorNeverLost, Inflight, Release, Owning, BeforeRetiring, Retiring,
       Retired, Published, Restoring, SleepSteps

\* A step that leaves those files alone and stays in its stage keeps it.
LEMMA StageInv ==
    ASSUME TransitionInv,
           UNCHANGED <<live, archive, inflight, receipts, prior, job, cursor>>,
           pc' # "f_intent", pc # "f_close", pc' # "f_close",
           \/ pc \in BeforeRetiring \ {"f_intent"} /\ pc' \in BeforeRetiring
           \/ pc \in Retired /\ pc' \in Retired
           \/ pc \in Published /\ pc' \in Published
    PROVE  TransitionInv'
BY DEF TransitionInv, OneTransition, SnapshotWhole, CorpusPlaced, CursorAt,
       PriorNeverLost, Inflight, Owning, BeforeRetiring, Retiring,
       Retired, Published, Restoring, SleepSteps

-----------------------------------------------------------------------------
\* Every step of a finalization keeps the invariant.
LEMMA FinalizeInv ==
    ASSUME TypeOK, TransitionInv, FinalizeStep
    PROVE  TransitionInv'
<1> USE DEF BeforeRetiring, Retired, Published
<1>1. CASE WriteIntent
      BY <1>1
      DEF WriteIntent, Goto, TransitionInv, OneTransition, SnapshotWhole, CorpusPlaced,
          CursorAt, PriorNeverLost, Inflight, Owning, Retiring, Restoring,
          SleepSteps, TypeOK, StoreTypeOK, ControlTypeOK
<1>2. CASE WriteTransitionJournal
  <2>1. CASE pc = "f_journal_intent"
        BY <1>2, <2>1, StageInv
        DEF WriteTransitionJournal, JournalPhase, AfterJournal, Goto
  <2>2. CASE pc \in {"f_journal_archived", "f_journal_staged"}
        BY <1>2, <2>2, StageInv
        DEF WriteTransitionJournal, JournalPhase, AfterJournal, Goto
  <2>3. CASE pc \in {"f_journal_published", "f_journal_commit"}
        BY <1>2, <2>3, StageInv
        DEF WriteTransitionJournal, JournalPhase, AfterJournal, Goto
  <2>4. CASE pc = "f_journal_receipt"
    <3>1. pc' = "f_head_clear"
          BY <1>2, <2>4 DEF WriteTransitionJournal, AfterJournal, Goto
    <3>2. UNCHANGED <<live, archive, inflight, receipts, prior, job, cursor>>
          BY <1>2 DEF WriteTransitionJournal, Goto
    <3> QED
        BY <1>2, <2>4, <3>1, <3>2
        DEF TransitionInv, OneTransition, SnapshotWhole, CorpusPlaced,
            CursorAt, PriorNeverLost, Inflight, Owning, Retiring, Restoring,
            SleepSteps, TypeOK, StoreTypeOK, ControlTypeOK
  <2> QED
      BY <1>2, <2>1, <2>2, <2>3, <2>4 DEF WriteTransitionJournal, JournalPhase
<1>3. CASE MarkHead
      BY <1>3, StageInv DEF MarkHead, Goto
<1>4. CASE MakeArchiveDir
      BY <1>4, StageInv DEF MakeArchiveDir, Goto
<1>5. CASE ArchiveObservations
  <2>1. job \in Keys /\ job \in Inflight /\ live.observations = job.prior
        BY <1>5
        DEF ArchiveObservations, TransitionInv, OneTransition, CorpusPlaced,
            Owning, Inflight
  <2>2. prior.observations = job.prior
        BY <2>1 DEF TransitionInv, SnapshotWhole
  <2>3. live'.observations = None /\ archive'[job].observations = job.prior
        BY <1>5, <2>1
        DEF ArchiveObservations, SetLive, TypeOK, StoreTypeOK, IsStore, Labels
  <2>4. \A l \in Labels \ {"observations"} :
           live'[l] = live[l] /\ archive'[job][l] = archive[job][l]
        BY <1>5, <2>1
        DEF ArchiveObservations, SetLive, TypeOK, StoreTypeOK, IsStore
  <2>5. \A k \in Keys \ {job} : archive'[k] = archive[k]
        BY <1>5 DEF ArchiveObservations, TypeOK, StoreTypeOK
  <2>6. Inflight' = Inflight
        BY <1>5 DEF ArchiveObservations, Inflight
  <2> QED
      BY <1>5, <2>1, <2>2, <2>3, <2>4, <2>5, <2>6, EngineLabelsAre
      DEF ArchiveObservations, Goto, TransitionInv, OneTransition,
          SnapshotWhole, CorpusPlaced, CursorAt, PriorNeverLost, Owning,
          Retiring, Restoring, SleepSteps, Labels
<1>6. CASE LinkIntoArchive
  <2>1. job \in Keys /\ job \in Inflight
        BY <1>6
        DEF LinkIntoArchive, AtFile, TransitionInv, OneTransition, Owning,
            Retiring, Inflight
  <2>2. File \in Labels \ {"observations"} /\ cursor \in 1 .. 5
        BY <1>6, FileOrderIsLabels, FileOrderAt
        DEF LinkIntoArchive, AtFile, File
  <2>3. archive'[job][File] = live[File]
        BY <1>6, <2>1, <2>2
        DEF LinkIntoArchive, TypeOK, StoreTypeOK, IsStore
  <2>4. /\ \A l \in Labels \ {File} : archive'[job][l] = archive[job][l]
        /\ \A k \in Keys \ {job} : archive'[k] = archive[k]
        BY <1>6, <2>1, <2>2
        DEF LinkIntoArchive, TypeOK, StoreTypeOK, IsStore
  <2>5. File \in EngineLabels => live[File] = prior[File]
        BY <1>6, <2>1
        DEF LinkIntoArchive, ArchiveExpected, TransitionInv, SnapshotWhole
  <2>6. Inflight' = Inflight
        BY <1>6 DEF LinkIntoArchive, Inflight
  <2>7. \A n \in 1 .. (cursor - 1) :
           FileOrder[n] \in Labels \ {"observations", File}
        BY <2>2, FileOrderAt DEF File
  <2>8. OneTransition' /\ SnapshotWhole' /\ CorpusPlaced'
        BY <1>6, <2>1, <2>2, <2>4, <2>6
        DEF LinkIntoArchive, AtFile, Goto, TransitionInv, OneTransition,
            SnapshotWhole, CorpusPlaced, Owning, Retiring, Restoring,
            SleepSteps, Labels
  <2>9. PriorNeverLost'
        BY <1>6, <2>1, <2>3, <2>4, <2>5, <2>6, EngineLabelsAre
        DEF LinkIntoArchive, Goto, TransitionInv, PriorNeverLost, Labels,
            OneTransition
  <2>10. CursorAt'
    <3>1. pc' = "f_unlink" /\ UNCHANGED <<job, cursor, prior>>
          BY <1>6 DEF LinkIntoArchive, Goto
    <3>2. archive'[job].observations = prior.observations
          BY <1>6, <2>2, <2>4
          DEF LinkIntoArchive, AtFile, TransitionInv, CursorAt, Retiring, Labels
    <3>3. \A n \in 1 .. (cursor - 1) : FileOrder[n] \in EngineLabels =>
              archive'[job][FileOrder[n]] = prior[FileOrder[n]]
          BY <1>6, <2>4, <2>7
          DEF LinkIntoArchive, AtFile, TransitionInv, CursorAt, Retiring
    <3> QED
        BY <3>1, <3>2, <3>3 DEF CursorAt, Retiring, Restoring
  <2> QED
      BY <2>8, <2>9, <2>10 DEF TransitionInv
<1>7. CASE UnlinkLive
  <2>1. job \in Keys /\ job \in Inflight
        BY <1>7
        DEF UnlinkLive, AtFile, TransitionInv, OneTransition, Owning,
            Retiring, Inflight
  <2>2. File \in Labels \ {"observations"} /\ cursor \in 1 .. 5
        BY <1>7, FileOrderIsLabels, FileOrderAt
        DEF UnlinkLive, AtFile, File
  <2>3. \A l \in Labels \ {File} : live'[l] = live[l]
        BY <1>7 DEF UnlinkLive, SetLive, TypeOK, StoreTypeOK, IsStore
  <2>4. File \in EngineLabels => archive[job][File] = prior[File]
        BY <1>7, <2>1 DEF UnlinkLive, TransitionInv, PriorNeverLost
  <2>5. Inflight' = Inflight
        BY <1>7 DEF UnlinkLive, Inflight
  <2>6. \A n \in 1 .. (cursor' - 1) : n \in 1 .. (cursor - 1) \/ n = cursor
        BY <1>7, <2>2 DEF UnlinkLive
  <2>7. OneTransition' /\ SnapshotWhole' /\ CorpusPlaced'
        BY <1>7, <2>1, <2>2, <2>3, <2>5
        DEF UnlinkLive, AtFile, TransitionInv, OneTransition,
            SnapshotWhole, CorpusPlaced, Owning, Retiring, Restoring,
            SleepSteps, Labels
  <2>8. PriorNeverLost'
        BY <1>7, <2>1, <2>3, <2>4, <2>5, EngineLabelsAre
        DEF UnlinkLive, TransitionInv, PriorNeverLost, Labels, OneTransition
  <2>9. CursorAt'
        BY <1>7, <2>4, <2>6
        DEF UnlinkLive, AtFile, File, TransitionInv, CursorAt, Retiring,
            Restoring
  <2> QED
      BY <2>7, <2>8, <2>9 DEF TransitionInv
<1>8. CASE SkipAbsent
  <2>1. \A n \in 1 .. (cursor' - 1) : n \in 1 .. (cursor - 1) \/ n = cursor
        BY <1>8 DEF SkipAbsent, TypeOK, ControlTypeOK
  <2> QED
  BY <1>8, <2>1, FileOrderIsLabels
      DEF SkipAbsent, AtFile, File, durable, TransitionInv, OneTransition, SnapshotWhole, CorpusPlaced,
          CursorAt, PriorNeverLost, Inflight, Owning, Retiring, Restoring,
          SleepSteps, TypeOK, StoreTypeOK, ControlTypeOK
<1>9. CASE ArchiveRefused
      BY <1>9, ReleaseInv DEF ArchiveRefused, durable
<1>10. CASE AllArchived
  <2>1. \A l \in EngineLabels : archive[job][l] = prior[l]
        BY <1>10, EngineLabelsAre, FileOrderIsLabels, FileOrderAt
        DEF AllArchived, TransitionInv, CursorAt, Retiring, Labels
  <2> QED
      BY <1>10, <2>1
      DEF AllArchived, durable, TransitionInv, OneTransition, SnapshotWhole, CorpusPlaced,
          CursorAt, PriorNeverLost, Inflight, Owning, Retiring, Restoring,
          SleepSteps, TypeOK, StoreTypeOK, ControlTypeOK
<1>11. CASE PublishCorpus
      BY <1>11, EngineLabelsAre
      DEF PublishCorpus, SetLive, Goto, TransitionInv, OneTransition, SnapshotWhole, CorpusPlaced,
          CursorAt, PriorNeverLost, Inflight, Owning, Retiring, Restoring,
          SleepSteps, TypeOK, StoreTypeOK, ControlTypeOK
<1>12. CASE StageCommit
      BY <1>12, StageInv DEF StageCommit, Goto
<1>13. CASE CommitRefused
      BY <1>13, ReleaseInv DEF CommitRefused, durable
<1>14. CASE AppendCommitEvent
      BY <1>14, StageInv DEF AppendCommitEvent, Goto
<1>15. CASE InstallCommitMemory
      BY <1>15, EngineLabelsAre
      DEF InstallCommitMemory, SetLive, Goto, TransitionInv, OneTransition, SnapshotWhole, CorpusPlaced,
          CursorAt, PriorNeverLost, Inflight, Owning, Retiring, Restoring,
          SleepSteps, TypeOK, StoreTypeOK, ControlTypeOK
<1>16. CASE InstallShadowBank
      BY <1>16, EngineLabelsAre
      DEF InstallShadowBank, SetLive, Goto, TransitionInv, OneTransition, SnapshotWhole, CorpusPlaced,
          CursorAt, PriorNeverLost, Inflight, Owning, Retiring, Restoring,
          SleepSteps, TypeOK, StoreTypeOK, ControlTypeOK
<1>17. CASE SealCommit
      BY <1>17, StageInv DEF SealCommit, Goto
<1>18. CASE PreserveHead
      BY <1>18, StageInv DEF PreserveHead, Goto
<1>19. CASE AppendTransitionEvent
      BY <1>19, StageInv DEF AppendTransitionEvent, Goto
<1>20. CASE SealReceipt
      BY <1>20
      DEF SealReceipt, Goto, TransitionInv, OneTransition, SnapshotWhole, CorpusPlaced,
          CursorAt, PriorNeverLost, Inflight, Owning, Retiring, Restoring,
          SleepSteps, TypeOK, StoreTypeOK, ControlTypeOK
<1>21. CASE CloseIntent
      BY <1>21
      DEF CloseIntent, Goto, TransitionInv, OneTransition, SnapshotWhole, CorpusPlaced,
          CursorAt, PriorNeverLost, Inflight, Owning, Retiring, Restoring,
          SleepSteps, TypeOK, StoreTypeOK, ControlTypeOK
<1> QED
    BY <1>1, <1>2, <1>3, <1>4, <1>5, <1>6, <1>7, <1>8, <1>9, <1>10, <1>11,
       <1>12, <1>13, <1>14, <1>15, <1>16, <1>17, <1>18, <1>19, <1>20, <1>21
    DEF FinalizeStep

\* Every step of a recovery keeps it.
LEMMA RecoverInv ==
    ASSUME TypeOK, TransitionInv, RecoverStep
    PROVE  TransitionInv'
<1> USE DEF BeforeRetiring, Retiring, Retired, Published
<1>1. CASE LinkBack
  <2>1. job \in Keys /\ job \in Inflight
        BY <1>1
        DEF LinkBack, AtFile, TransitionInv, OneTransition, Owning, Restoring,
            Inflight
  <2>2. File \in Labels \ {"observations"} /\ cursor \in 1 .. 5
        BY <1>1, FileOrderIsLabels, FileOrderAt
        DEF LinkBack, AtFile, File
  <2>3. live'[File] = archive[job][File]
        BY <1>1, <2>2 DEF LinkBack, SetLive, TypeOK, StoreTypeOK, IsStore
  <2>4. \A l \in Labels \ {File} : live'[l] = live[l]
        BY <1>1 DEF LinkBack, SetLive, TypeOK, StoreTypeOK, IsStore
  <2>5. Inflight' = Inflight
        BY <1>1 DEF LinkBack, Inflight
  <2>6. OneTransition' /\ SnapshotWhole' /\ CorpusPlaced'
        BY <1>1, <2>1, <2>5
        DEF LinkBack, AtFile, Goto, TransitionInv, OneTransition,
            SnapshotWhole, CorpusPlaced, Owning, Restoring, SleepSteps
  \* The live name was empty, so the archive held the file of the snapshot.
  <2>7. File \in EngineLabels => archive[job][File] = prior[File]
        BY <1>1, <2>1
        DEF LinkBack, TransitionInv, SnapshotWhole, PriorNeverLost
  <2>8. PriorNeverLost'
        BY <1>1, <2>1, <2>3, <2>4, <2>5, <2>7, EngineLabelsAre
        DEF LinkBack, Goto, TransitionInv, PriorNeverLost, Labels,
            OneTransition
  <2>9. CursorAt'
        BY <1>1, <2>3
        DEF LinkBack, AtFile, File, Goto, TransitionInv, CursorAt, Restoring
  <2> QED
      BY <2>6, <2>8, <2>9 DEF TransitionInv
<1>2. CASE UnlinkArchived
  <2>1. job \in Keys /\ job \in Inflight
        BY <1>2
        DEF UnlinkArchived, AtFile, TransitionInv, OneTransition, Owning,
            Restoring, Inflight
  <2>2. File \in Labels \ {"observations"} /\ cursor \in 1 .. 5
        BY <1>2, FileOrderIsLabels, FileOrderAt
        DEF UnlinkArchived, AtFile, File
  <2>3. archive'[job][File] = None
        BY <1>2, <2>1, <2>2
        DEF UnlinkArchived, TypeOK, StoreTypeOK, IsStore
  <2>4. /\ \A l \in Labels \ {File} : archive'[job][l] = archive[job][l]
        /\ \A k \in Keys \ {job} : archive'[k] = archive[k]
        BY <1>2, <2>1, <2>2
        DEF UnlinkArchived, TypeOK, StoreTypeOK, IsStore
  <2>5. Inflight' = Inflight
        BY <1>2 DEF UnlinkArchived, Inflight
  <2>6. \A n \in 1 .. (cursor' - 1) : n \in 1 .. (cursor - 1) \/ n = cursor
        BY <1>2, <2>2 DEF UnlinkArchived
  <2>7. OneTransition' /\ SnapshotWhole' /\ CorpusPlaced'
        BY <1>2, <2>1, <2>2, <2>4, <2>5
        DEF UnlinkArchived, AtFile, TransitionInv, OneTransition,
            SnapshotWhole, CorpusPlaced, Owning, Restoring, SleepSteps, Labels
  <2>8. File \in EngineLabels => live[File] = prior[File]
        BY <1>2, <2>1
        DEF UnlinkArchived, TransitionInv, PriorNeverLost
  <2>9. PriorNeverLost'
        BY <1>2, <2>1, <2>4, <2>5, <2>8, EngineLabelsAre
        DEF UnlinkArchived, TransitionInv, PriorNeverLost, Labels,
            OneTransition
  <2>10. CursorAt'
    <3>1. archive'[job].observations = None
          BY <1>2, <2>2, <2>4
          DEF UnlinkArchived, AtFile, TransitionInv, CursorAt, Restoring, Labels
    <3>2. \A n \in 1 .. (cursor' - 1) : archive'[job][FileOrder[n]] = None
          BY <1>2, <2>2, <2>3, <2>4, <2>6, FileOrderAt
          DEF UnlinkArchived, AtFile, File, TransitionInv, CursorAt, Restoring
    <3> QED
        BY <1>2, <3>1, <3>2 DEF UnlinkArchived, CursorAt, Restoring
  <2> QED
      BY <2>7, <2>9, <2>10 DEF TransitionInv
\* Only the evidence, which is not an engine file, can have been replaced.
<1>3. CASE RestoreReplaced
  <2>1. job \in Keys /\ job \in Inflight
        BY <1>3
        DEF RestoreReplaced, AtFile, TransitionInv, OneTransition, Owning,
            Restoring, Inflight
  <2>2. File \in Labels \ EngineLabels
        BY <1>3, FileTypes
        DEF RestoreReplaced, AtFile, TransitionInv, CursorAt
  <2>3. \A k \in Keys, l \in EngineLabels : archive'[k][l] = archive[k][l]
        BY <1>3, <2>1, <2>2, EngineLabelsAre
        DEF RestoreReplaced, TypeOK, StoreTypeOK, IsStore, Labels
  <2>4. Inflight' = Inflight
        BY <1>3 DEF RestoreReplaced, Inflight
  <2>5. \A k \in Keys : archive'[k].observations = archive[k].observations
        BY <2>3, EngineLabelsAre
  <2>6. PriorNeverLost'
        BY <1>3, <2>3, <2>4
        DEF RestoreReplaced, Release, TransitionInv, PriorNeverLost, Inflight
  <2> QED
      BY <1>3, <2>4, <2>5, <2>6
      DEF RestoreReplaced, Release, TransitionInv, OneTransition,
          SnapshotWhole, CorpusPlaced, CursorAt, Owning, Restoring, SleepSteps
<1>4. CASE SkipNotArchived
  <2>1. \A n \in 1 .. (cursor' - 1) : n \in 1 .. (cursor - 1) \/ n = cursor
        BY <1>4 DEF SkipNotArchived, TypeOK, ControlTypeOK
  <2> QED
      BY <1>4, <2>1, FileOrderIsLabels
      DEF SkipNotArchived, AtFile, File, durable, TransitionInv, OneTransition, SnapshotWhole, CorpusPlaced,
          CursorAt, PriorNeverLost, Inflight, Owning, BeforeRetiring,
          Retiring, Retired, Published, Restoring, SleepSteps, TypeOK,
          StoreTypeOK, ControlTypeOK
<1>5. CASE RestoreRefused
      BY <1>5, ReleaseInv DEF RestoreRefused, durable
<1>6. CASE AllRestored
  <2>1. \A l \in Labels : archive[job][l] = None
        BY <1>6, FileOrderIsLabels, FileOrderAt
        DEF AllRestored, TransitionInv, CursorAt, Restoring, Labels
  <2> QED
      BY <1>6, <2>1
      DEF AllRestored, durable, TransitionInv, OneTransition, SnapshotWhole, CorpusPlaced,
          CursorAt, PriorNeverLost, Inflight, Owning, BeforeRetiring,
          Retiring, Retired, Published, Restoring, SleepSteps, TypeOK,
          StoreTypeOK, ControlTypeOK
<1>7. CASE AbortInflight
      BY <1>7
      DEF AbortInflight, Aborting, Goto, TransitionInv, OneTransition, SnapshotWhole, CorpusPlaced,
          CursorAt, PriorNeverLost, Inflight, Owning, BeforeRetiring,
          Retiring, Retired, Published, Restoring, SleepSteps, TypeOK,
          StoreTypeOK, ControlTypeOK
<1>8. CASE AbortRefused
      BY <1>8, ReleaseInv DEF AbortRefused, durable
<1>9. CASE ClearHead
      BY <1>9, ReleaseInv DEF ClearHead
<1> QED
    BY <1>1, <1>2, <1>3, <1>4, <1>5, <1>6, <1>7, <1>8, <1>9 DEF RecoverStep

\* A finalization begins on a whole runtime, whose snapshot it takes, and a
\* recovery takes over the one inflight transition.
LEMMA TransitionStartInv ==
    ASSUME TypeOK, TransitionInv,
           \/ \E i \in Inputs : BeginFinalize(i)
           \/ \E k \in Keys : CloseByReplay(k) \/ RecoverStart(k)
    PROVE  TransitionInv'
<1>1. ASSUME NEW i \in Inputs, BeginFinalize(i)
      PROVE  TransitionInv'
  <2> DEFINE k == [input |-> i, prior |-> live.observations]
  <2>1. k \in Keys /\ receipts[k] = None
        BY <1>1, LiveTypes
        DEF BeginFinalize, InputUnsealed, Keys, Option, TypeOK
  <2>2. Inflight' = {k} /\ inflight'[k] = "made"
        BY <1>1, <2>1
        DEF BeginFinalize, NoIncompleteTransition, Inflight, TypeOK, StoreTypeOK
  <2>3. \A l \in EngineLabels : prior'[l] = live[l]
        BY <1>1, EngineLabelsAre
        DEF BeginFinalize, SnapshotPriorRuntimeArtifacts, TypeOK, StoreTypeOK,
            IsStore, Labels
  <2>4. live.memory_current # None
    <3>1. live.sleep_state \in SleepStates
          BY <1>1, LiveTypes DEF BeginFinalize, IntegrityHealthy, Option, TypeOK
    <3>2. MemoryOf(live.sleep_state) \in Memories
          BY <3>1 DEF MemoryOf, Memories, SleepStates
    <3> QED
        BY <1>1, <3>2, NoneIsNoRecord
        DEF BeginFinalize, IntegrityHealthy, SleepInstalled
  <2>5. \A l \in EngineLabels : prior'[l] # None
        BY <1>1, <2>3, <2>4, EngineLabelsAre DEF BeginFinalize, IntegrityHealthy
  <2>6. prior'.observations = k.prior
        BY <2>3, EngineLabelsAre
  <2>7. PriorNeverLost'
        BY <1>1, <2>3 DEF BeginFinalize, PriorNeverLost
  <2>8. cursor = 1
        BY <1>1
        DEF BeginFinalize, Idle, TransitionInv, CursorAt, Retiring, Restoring
  <2> QED
      BY <1>1, <2>1, <2>2, <2>5, <2>6, <2>7, <2>8
      DEF BeginFinalize, TransitionInv, OneTransition, SnapshotWhole,
          CorpusPlaced, CursorAt, Owning, BeforeRetiring, Retiring, Retired,
          Published, Restoring, SleepSteps
<1>2. ASSUME NEW k \in Keys, CloseByReplay(k)
      PROVE  TransitionInv'
      BY <1>2
      DEF CloseByReplay, Idle, TransitionInv, OneTransition, SnapshotWhole, CorpusPlaced,
          CursorAt, PriorNeverLost, Inflight, Owning, BeforeRetiring,
          Retiring, Retired, Published, Restoring, SleepSteps, TypeOK,
          StoreTypeOK, ControlTypeOK
<1>3. ASSUME NEW k \in Keys, RecoverStart(k)
      PROVE  TransitionInv'
  <2>1. CASE RecoverClose(k)
        BY <2>1
        DEF RecoverClose, Recovers, Idle, TransitionInv, OneTransition, SnapshotWhole, CorpusPlaced,
          CursorAt, PriorNeverLost, Inflight, Owning, BeforeRetiring,
          Retiring, Retired, Published, Restoring, SleepSteps, TypeOK,
          StoreTypeOK, ControlTypeOK
  <2>2. CASE RecoverRestore(k)
    <3>1. /\ Inflight = {k} /\ Inflight' = Inflight
          /\ inflight[k] = "intent" /\ receipts[k] = None
          /\ UNCHANGED <<inflight, receipts, prior, cursor>>
          /\ pc = "idle" /\ pc' = "r_restore" /\ job' = k
          BY <2>2 DEF RecoverRestore, Unsealed, Recovers, Idle, Inflight
    <3>2. live.observations = None /\ archive[k].observations # None
          BY <2>2 DEF RecoverRestore, Decision, Classify
    <3>3. archive[k].observations = prior.observations
          BY <3>1, <3>2, EngineLabelsAre
          DEF TransitionInv, SnapshotWhole, PriorNeverLost
    <3>4. live'.observations = prior.observations /\ archive'[k].observations = None
          BY <2>2, <3>3
          DEF RecoverRestore, SetLive, TypeOK, StoreTypeOK, IsStore, Labels
    <3>5. /\ \A l \in Labels \ {"observations"} :
                live'[l] = live[l] /\ archive'[k][l] = archive[k][l]
          /\ \A j \in Keys \ {k} : archive'[j] = archive[j]
          BY <2>2
          DEF RecoverRestore, SetLive, TypeOK, StoreTypeOK, IsStore
    <3>6. PriorNeverLost'
          BY <3>1, <3>4, <3>5, EngineLabelsAre
          DEF TransitionInv, PriorNeverLost, Labels
    <3>7. cursor = 1
          BY <3>1 DEF TransitionInv, CursorAt, Retiring, Restoring
    <3> QED
        BY <3>1, <3>4, <3>5, <3>6, <3>7
        DEF TransitionInv, OneTransition, SnapshotWhole, CorpusPlaced,
            CursorAt, Owning, BeforeRetiring, Retiring, Retired, Published,
            Restoring, SleepSteps
  <2>3. CASE RecoverRollback(k)
        BY <2>3
        DEF RecoverRollback, Unsealed, Recovers, Idle, durable, TransitionInv, OneTransition, SnapshotWhole, CorpusPlaced,
          CursorAt, PriorNeverLost, Inflight, Owning, BeforeRetiring,
          Retiring, Retired, Published, Restoring, SleepSteps, TypeOK,
          StoreTypeOK, ControlTypeOK
  <2> QED
      BY <1>3, <2>1, <2>2, <2>3 DEF RecoverStart
<1> QED
    BY <1>1, <1>2, <1>3

\* A sleep starts, and stays, on a store with no transition.
LEMMA SleepInv ==
    ASSUME TypeOK, TransitionInv, SleepStart \/ SleepStep
    PROVE  TransitionInv'
<1>1. Inflight = {} /\ Inflight' = {}
      BY DEF SleepStart, ReplaySleep, ResumeSleep, OpenSleep, MayPlanSleep,
             NoIncompleteTransition, SleepStep, StageSleep, AuthorizeSleep,
             InstallMemory, InstallBank, InstallSleepState, SealSleep,
             FinishSleep, SleepRefused, TransitionInv, OneTransition,
             SleepSteps, Inflight, durable
<1>2. cursor' = 1 /\ pc' \in SleepSteps \union {"idle"}
      BY DEF SleepStart, ReplaySleep, ResumeSleep, OpenSleep, MayPlanSleep,
             SleepStep, StageSleep, AuthorizeSleep,
             InstallMemory, InstallBank, InstallSleepState, SealSleep,
             FinishSleep, SleepRefused, TransitionInv, CursorAt, Plan, Goto,
             Release, Idle, Retiring, Restoring, SleepSteps
<1>3. archive' = archive
      BY DEF SleepStart, ReplaySleep, ResumeSleep, OpenSleep, MayPlanSleep,
             SleepStep, StageSleep, AuthorizeSleep,
             InstallMemory, InstallBank, InstallSleepState, SealSleep,
             FinishSleep, SleepRefused, durable
<1> QED
    BY <1>1, <1>2, <1>3
    DEF TransitionInv, OneTransition, SnapshotWhole, CorpusPlaced, CursorAt,
        PriorNeverLost, Owning, BeforeRetiring, Retiring, Retired, Published,
        Restoring, SleepSteps

\* The installer writes a file that no part of the invariant is about.
LEMMA InstallInv ==
    ASSUME TypeOK, TransitionInv, NEW b \in Bundles, InstallEvidence(b)
    PROVE  TransitionInv'
<1>1. \A l \in EngineLabels : live'[l] = live[l]
      BY EngineLabelsAre
      DEF InstallEvidence, SetLive, TypeOK, StoreTypeOK, IsStore, Labels
<1>2. live'.observations = live.observations
      BY <1>1, EngineLabelsAre
<1>3. UNCHANGED <<archive, inflight, receipts, pc, job, cursor, prior>>
      BY DEF InstallEvidence, control
<1>4. Inflight' = Inflight /\ (AtFile("r_unlink") => File' = File)
      BY <1>3 DEF Inflight, File
<1> QED
    BY <1>1, <1>2, <1>3, <1>4
    DEF TransitionInv, OneTransition, SnapshotWhole, CorpusPlaced, CursorAt,
        PriorNeverLost, File

LEMMA InitInv == Init => TransitionInv
BY EmptyStoreIsStore
DEF Init, StoreInit, EmptyStore, TransitionInv, OneTransition, SnapshotWhole,
    CorpusPlaced, CursorAt, PriorNeverLost, Inflight, Owning, BeforeRetiring,
    Retiring, Retired, Published, Restoring, SleepSteps, Labels

LEMMA NextInv == TypeOK /\ TransitionInv /\ [Next]_vars => TransitionInv'
<1> SUFFICES ASSUME TypeOK, TransitionInv, [Next]_vars PROVE TransitionInv'
    OBVIOUS
<1>1. CASE Operate
      BY <1>1, TransitionStartInv, SleepInv DEF Operate
<1>2. CASE Continue
      BY <1>2, FinalizeInv, RecoverInv, SleepInv DEF Continue
<1>3. CASE \E b \in Bundles : Install(b)
      BY <1>3, InstallInv DEF Install
<1>4. CASE Crash
      BY <1>4, ReleaseInv DEF Crash, durable
<1>5. CASE UNCHANGED vars
      BY <1>5
      DEF vars, durable, control, TransitionInv, OneTransition, SnapshotWhole,
          CorpusPlaced, CursorAt, PriorNeverLost, Inflight, File
<1> QED
    BY <1>1, <1>2, <1>3, <1>4, <1>5 DEF Next

\* The invariant holds in every run.
THEOREM TransitionInvariant == Spec => []TransitionInv
<1>1. Init => TransitionInv
      BY InitInv
<1>2. TypeOK /\ TransitionInv /\ [Next]_vars => TransitionInv'
      BY NextInv
<1>3. Spec => []TypeOK
      BY TypeCorrect
<1> QED
    BY <1>1, <1>2, <1>3, PTL DEF Spec

-----------------------------------------------------------------------------
(* What follows from it.                                                     *)

\* No interleaving of steps, refusals, crashes and recoveries loses a file of
\* the runtime that a transition replaces.
THEOREM PriorIsSafe == Spec => []PriorNeverLost
<1>1. TransitionInv => PriorNeverLost
      BY DEF TransitionInv
<1> QED
    BY <1>1, TransitionInvariant, PTL

\* A recovery that reports a restored prior corpus has restored all of it.
THEOREM RestorationIsWhole == Spec => []RestoreGivesBackPrior
<1>1. TypeOK /\ TransitionInv => RestoreGivesBackPrior
  <2> SUFFICES ASSUME TypeOK, TransitionInv, pc = "r_abort_restored"
               PROVE  /\ \A l \in EngineLabels : live[l] = prior[l]
                      /\ \A l \in Labels : archive[job][l] = None
      BY DEF RestoreGivesBackPrior
  <2>1. job \in Inflight /\ \A l \in Labels : archive[job][l] = None
        BY DEF TransitionInv, OneTransition, CursorAt, Owning
  <2> QED
      BY <2>1, EngineLabelsAre
      DEF TransitionInv, SnapshotWhole, PriorNeverLost, Labels
<1> QED
    BY <1>1, TransitionInvariant, TypeCorrect, PTL

\* Three steps move the corpus: every other one writes other labels, or none.
LEMMA CorpusStays ==
    ASSUME TypeOK, ~ArchiveObservations, ~PublishCorpus,
           \A k \in Keys : ~RecoverRestore(k),
           \/ Operate \/ Continue \/ Crash \/ UNCHANGED vars
           \/ \E b \in Bundles : Install(b)
    PROVE  live'.observations = live.observations
<1>1. ASSUME FinalizeStep
      PROVE  live'.observations = live.observations
      BY <1>1, FileOrderIsLabels, FileOrderAt
      DEF FinalizeStep, WriteIntent, WriteTransitionJournal, MarkHead,
          MakeArchiveDir, LinkIntoArchive, UnlinkLive, SkipAbsent,
          ArchiveRefused, AllArchived, StageCommit, CommitRefused,
          AppendCommitEvent, InstallCommitMemory, InstallShadowBank,
          SealCommit, PreserveHead, AppendTransitionEvent, SealReceipt,
          CloseIntent, AtFile, File, SetLive, durable, TypeOK, StoreTypeOK,
          IsStore, Labels
<1>2. RecoverStep => live'.observations = live.observations
      BY FileOrderIsLabels, FileOrderAt
      DEF RecoverStep, LinkBack, UnlinkArchived, RestoreReplaced,
          SkipNotArchived, RestoreRefused, AllRestored, AbortInflight,
          AbortRefused, ClearHead, AtFile, File, SetLive, durable, TypeOK,
          StoreTypeOK, IsStore, Labels
<1>3. SleepStart \/ SleepStep => live'.observations = live.observations
      BY DEF SleepStart, ReplaySleep, ResumeSleep, OpenSleep, SleepStep,
             StageSleep, AuthorizeSleep, InstallMemory, InstallBank,
             InstallSleepState, SealSleep, FinishSleep, SleepRefused,
             SetLive, durable, TypeOK, StoreTypeOK, IsStore, Labels
<1>4. ASSUME NEW b \in Bundles, Install(b)
      PROVE  live'.observations = live.observations
      BY <1>4
      DEF Install, InstallEvidence, SetLive, TypeOK, StoreTypeOK, IsStore, Labels
<1>5. Operate => live'.observations = live.observations
      BY <1>3
      DEF Operate, BeginFinalize, CloseByReplay, RecoverStart, RecoverClose,
          RecoverRollback, durable
<1>6. Crash \/ UNCHANGED vars => live'.observations = live.observations
      BY DEF Crash, durable, vars
<1> QED
    BY <1>1, <1>2, <1>3, <1>4, <1>5, <1>6 DEF Continue

\* The three move it under the intent of the running, or of the interrupted,
\* transition.
LEMMA NextMoves ==
    ASSUME TypeOK, TransitionInv, Next, live'.observations # live.observations
    PROVE  \E k \in Keys : CorpusMoves(k)
<1>1. CASE ArchiveObservations \/ PublishCorpus
  <2>1. /\ job \in Keys /\ inflight[job] = "intent" /\ receipts[job] = None
        /\ inflight' = inflight
        BY <1>1
        DEF ArchiveObservations, PublishCorpus, TransitionInv, OneTransition,
            Owning, BeforeRetiring, Retired, Inflight
  <2>2. CASE ArchiveObservations
    <3>1. live.observations = job.prior
          BY <2>2
          DEF ArchiveObservations, TransitionInv, CorpusPlaced, BeforeRetiring
    <3>2. live'.observations = None
          BY <2>2
          DEF ArchiveObservations, SetLive, TypeOK, StoreTypeOK, IsStore, Labels
    <3> QED
        BY <2>1, <3>1, <3>2 DEF CorpusMoves
  <2>3. CASE PublishCorpus
    <3>1. live.observations = None
          BY <2>3 DEF PublishCorpus, TransitionInv, CorpusPlaced, Retired
    <3>2. live'.observations = New(job)
          BY <2>3
          DEF PublishCorpus, SetLive, TypeOK, StoreTypeOK, IsStore, Labels
    <3> QED
        BY <2>1, <3>1, <3>2 DEF CorpusMoves
  <2> QED
      BY <1>1, <2>2, <2>3
<1>2. ASSUME NEW k \in Keys, RecoverRestore(k)
      PROVE  CorpusMoves(k)
  <2>1. live.observations = None /\ archive[k].observations # None
        BY <1>2 DEF RecoverRestore, Decision, Classify
  <2>2. archive[k].observations = k.prior
        BY <2>1 DEF TransitionInv, SnapshotWhole
  <2>3. live'.observations = archive[k].observations
        BY <1>2
        DEF RecoverRestore, SetLive, TypeOK, StoreTypeOK, IsStore, Labels
  <2> QED
      BY <1>2, <2>1, <2>2, <2>3 DEF RecoverRestore, Unsealed, CorpusMoves
<1> QED
    BY <1>1, <1>2, CorpusStays DEF Next

\* The live corpus moves only under an intent on disk that says which corpus
\* is replaced by which.
THEOREM CorpusIsGuarded == Spec => CorpusMovesUnderIntent
<1>1. TypeOK /\ TransitionInv /\ [Next]_vars =>
        [live'.observations # live.observations =>
            \E k \in Keys : CorpusMoves(k)]_vars
      BY NextMoves
<1> QED
    BY <1>1, TransitionInvariant, TypeCorrect, PTL
    DEF Spec, CorpusMovesUnderIntent

-----------------------------------------------------------------------------
(* The event ledger. *)

\* The ledger holds the event e.
Written(e) == \E i \in DOMAIN ledger : ledger[i] = e

\* No event is of the kind of e and about the same operation.
Fresh(e) ==
    \A i \in DOMAIN ledger : ledger[i].kind = e.kind =>
        IF e.kind = "sleep" THEN SleepKey(ledger[i].op) # SleepKey(e.op)
                            ELSE ledger[i].op # e.op

\* An append adds one event behind the others.
LEMMA AppendedAt ==
    ASSUME ledger \in Seq(Events), NEW x \in Events, AppendEvent(x)
    PROVE  /\ ledger' \in Seq(Events)
           /\ DOMAIN ledger = 1 .. Len(ledger)
           /\ DOMAIN ledger' = 1 .. (Len(ledger) + 1)
           /\ Len(ledger) \in Nat
           /\ \A i \in DOMAIN ledger : ledger'[i] = ledger[i]
           /\ ledger'[Len(ledger) + 1] = x
BY DEF AppendEvent

LEMMA WrittenAfter ==
    ASSUME ledger \in Seq(Events), NEW x \in Events, AppendEvent(x)
    PROVE  \A e : Written(e)' <=> Written(e) \/ e = x
<1>1. \A i \in DOMAIN ledger' : i \in DOMAIN ledger \/ i = Len(ledger) + 1
      BY AppendedAt
<1>2. DOMAIN ledger \subseteq DOMAIN ledger' /\ Len(ledger) + 1 \in DOMAIN ledger'
      BY AppendedAt
<1> QED
    BY <1>1, <1>2, AppendedAt DEF Written

\* A fresh event keeps the ledger unambiguous.
LEMMA FreshKept ==
    ASSUME ledger \in Seq(Events), NEW x \in Events, AppendEvent(x),
           LedgerUnambiguous, Fresh(x)
    PROVE  LedgerUnambiguous'
<1> SUFFICES ASSUME NEW i \in DOMAIN ledger', NEW j \in DOMAIN ledger', i # j,
                    ledger'[i].kind = ledger'[j].kind
             PROVE  IF ledger'[i].kind = "sleep"
                    THEN SleepKey(ledger'[i].op) # SleepKey(ledger'[j].op)
                    ELSE ledger'[i].op # ledger'[j].op
    BY DEF LedgerUnambiguous
<1> DEFINE n == Len(ledger) + 1
<1>1. i \in DOMAIN ledger \/ i = n
      BY AppendedAt
<1>2. j \in DOMAIN ledger \/ j = n
      BY AppendedAt
<1>3. CASE i \in DOMAIN ledger /\ j \in DOMAIN ledger
      BY <1>3, AppendedAt DEF LedgerUnambiguous
<1>4. CASE i \in DOMAIN ledger /\ j = n
      BY <1>4, AppendedAt DEF Fresh
<1>5. CASE i = n /\ j \in DOMAIN ledger
      BY <1>5, AppendedAt DEF Fresh
<1> QED
    BY <1>1, <1>2, <1>3, <1>4, <1>5

\* In an unambiguous ledger, what is written is found, and found once.
LEMMA EventOnce ==
    ASSUME ledger \in Seq(Events), LedgerUnambiguous, NEW e \in Events, Written(e)
    PROVE  FoundOnce(e)
<1>1. PICK i \in DOMAIN ledger : ledger[i] = e
      BY DEF Written
<1>2. ASSUME NEW j \in DOMAIN ledger, ledger[j] = e
      PROVE  j = i
      BY <1>1, <1>2 DEF LedgerUnambiguous
<1>3. {j \in DOMAIN ledger : ledger[j] = e} = {i}
      BY <1>1, <1>2
<1> QED
    BY <1>3, FS_Singleton DEF FoundOnce

\* What the ledger says of a kind.
LEMMA EventShape ==
    ASSUME ledger \in Seq(Events), NEW i \in DOMAIN ledger
    PROVE  /\ ledger[i].kind \in {"sleep", "commit", "transition"}
           /\ ledger[i].kind = "sleep" =>
                ledger[i].op \in SleepStates /\ ledger[i] = SleepEvent(ledger[i].op)
           /\ ledger[i].kind = "commit" => ledger[i] = CommitEvent(ledger[i].op)
           /\ ledger[i].kind = "transition" => ledger[i] = TransitionEvent(ledger[i].op)
<1>1. ledger[i] \in Events
      OBVIOUS
<1>2. CASE ledger[i] \in [kind : {"sleep"}, op : SleepStates]
      BY <1>2 DEF SleepEvent
<1>3. CASE ledger[i] \in [kind : {"commit"}, op : Corpora]
      BY <1>3 DEF CommitEvent
<1>4. CASE ledger[i] \in [kind : {"transition"}, op : Keys]
      BY <1>4 DEF TransitionEvent
<1> QED
    BY <1>1, <1>2, <1>3, <1>4 DEF Events

\* The three kinds of events, and the operation each is about.
LEMMA EventParts ==
    /\ \A c \in Corpora : /\ CommitEvent(c) \in Events
                          /\ CommitEvent(c).kind = "commit"
                          /\ CommitEvent(c).op = c
    /\ \A k \in Keys : /\ TransitionEvent(k) \in Events
                       /\ TransitionEvent(k).kind = "transition"
                       /\ TransitionEvent(k).op = k
    /\ \A s \in SleepStates : /\ SleepEvent(s) \in Events
                              /\ SleepEvent(s).kind = "sleep"
                              /\ SleepEvent(s).op = s
BY DEF Events, CommitEvent, TransitionEvent, SleepEvent

\* An event that was never written is fresh.
LEMMA UnwrittenIsFresh ==
    ASSUME ledger \in Seq(Events)
    PROVE  /\ \A c \in Corpora : ~Written(CommitEvent(c)) => Fresh(CommitEvent(c))
           /\ \A k \in Keys : ~Written(TransitionEvent(k)) => Fresh(TransitionEvent(k))
BY EventShape, EventParts DEF Written, Fresh

\* A step that leaves the ledger alone leaves what is said of it.
LEMMA LedgerKept ==
    ASSUME UNCHANGED ledger
    PROVE  /\ \A e : Written(e)' <=> Written(e)
           /\ LedgerUnambiguous' <=> LedgerUnambiguous
BY DEF Written, LedgerUnambiguous

-----------------------------------------------------------------------------
(* What was recorded, by the step the running operation is at.               *)

\* The steps of a commit before its receipt, and the steps after it.
Committing == {"f_memory", "f_shadow", "f_commit_receipt"}
Committed == {"f_head_preserve", "f_journal_commit", "f_event", "f_receipt",
              "f_close", "f_journal_receipt"}

\* A commit is staged without its event, and sealed with it.
CommitsRecorded ==
    /\ \A c \in Corpora : /\ commits[c] = "none" => ~Written(CommitEvent(c))
                          /\ commits[c] = "sealed" => Written(CommitEvent(c))
    /\ pc = "f_commit_event" =>
           commits[New(job)] = "staged" /\ ~Written(CommitEvent(New(job)))
    /\ pc \in Committing =>
           commits[New(job)] = "staged" /\ Written(CommitEvent(New(job)))
    /\ pc \in Committed => commits[New(job)] = "sealed"

\* The steps that come after the archive directory was made.
Archiving == {"f_archive_observations", "f_journal_receipt"}
               \union Retiring \union Retired \union Published

\* The event of a transition is written at one step, after the archive
\* directory that keeps its operation from being begun again.
TransitionsRecorded ==
    /\ \A k \in Keys : Written(TransitionEvent(k)) => k \in archiveDirs
    /\ pc \in BeforeRetiring \ {"f_archive_observations"} => job \notin archiveDirs
    /\ pc \in Archiving => job \in archiveDirs
    /\ pc \in (BeforeRetiring \union Archiving)
              \ {"f_receipt", "f_close", "f_journal_receipt"} =>
           ~Written(TransitionEvent(job))
    /\ pc \in {"f_receipt", "f_close"} => Written(TransitionEvent(job))

\* The event of a sleep comes before anything it authorizes, and its receipt is
\* the one receipt of its operation.
SleepsRecorded ==
    /\ \A s \in sleepReceipts : Written(SleepEvent(s))
    /\ \A s, t \in sleepReceipts : SleepKey(s) = SleepKey(t) => s = t
    /\ pc \in SleepSteps \ {"s_head"} => ReceiptsOf(SleepKey(plan.state)) = {}
    /\ pc \in {"s_memory", "s_bank", "s_state", "s_receipt"} =>
           Written(SleepEvent(plan.state))

RecordInv ==
    /\ LedgerUnambiguous
    /\ CommitsRecorded
    /\ TransitionsRecorded
    /\ SleepsRecorded

\* The names the steps of a transition and of a sleep share are none.
LEMMA StepsApart ==
    /\ TransitionSteps \intersect SleepSteps = {}
    /\ Committing \union Committed \union Archiving \union BeforeRetiring
         \union {"f_commit_event"} \subseteq TransitionSteps
    /\ "idle" \notin TransitionSteps \union SleepSteps
BY DEF TransitionSteps, Steps, SleepSteps, Committing, Committed, Archiving,
       BeforeRetiring, Retiring, Retired, Published

\* What the step q promises of the records, the step p promises too.
PromisesNoMore(p, q) ==
    /\ q \notin SleepSteps /\ q # "f_commit_event"
    /\ q \in Committing => p \in Committing
    /\ q \in Committed => p \in Committed
    /\ q \in Archiving => p \in Archiving
    /\ q \in BeforeRetiring \ {"f_archive_observations"} =>
           p \in BeforeRetiring \ {"f_archive_observations"}
    /\ q \in (BeforeRetiring \union Archiving)
             \ {"f_receipt", "f_close", "f_journal_receipt"} =>
           p \in (BeforeRetiring \union Archiving)
                 \ {"f_receipt", "f_close", "f_journal_receipt"}
    /\ q \in {"f_receipt", "f_close"} => p \in {"f_receipt", "f_close"}

\* A step that records nothing keeps what is recorded.
LEMMA RecordKept ==
    ASSUME RecordInv, UNCHANGED <<ledger, commits, archiveDirs, sleepReceipts>>,
           \/ pc' \notin Archiving \union BeforeRetiring \union Committing
                           \union Committed \union SleepSteps
           \/ UNCHANGED <<job, plan>> /\ PromisesNoMore(pc, pc')
    PROVE  RecordInv'
<1>1. /\ \A e : Written(e)' <=> Written(e)
      /\ LedgerUnambiguous'
      BY LedgerKept DEF RecordInv
<1>2. /\ "f_commit_event" \in Archiving /\ {"f_receipt", "f_close"} \subseteq Archiving
      /\ {"s_memory", "s_bank", "s_state", "s_receipt"} \subseteq SleepSteps
      BY DEF Archiving, Published, SleepSteps
<1>3. CommitsRecorded'
      BY <1>1, <1>2
      DEF RecordInv, CommitsRecorded, PromisesNoMore, New, CommitEvent
<1>4. TransitionsRecorded'
      BY <1>1, <1>2
      DEF RecordInv, TransitionsRecorded, PromisesNoMore, TransitionEvent
<1>5. SleepsRecorded'
      BY <1>1, <1>2
      DEF RecordInv, SleepsRecorded, PromisesNoMore, SleepEvent
<1> QED
    BY <1>1, <1>3, <1>4, <1>5 DEF RecordInv

\* Every step of a finalization keeps the records; five of them write one.
LEMMA FinalizeRecords ==
    ASSUME TypeOK, TransitionInv, RecordInv, FinalizeStep
    PROVE  RecordInv'
<1> USE DEF PromisesNoMore, Committing, Committed, Archiving, BeforeRetiring,
            Retiring, Retired, Published, SleepSteps
<1>1. CASE \/ WriteIntent \/ MarkHead \/ ArchiveObservations \/ LinkIntoArchive
           \/ UnlinkLive \/ SkipAbsent \/ AllArchived \/ PublishCorpus
      BY <1>1, RecordKept
      DEF WriteIntent, MarkHead, ArchiveObservations, LinkIntoArchive,
          UnlinkLive, SkipAbsent, AllArchived, PublishCorpus, AtFile, Goto,
          durable
<1>2. CASE WriteTransitionJournal
      BY <1>2, RecordKept
      DEF WriteTransitionJournal, JournalPhase, AfterJournal, Goto
<1>3. CASE \/ InstallCommitMemory \/ InstallShadowBank \/ PreserveHead
           \/ SealReceipt \/ CloseIntent
      BY <1>3, RecordKept
      DEF InstallCommitMemory, InstallShadowBank, PreserveHead, SealReceipt,
          CloseIntent, Goto
<1>4. CASE ArchiveRefused \/ CommitRefused
      BY <1>4, RecordKept DEF ArchiveRefused, CommitRefused, Release, durable
<1>5. CASE MakeArchiveDir
  <2>1. UNCHANGED <<ledger, commits, sleepReceipts, job, plan>>
        /\ pc = "f_archive_dir" /\ pc' = "f_archive_observations"
        /\ archiveDirs' = archiveDirs \union {job}
        BY <1>5 DEF MakeArchiveDir, Goto
  <2>2. \A e : Written(e)' <=> Written(e)
        BY <2>1, LedgerKept
  <2> QED
      BY <2>1, <2>2, LedgerKept
      DEF RecordInv, CommitsRecorded, TransitionsRecorded, SleepsRecorded,
          TransitionEvent, CommitEvent, SleepEvent
<1>6. CASE StageCommit
  <2>1. UNCHANGED <<ledger, archiveDirs, sleepReceipts, job, plan>>
        /\ pc = "f_commit" /\ pc' = "f_commit_event"
        /\ commits[New(job)] = "none"
        /\ commits' = [commits EXCEPT ![New(job)] = "staged"]
        BY <1>6 DEF StageCommit, Goto
  <2>2. \A e : Written(e)' <=> Written(e)
        BY <2>1, LedgerKept
  <2>3. New(job) \in Corpora /\ New(job)' = New(job)
        BY <2>1, JobTypes DEF TypeOK, TransitionSteps, Steps, New
  <2>4. commits \in [Corpora -> {"none", "staged", "sealed"}]
        BY DEF TypeOK, StoreTypeOK
  <2>5. CommitsRecorded'
        BY <2>1, <2>2, <2>3, <2>4 DEF RecordInv, CommitsRecorded, CommitEvent
  <2> QED
      BY <2>1, <2>2, <2>5, LedgerKept
      DEF RecordInv, TransitionsRecorded, SleepsRecorded,
          TransitionEvent, SleepEvent
<1>7. CASE AppendCommitEvent
  <2>1. UNCHANGED <<commits, archiveDirs, sleepReceipts, job, plan>>
        /\ pc = "f_commit_event" /\ pc' = "f_memory"
        /\ AppendEvent(CommitEvent(New(job)))
        BY <1>7 DEF AppendCommitEvent, Goto
  <2>2. New(job) \in Corpora /\ New(job)' = New(job) /\ ledger \in Seq(Events)
        BY <2>1, JobTypes DEF TypeOK, StoreTypeOK, TransitionSteps, Steps, New
  <2>3. \A e : Written(e)' <=> Written(e) \/ e = CommitEvent(New(job))
        BY <2>1, <2>2, WrittenAfter, EventParts
  <2>4. LedgerUnambiguous'
        BY <2>1, <2>2, FreshKept, EventParts, UnwrittenIsFresh
        DEF RecordInv, CommitsRecorded
  <2>5. CommitsRecorded'
        BY <2>1, <2>2, <2>3, EventParts DEF RecordInv, CommitsRecorded, CommitEvent
  <2>6. TransitionsRecorded'
        BY <2>1, <2>3 DEF RecordInv, TransitionsRecorded, TransitionEvent, CommitEvent
  <2>7. SleepsRecorded'
        BY <2>1, <2>3 DEF RecordInv, SleepsRecorded, SleepEvent, CommitEvent
  <2> QED
      BY <2>4, <2>5, <2>6, <2>7 DEF RecordInv
<1>8. CASE SealCommit
  <2>1. UNCHANGED <<ledger, archiveDirs, sleepReceipts, job, plan>>
        /\ pc = "f_commit_receipt" /\ pc' = "f_head_preserve"
        /\ commits' = [commits EXCEPT ![New(job)] = "sealed"]
        BY <1>8 DEF SealCommit, Goto
  <2>2. \A e : Written(e)' <=> Written(e)
        BY <2>1, LedgerKept
  <2>3. New(job) \in Corpora /\ New(job)' = New(job)
        BY <2>1, JobTypes DEF TypeOK, TransitionSteps, Steps, New
  <2>4. commits \in [Corpora -> {"none", "staged", "sealed"}]
        BY DEF TypeOK, StoreTypeOK
  <2>5. CommitsRecorded'
        BY <2>1, <2>2, <2>3, <2>4 DEF RecordInv, CommitsRecorded, CommitEvent
  <2> QED
      BY <2>1, <2>2, <2>5, LedgerKept
      DEF RecordInv, TransitionsRecorded, SleepsRecorded,
          TransitionEvent, SleepEvent
<1>9. CASE AppendTransitionEvent
  <2>1. UNCHANGED <<commits, archiveDirs, sleepReceipts, job, plan>>
        /\ pc = "f_event" /\ pc' = "f_receipt"
        /\ AppendEvent(TransitionEvent(job))
        BY <1>9 DEF AppendTransitionEvent, Goto
  <2>2. job \in Keys /\ ledger \in Seq(Events)
        BY <2>1, JobTypes DEF TypeOK, StoreTypeOK, TransitionSteps, Steps
  <2>3. \A e : Written(e)' <=> Written(e) \/ e = TransitionEvent(job)
        BY <2>1, <2>2, WrittenAfter, EventParts
  <2>4. LedgerUnambiguous'
        BY <2>1, <2>2, FreshKept, EventParts, UnwrittenIsFresh
        DEF RecordInv, TransitionsRecorded
  <2>5. CommitsRecorded'
        BY <2>1, <2>3 DEF RecordInv, CommitsRecorded, CommitEvent, TransitionEvent, New
  <2>6. TransitionsRecorded'
        BY <2>1, <2>2, <2>3, EventParts
        DEF RecordInv, TransitionsRecorded, TransitionEvent
  <2>7. SleepsRecorded'
        BY <2>1, <2>3 DEF RecordInv, SleepsRecorded, SleepEvent, TransitionEvent
  <2> QED
      BY <2>4, <2>5, <2>6, <2>7 DEF RecordInv
<1> QED
    BY <1>1, <1>2, <1>3, <1>4, <1>5, <1>6, <1>7, <1>8, <1>9 DEF FinalizeStep

\* A recovery records nothing.
LEMMA RecoverRecords ==
    ASSUME TypeOK, RecordInv,
           RecoverStep \/ \E k \in Keys : CloseByReplay(k) \/ RecoverStart(k)
    PROVE  RecordInv'
<1> USE DEF Committing, Committed, Archiving, BeforeRetiring,
            Retiring, Retired, Published, SleepSteps
<1>1. UNCHANGED <<ledger, commits, archiveDirs, sleepReceipts>>
      BY DEF RecoverStep, LinkBack, UnlinkArchived, RestoreReplaced,
             SkipNotArchived, RestoreRefused, AllRestored, AbortInflight,
             AbortRefused, ClearHead, CloseByReplay, RecoverStart,
             RecoverClose, RecoverRestore, RecoverRollback, durable
<1>2. pc' \in {"idle", "r_restore", "r_unlink", "r_abort_intent",
               "r_abort_restored", "r_head_clear"}
      BY DEF RecoverStep, LinkBack, UnlinkArchived, RestoreReplaced,
             SkipNotArchived, RestoreRefused, AllRestored, AbortInflight,
             AbortRefused, ClearHead, CloseByReplay, RecoverStart,
             RecoverClose, RecoverRestore, RecoverRollback, AtFile, Goto,
             Release, Idle
<1> QED
    BY <1>1, <1>2, RecordKept

\* A finalization begins only where no event of its operation can be.
LEMMA BeginRecords ==
    ASSUME TypeOK, RecordInv, NEW i \in Inputs, BeginFinalize(i)
    PROVE  RecordInv'
<1> DEFINE k == [input |-> i, prior |-> live.observations]
<1>1. k \in Keys
      BY LiveTypes DEF BeginFinalize, Keys, Option, TypeOK
<1>2. /\ UNCHANGED <<ledger, commits, archiveDirs, sleepReceipts, plan>>
      /\ pc' = "f_intent" /\ job' = k /\ k \notin archiveDirs
      BY DEF BeginFinalize
<1>3. \A e : Written(e)' <=> Written(e)
      BY <1>2, LedgerKept
<1>4. ~Written(TransitionEvent(k))
      BY <1>1, <1>2 DEF RecordInv, TransitionsRecorded
<1>5. TransitionsRecorded'
      BY <1>2, <1>3, <1>4
      DEF RecordInv, TransitionsRecorded, TransitionEvent, Archiving,
          BeforeRetiring, Retiring, Retired, Published
<1> QED
    BY <1>2, <1>3, <1>5, LedgerKept
    DEF RecordInv, CommitsRecorded, SleepsRecorded, Committing, Committed,
        SleepSteps, CommitEvent, SleepEvent

LEMMA SleepStartRecords ==
    ASSUME RecordInv, SleepStart
    PROVE  RecordInv'
<1>1. UNCHANGED <<ledger, commits, archiveDirs, sleepReceipts, job>>
      BY DEF SleepStart, ReplaySleep, ResumeSleep, OpenSleep, Plan, durable
<1>2. \A e : Written(e)' <=> Written(e)
      BY <1>1, LedgerKept
<1>3. pc' \in {"s_stage", "s_event", "s_head"}
      /\ (pc' # "s_head" => ReceiptsOf(SleepKey(plan'.state)) = {})
      BY DEF SleepStart, ReplaySleep, ResumeSleep, OpenSleep, Plan
<1>4. SleepsRecorded'
      BY <1>1, <1>2, <1>3 DEF RecordInv, SleepsRecorded, SleepEvent, ReceiptsOf
<1> QED
    BY <1>1, <1>2, <1>3, <1>4, LedgerKept
    DEF RecordInv, CommitsRecorded, TransitionsRecorded, Committing, Committed,
        Archiving, BeforeRetiring, Retiring, Retired, Published, CommitEvent,
        TransitionEvent

\* The event of a sleep is found or appended before its first pointer moves, and
\* its receipt is sealed where there was none.
LEMMA SleepRecords ==
    ASSUME TypeOK, RecordInv, SleepStep
    PROVE  RecordInv'
<1>1. UNCHANGED <<commits, archiveDirs>> /\ pc' \in SleepSteps \union {"idle"}
      /\ pc \in SleepSteps
      BY DEF SleepStep, StageSleep, AuthorizeSleep, InstallMemory, InstallBank,
             InstallSleepState, SealSleep, FinishSleep, SleepRefused, SleepSteps,
             Goto, Release, durable
<1>2. pc' \notin Committing \union Committed \union Archiving \union BeforeRetiring
                   \union {"f_commit_event", "f_receipt", "f_close"}
      BY <1>1 DEF Committing, Committed, Archiving, BeforeRetiring, Retiring,
                  Retired, Published, SleepSteps
<1>3. plan.state \in SleepStates /\ ledger \in Seq(Events)
      BY <1>1, PlanTypes DEF TypeOK, StoreTypeOK
<1>4. CASE \/ StageSleep \/ InstallMemory \/ InstallBank \/ InstallSleepState
  <2>1. UNCHANGED <<ledger, sleepReceipts, job, plan>>
        BY <1>4
        DEF StageSleep, InstallMemory, InstallBank, InstallSleepState, Goto
  <2>2. \A e : Written(e)' <=> Written(e)
        BY <2>1, LedgerKept
  <2>3. SleepsRecorded'
        BY <1>4, <2>1, <2>2
        DEF RecordInv, SleepsRecorded, SleepEvent, ReceiptsOf, StageSleep,
            InstallMemory, InstallBank, InstallSleepState, Goto, SleepSteps
  <2>4. CommitsRecorded' /\ TransitionsRecorded'
        BY <1>1, <1>2, <2>1, <2>2
        DEF RecordInv, CommitsRecorded, TransitionsRecorded, CommitEvent,
            TransitionEvent, Archiving
  <2> QED
      BY <2>1, <2>3, <2>4, LedgerKept DEF RecordInv
<1>5. CASE AuthorizeSleep
  <2>1. UNCHANGED <<sleepReceipts, job, plan>> /\ pc = "s_event" /\ pc' = "s_memory"
        BY <1>5 DEF AuthorizeSleep, Goto
  <2>2. CASE Recorded # {}
    <3>1. PICK i \in Recorded : ledger[i].op = plan.state
          BY <1>5, <2>2 DEF AuthorizeSleep, EventUsable
    <3>2. ledger[i] = SleepEvent(plan.state) /\ i \in DOMAIN ledger
          BY <1>3, <3>1, EventShape DEF Recorded, SleepEventsOf
    <3>3. UNCHANGED ledger
          BY <1>5, <2>2 DEF AuthorizeSleep
    <3>4. Written(SleepEvent(plan.state)) /\ \A e : Written(e)' <=> Written(e)
          BY <3>2, <3>3, LedgerKept DEF Written
    <3>5. SleepsRecorded'
          BY <2>1, <3>4
          DEF RecordInv, SleepsRecorded, SleepEvent, ReceiptsOf, SleepSteps
    <3> QED
        BY <1>1, <1>2, <2>1, <3>3, <3>4, <3>5, LedgerKept
        DEF RecordInv, CommitsRecorded, TransitionsRecorded, CommitEvent,
            TransitionEvent, Archiving
  <2>3. CASE Recorded = {}
    <3>1. AppendEvent(SleepEvent(plan.state)) /\ SleepEvent(plan.state) \in Events
          BY <1>3, <1>5, <2>3, EventParts DEF AuthorizeSleep
    <3>2. Fresh(SleepEvent(plan.state))
          BY <1>3, <2>3, EventParts DEF Fresh, Recorded, SleepEventsOf
    <3>3. LedgerUnambiguous'
          BY <1>3, <3>1, <3>2, FreshKept DEF RecordInv
    <3>4. \A e : Written(e)' <=> Written(e) \/ e = SleepEvent(plan.state)
          BY <1>3, <3>1, WrittenAfter
    <3>5. SleepsRecorded'
          BY <2>1, <3>4
          DEF RecordInv, SleepsRecorded, SleepEvent, ReceiptsOf, SleepSteps
    <3>6. CommitsRecorded' /\ TransitionsRecorded'
          BY <1>1, <1>2, <2>1, <3>4
          DEF RecordInv, CommitsRecorded, TransitionsRecorded, CommitEvent,
              TransitionEvent, SleepEvent, Archiving
    <3> QED
        BY <3>3, <3>5, <3>6 DEF RecordInv
  <2> QED
      BY <2>2, <2>3
<1>6. CASE SealSleep
  <2>1. /\ UNCHANGED <<ledger, job, plan>> /\ pc = "s_receipt" /\ pc' = "s_head"
        /\ sleepReceipts' = sleepReceipts \union {plan.state}
        BY <1>6 DEF SealSleep, Goto
  <2>2. \A e : Written(e)' <=> Written(e)
        BY <2>1, LedgerKept
  <2>3. SleepsRecorded'
        BY <2>1, <2>2
        DEF RecordInv, SleepsRecorded, SleepEvent, ReceiptsOf, SleepSteps
  <2> QED
      BY <1>1, <1>2, <2>1, <2>2, <2>3, LedgerKept
      DEF RecordInv, CommitsRecorded, TransitionsRecorded, CommitEvent,
          TransitionEvent, Archiving
<1>7. CASE FinishSleep \/ SleepRefused
  <2>1. /\ UNCHANGED <<ledger, commits, archiveDirs, sleepReceipts>>
        /\ pc' = "idle"
        BY <1>7 DEF FinishSleep, SleepRefused, Release, durable
  <2>2. pc' \notin SleepSteps
        BY <2>1 DEF SleepSteps
  <2> QED
      BY <1>2, <2>1, <2>2, RecordKept
<1> QED
    BY <1>4, <1>5, <1>6, <1>7 DEF SleepStep

LEMMA NextRecords == TypeOK /\ TransitionInv /\ RecordInv /\ [Next]_vars => RecordInv'
<1> SUFFICES ASSUME TypeOK, TransitionInv, RecordInv, [Next]_vars PROVE RecordInv'
    OBVIOUS
<1>1. CASE Operate
      BY <1>1, BeginRecords, RecoverRecords, SleepStartRecords DEF Operate
<1>2. CASE Continue
      BY <1>2, FinalizeRecords, RecoverRecords, SleepRecords DEF Continue
<1>3. CASE \E b \in Bundles : Install(b)
  <2>1. UNCHANGED <<ledger, commits, archiveDirs, sleepReceipts, pc, job, plan>>
        BY <1>3 DEF Install, InstallEvidence, control
  <2> QED
      BY <2>1, LedgerKept
      DEF RecordInv, CommitsRecorded, TransitionsRecorded, SleepsRecorded,
          New, ReceiptsOf, CommitEvent, TransitionEvent, SleepEvent
<1>4. CASE Crash
  <2>1. /\ UNCHANGED <<ledger, commits, archiveDirs, sleepReceipts>>
        /\ pc' = "idle"
        BY <1>4 DEF Crash, Release, durable
  <2>2. pc' \notin Archiving \union BeforeRetiring \union Committing
                     \union Committed \union SleepSteps
        BY <2>1 DEF Archiving, BeforeRetiring, Committing, Committed, SleepSteps,
                    Retiring, Retired, Published
  <2> QED
      BY <2>1, <2>2, RecordKept
<1>5. CASE UNCHANGED vars
  <2>1. UNCHANGED <<ledger, commits, archiveDirs, sleepReceipts, pc, job, plan>>
        BY <1>5 DEF vars, durable, control
  <2> QED
      BY <2>1, LedgerKept
      DEF RecordInv, CommitsRecorded, TransitionsRecorded, SleepsRecorded,
          New, ReceiptsOf, CommitEvent, TransitionEvent, SleepEvent
<1> QED
    BY <1>1, <1>2, <1>3, <1>4, <1>5 DEF Next

LEMMA InitRecords == Init => RecordInv
BY DEF Init, StoreInit, RecordInv, LedgerUnambiguous, CommitsRecorded,
       TransitionsRecorded, SleepsRecorded, Written, Committing, Committed,
       Archiving, BeforeRetiring, Retiring, Retired, Published, SleepSteps

\* No crash, retry or refusal makes the ledger tell an operation twice, or
\* leaves a commit, a transition or a sleep ahead of its event.
THEOREM RecordsInvariant == Spec => []RecordInv
<1>1. Init => RecordInv
      BY InitRecords
<1>2. TypeOK /\ TransitionInv /\ RecordInv /\ [Next]_vars => RecordInv'
      BY NextRecords
<1> QED
    BY <1>1, <1>2, TypeCorrect, TransitionInvariant, PTL DEF Spec

-----------------------------------------------------------------------------
(* Where the corpora and the evidence of a transition are.                   *)

Aborts == {"r_abort_intent", "r_abort_restored"}

\* The inflight transition is from one corpus to another, with evidence to
\* archive; its new corpus is live from its publication on, and a recovery
\* has the prior one live again before it takes back anything else.
CorpusKnown ==
    /\ \A k \in Inflight : New(k) # k.prior /\ prior.sleep_evidence_current # None
    /\ pc \in Published => live.observations = New(job)
    /\ pc \in Restoring \union Aborts => live.observations = job.prior

\* The evidence pointer, which the installer may move meanwhile, is archived
\* with the rest.
EvidenceArchived ==
    /\ pc = "f_unlink" => archive[job][File] # None
    /\ pc = "f_archive" /\ cursor = 6 => archive[job].sleep_evidence_current # None
    /\ pc \in Retired \union Published => archive[job].sleep_evidence_current # None

PlaceInv == CorpusKnown /\ EvidenceArchived

\* A step that moves neither the corpus nor an archive keeps this.
LEMMA PlaceKept ==
    ASSUME PlaceInv, UNCHANGED <<archive, prior>>,
           live'.observations = live.observations, Inflight' \subseteq Inflight,
           \/ pc' \notin Retiring \union Retired \union Published
                           \union Restoring \union Aborts
           \/ /\ UNCHANGED <<job, cursor>>
              /\ pc' \notin Retiring \union Restoring \union Aborts
              /\ pc' \in Published => pc \in Published
              /\ pc' \in Retired => pc \in Retired
    PROVE  PlaceInv'
BY DEF PlaceInv, CorpusKnown, EvidenceArchived, New, Retiring

\* Nor does a recovery, once the observations are back.
LEMMA PlaceBack ==
    ASSUME PlaceInv, UNCHANGED prior, live'.observations = live.observations,
           Inflight' \subseteq Inflight,
           pc' \notin Retiring \union Retired \union Published,
           pc' \in Restoring \union Aborts =>
               pc \in Restoring \union Aborts /\ job' = job
    PROVE  PlaceInv'
BY DEF PlaceInv, CorpusKnown, EvidenceArchived, New, Retiring

LEMMA FinalizePlace ==
    ASSUME TypeOK, TransitionInv, PlaceInv, FinalizeStep
    PROVE  PlaceInv'
<1> USE DEF BeforeRetiring, Retired, Published, Restoring, Aborts, Retiring
<1>1. CASE \/ WriteIntent \/ WriteTransitionJournal \/ MarkHead \/ MakeArchiveDir
           \/ StageCommit \/ AppendCommitEvent \/ SealCommit \/ PreserveHead
           \/ AppendTransitionEvent \/ SealReceipt
  <2>1. Inflight' \subseteq Inflight
        BY <1>1
        DEF WriteIntent, WriteTransitionJournal, MarkHead, MakeArchiveDir,
            StageCommit, AppendCommitEvent, SealCommit, PreserveHead,
            AppendTransitionEvent, SealReceipt, Inflight, TypeOK, StoreTypeOK,
            TransitionInv, OneTransition, Owning
  <2> QED
      BY <1>1, <2>1, PlaceKept
      DEF WriteIntent, WriteTransitionJournal, MarkHead, MakeArchiveDir,
          StageCommit, AppendCommitEvent, SealCommit, PreserveHead,
          AppendTransitionEvent, SealReceipt, Goto, JournalPhase, AfterJournal
<1>2. CASE InstallCommitMemory \/ InstallShadowBank
  <2>1. live'.observations = live.observations
        BY <1>2
        DEF InstallCommitMemory, InstallShadowBank, SetLive, TypeOK,
            StoreTypeOK, IsStore, Labels
  <2>2. Inflight' = Inflight
        BY <1>2 DEF InstallCommitMemory, InstallShadowBank, Inflight
  <2> QED
      BY <1>2, <2>1, <2>2, PlaceKept
      DEF InstallCommitMemory, InstallShadowBank, Goto
<1>3. CASE CloseIntent
  <2>1. Inflight' \subseteq Inflight
        BY <1>3 DEF CloseIntent, Inflight, TypeOK, StoreTypeOK
  <2> QED
      BY <1>3, <2>1, PlaceKept DEF CloseIntent, Goto
<1>4. CASE ArchiveRefused \/ CommitRefused
  <2>1. Inflight' = Inflight
        BY <1>4 DEF ArchiveRefused, CommitRefused, durable, Inflight
  <2> QED
      BY <1>4, <2>1, PlaceKept DEF ArchiveRefused, CommitRefused, durable, Release
<1>5. CASE ArchiveObservations
  <2>1. cursor' = 1 /\ pc' = "f_archive" /\ Inflight' = Inflight
        BY <1>5
        DEF ArchiveObservations, Goto, TransitionInv, CursorAt, Inflight
  <2> QED
      BY <1>5, <2>1
      DEF ArchiveObservations, Goto, PlaceInv, CorpusKnown, EvidenceArchived, New
<1>6. CASE LinkIntoArchive
  <2>1. archive'[job][File] = live[File] /\ live[File] # None
        BY <1>6, FileOrderIsLabels, JobTypes
        DEF LinkIntoArchive, AtFile, ArchiveExpected, File, TypeOK, StoreTypeOK,
            IsStore, TransitionSteps, Steps, SleepSteps
  <2>2. pc' = "f_unlink" /\ UNCHANGED <<job, cursor, prior>> /\ Inflight' = Inflight
        BY <1>6 DEF LinkIntoArchive, Goto, Inflight
  <2> QED
      BY <2>1, <2>2
      DEF PlaceInv, CorpusKnown, EvidenceArchived, New, File
<1>7. CASE UnlinkLive
  <2>1. /\ pc' = "f_archive" /\ UNCHANGED <<job, prior, archive>>
        /\ Inflight' = Inflight /\ cursor' = cursor + 1
        /\ pc = "f_unlink" /\ cursor \in 1 .. 5
        BY <1>7, FileOrderIsLabels DEF UnlinkLive, AtFile, Inflight
  <2>2. cursor' = 6 => File = "sleep_evidence_current"
        BY <2>1 DEF File, FileOrder
  <2> QED
      BY <2>1, <2>2 DEF PlaceInv, CorpusKnown, EvidenceArchived, New
<1>8. CASE SkipAbsent
  <2>1. /\ pc' = "f_archive" /\ UNCHANGED <<job, prior, archive>>
        /\ Inflight' = Inflight /\ cursor' = cursor + 1
        /\ pc = "f_archive" /\ cursor \in 1 .. 5
        BY <1>8, FileOrderIsLabels DEF SkipAbsent, AtFile, Inflight, durable
  <2>2. cursor' # 6
    <3>1. SUFFICES ASSUME cursor' = 6 PROVE FALSE
          OBVIOUS
    <3>2. File = "sleep_evidence_current"
          BY <2>1, <3>1 DEF File, FileOrder
    <3>3. prior.sleep_evidence_current = None
          BY <1>8, <3>2 DEF SkipAbsent
    <3>4. job \in Inflight
          BY <2>1 DEF TransitionInv, OneTransition, Owning
    <3> QED
        BY <3>3, <3>4 DEF PlaceInv, CorpusKnown
  <2> QED
      BY <2>1, <2>2 DEF PlaceInv, CorpusKnown, EvidenceArchived, New
<1>9. CASE AllArchived
  <2>1. /\ pc' = "f_journal_archived" /\ UNCHANGED <<job, prior, archive>>
        /\ Inflight' = Inflight /\ pc = "f_archive" /\ cursor = 6
        BY <1>9, FileOrderIsLabels DEF AllArchived, Inflight, durable
  <2> QED
      BY <2>1 DEF PlaceInv, CorpusKnown, EvidenceArchived, New
<1>10. CASE PublishCorpus
  <2>1. live'.observations = New(job) /\ Inflight' = Inflight
        BY <1>10
        DEF PublishCorpus, SetLive, Inflight, TypeOK, StoreTypeOK, IsStore, Labels
  <2> QED
      BY <1>10, <2>1
      DEF PublishCorpus, Goto, PlaceInv, CorpusKnown, EvidenceArchived, New
<1> QED
    BY <1>1, <1>2, <1>3, <1>4, <1>5, <1>6, <1>7, <1>8, <1>9, <1>10
    DEF FinalizeStep

LEMMA RecoverPlace ==
    ASSUME TypeOK, TransitionInv, PlaceInv, RecoverStep
    PROVE  PlaceInv'
<1>1. live'.observations = live.observations
  <2>1. ~Idle
        BY DEF RecoverStep, LinkBack, UnlinkArchived, RestoreReplaced,
               SkipNotArchived, RestoreRefused, AllRestored, AbortInflight,
               Aborting, AbortRefused, ClearHead, AtFile, Idle
  <2>2. ~ArchiveObservations /\ ~PublishCorpus
        BY DEF RecoverStep, LinkBack, UnlinkArchived, RestoreReplaced,
               SkipNotArchived, RestoreRefused, AllRestored, AbortInflight,
               Aborting, AbortRefused, ClearHead, AtFile, ArchiveObservations,
               PublishCorpus
  <2> QED
      BY <2>1, <2>2, CorpusStays DEF Continue, RecoverRestore, Unsealed, Recovers
<1>2. Inflight' \subseteq Inflight /\ prior' = prior
      BY DEF RecoverStep, LinkBack, UnlinkArchived, RestoreReplaced,
             SkipNotArchived, RestoreRefused, AllRestored, AbortInflight,
             AbortRefused, ClearHead, Inflight, durable, Goto, Release, TypeOK,
             StoreTypeOK
<1>3. /\ pc' \in {"idle", "r_head_clear"} \union Restoring \union Aborts
      /\ pc' \in Restoring \union Aborts =>
             pc \in Restoring \union Aborts /\ job' = job
      BY DEF RecoverStep, LinkBack, UnlinkArchived, RestoreReplaced,
             SkipNotArchived, RestoreRefused, AllRestored, AbortInflight,
             AbortRefused, ClearHead, AtFile, Goto, Release, Restoring, Aborts
<1>4. pc' \notin Retiring \union Retired \union Published
      BY <1>3 DEF Restoring, Aborts, Retiring, Retired, Published
<1> QED
    BY <1>1, <1>2, <1>3, <1>4, PlaceBack

\* A finalization begins from a corpus that is not the one it installs, and with
\* evidence; a recovery that restores starts with the observations.
LEMMA StartPlace ==
    ASSUME TypeOK, TransitionInv, PlaceInv,
           \/ \E i \in Inputs : BeginFinalize(i)
           \/ \E k \in Keys : CloseByReplay(k) \/ RecoverStart(k)
    PROVE  PlaceInv'
<1> USE DEF Retired, Published, Restoring, Aborts, Retiring
<1>1. ASSUME NEW i \in Inputs, BeginFinalize(i)
      PROVE  PlaceInv'
  <2> DEFINE k == [input |-> i, prior |-> live.observations]
  <2>1. k \in Keys
        BY <1>1, LiveTypes DEF BeginFinalize, Keys, Option, TypeOK
  <2>2. Inflight' \subseteq {k}
        BY <1>1, <2>1
        DEF BeginFinalize, NoIncompleteTransition, Inflight, TypeOK, StoreTypeOK
  <2>3. New(k) # k.prior
        BY <1>1 DEF BeginFinalize, New
  <2>4. prior'.sleep_evidence_current # None
        BY <1>1
        DEF BeginFinalize, IntegrityHealthy, SnapshotPriorRuntimeArtifacts,
            TypeOK, StoreTypeOK, IsStore, Labels
  <2> QED
      BY <1>1, <2>2, <2>3, <2>4
      DEF BeginFinalize, PlaceInv, CorpusKnown, EvidenceArchived, New
<1>2. ASSUME NEW k \in Keys, CloseByReplay(k) \/ RecoverClose(k)
      PROVE  PlaceInv'
  <2>1. Inflight' \subseteq Inflight
        BY <1>2 DEF CloseByReplay, RecoverClose, Inflight, TypeOK, StoreTypeOK
  <2> QED
      BY <1>2, <2>1, PlaceKept DEF CloseByReplay, RecoverClose, Idle
<1>3. ASSUME NEW k \in Keys, RecoverRestore(k)
      PROVE  PlaceInv'
  <2>1. archive[k].observations = k.prior
        BY <1>3
        DEF RecoverRestore, Decision, Classify, TransitionInv, SnapshotWhole
  <2>2. live'.observations = k.prior
        BY <1>3, <2>1
        DEF RecoverRestore, SetLive, TypeOK, StoreTypeOK, IsStore, Labels
  <2>3. pc' = "r_restore" /\ job' = k /\ Inflight' = Inflight /\ prior' = prior
        BY <1>3 DEF RecoverRestore, Inflight
  <2> QED
      BY <2>2, <2>3 DEF PlaceInv, CorpusKnown, EvidenceArchived, New
<1>4. ASSUME NEW k \in Keys, RecoverRollback(k)
      PROVE  PlaceInv'
  <2>1. /\ k \in Inflight /\ live.observations \in {None, k.prior}
        /\ archive[k].observations = None
        BY <1>4
        DEF RecoverRollback, Unsealed, Recovers, Decision, Classify
  <2>2. live.observations = k.prior
        BY <2>1, EngineLabelsAre, KeyParts
        DEF TransitionInv, SnapshotWhole, PriorNeverLost, Inflight
  <2>3. /\ pc' = "r_abort_intent" /\ job' = k /\ Inflight' = Inflight
        /\ UNCHANGED <<live, prior>>
        BY <1>4 DEF RecoverRollback, Inflight, durable
  <2> QED
      BY <2>2, <2>3 DEF PlaceInv, CorpusKnown, EvidenceArchived, New
<1> QED
    BY <1>1, <1>2, <1>3, <1>4 DEF RecoverStart

LEMMA OtherPlace ==
    ASSUME TypeOK, TransitionInv, PlaceInv,
           \/ SleepStart \/ SleepStep \/ Crash \/ UNCHANGED vars
           \/ \E b \in Bundles : Install(b)
    PROVE  PlaceInv'
<1>1. CASE SleepStart \/ SleepStep
  <2>1. live'.observations = live.observations /\ Inflight' = Inflight
        /\ UNCHANGED <<archive, prior>>
        BY <1>1
        DEF SleepStart, ReplaySleep, ResumeSleep, OpenSleep, SleepStep,
            StageSleep, AuthorizeSleep, InstallMemory, InstallBank,
            InstallSleepState, SealSleep, FinishSleep, SleepRefused, Plan,
            Goto, Release, SetLive, durable, Inflight, TypeOK, StoreTypeOK,
            IsStore, Labels
  <2>2. pc' \in SleepSteps \union {"idle"}
        BY <1>1
        DEF SleepStart, ReplaySleep, ResumeSleep, OpenSleep, SleepStep,
            StageSleep, AuthorizeSleep, InstallMemory, InstallBank,
            InstallSleepState, SealSleep, FinishSleep, SleepRefused, Plan,
            Goto, Release, SleepSteps
  <2>3. pc' \notin Retiring \union Retired \union Published \union Restoring
                     \union Aborts
        BY <2>2 DEF Retiring, Retired, Published, Restoring, Aborts, SleepSteps
  <2> QED
      BY <2>1, <2>3, PlaceKept
<1>2. CASE Crash
  <2>1. UNCHANGED <<archive, prior, live>> /\ Inflight' = Inflight /\ pc' = "idle"
        BY <1>2 DEF Crash, Release, durable, Inflight
  <2> QED
      BY <2>1, PlaceKept DEF Retiring, Retired, Published, Restoring, Aborts
<1>3. CASE UNCHANGED vars \/ \E b \in Bundles : Install(b)
  <2>1. live'.observations = live.observations
        BY <1>3
        DEF vars, durable, Install, InstallEvidence, SetLive, TypeOK,
            StoreTypeOK, IsStore, Labels
  <2>2. UNCHANGED <<archive, prior, pc, job, cursor, inflight>>
        BY <1>3 DEF vars, durable, control, Install, InstallEvidence
  <2> QED
      BY <2>1, <2>2
      DEF PlaceInv, CorpusKnown, EvidenceArchived, New, Inflight, File
<1> QED
    BY <1>1, <1>2, <1>3

-----------------------------------------------------------------------------
(* The journal.                                                              *)

Late == {"NewCorpusPublished", "CommitSealed", "ReceiptSealed"}

\* The journal of a transition that has not published is not ahead.
JournalBehind ==
    /\ \A k \in Keys : journal[k] \in Late => k \in archiveDirs
    /\ pc \in BeforeRetiring \union Retiring \union Retired => journal[job] \notin Late
    /\ pc \in {"f_close", "f_journal_receipt"} => receipts[job] # None
    /\ pc = "f_journal_receipt" => job \in closed

JournalInv == JournalBehind /\ JournalNeverAhead

\* What a step that does not move the corpus may do to the files the journal
\* is compared with.
LEMMA JournalKept ==
    ASSUME JournalInv, UNCHANGED journal,
           live'.observations = live.observations, Inflight' \subseteq Inflight,
           archiveDirs \subseteq archiveDirs', closed \subseteq closed',
           \A k \in Keys : commits[New(k)] = "sealed" => commits'[New(k)] = "sealed",
           \A k \in Keys : receipts[k] # None => receipts'[k] # None,
           \/ pc' \notin BeforeRetiring \union Retiring \union Retired
                           \union {"f_close", "f_journal_receipt"}
           \/ /\ job' = job
              /\ pc' \in BeforeRetiring \union Retiring \union Retired =>
                     pc \in BeforeRetiring \union Retiring \union Retired
              /\ pc' \notin {"f_close", "f_journal_receipt"}
    PROVE  JournalInv'
BY DEF JournalInv, JournalBehind, JournalNeverAhead, New, Late

\* A corpus moves only when no journal says it is published.
LEMMA JournalMoves ==
    ASSUME TypeOK, TransitionInv, PlaceInv, JournalInv,
           UNCHANGED <<journal, archiveDirs, inflight, closed, commits, receipts>>,
           NEW k \in Keys, CorpusMoves(k), k \in Inflight,
           \/ /\ pc \in BeforeRetiring \union Retiring \union Retired
              /\ job' = job /\ job = k
           \/ live.observations = None /\ pc = "idle" /\ pc' = "r_restore",
           pc' \notin {"f_close", "f_journal_receipt"}
    PROVE  JournalInv'
<1>1. \A j \in Inflight : j = k
      BY DEF TransitionInv, OneTransition
<1>2. journal[k] \notin {"NewCorpusPublished", "CommitSealed"}
  <2>1. CASE live.observations = None
    <3>1. New(k) # None
          BY ConstantsAssumption DEF New, Keys
    <3> QED
        BY <2>1, <3>1 DEF JournalInv, JournalNeverAhead
  <2>2. CASE job = k /\ pc \in BeforeRetiring \union Retiring \union Retired
        BY <2>2 DEF JournalInv, JournalBehind, Late
  <2> QED
      BY <2>1, <2>2
<1>3. Inflight' = Inflight
      BY DEF Inflight
<1>4. JournalNeverAhead'
      BY <1>1, <1>2, <1>3 DEF JournalInv, JournalNeverAhead, New
<1>5. "r_restore" \notin BeforeRetiring \union Retiring \union Retired
      BY DEF BeforeRetiring, Retiring, Retired
<1>6. JournalBehind'
      BY <1>5 DEF JournalInv, JournalBehind, Late
<1> QED
    BY <1>4, <1>6 DEF JournalInv

\* A journal write records what is already durable.
LEMMA WriteJournal ==
    ASSUME TypeOK, TransitionInv, RecordInv, PlaceInv, JournalInv,
           WriteTransitionJournal
    PROVE  JournalInv'
<1> USE DEF JournalPhase, AfterJournal
<1>1. /\ journal' = [journal EXCEPT ![job] = JournalPhase[pc]]
      /\ UNCHANGED <<live, inflight, archiveDirs, commits, receipts, closed, job>>
      /\ pc' = AfterJournal[pc]
      BY DEF WriteTransitionJournal, Goto
<1>2. pc \in {"f_journal_intent", "f_journal_archived", "f_journal_staged",
              "f_journal_published", "f_journal_commit", "f_journal_receipt"}
      BY DEF WriteTransitionJournal
<1>3. job \in Keys /\ Inflight' = Inflight
      BY <1>1, <1>2, JobTypes DEF TypeOK, TransitionSteps, Steps, SleepSteps, Inflight
<1>4. /\ journal'[job] = JournalPhase[pc]
      /\ \A k \in Keys \ {job} : journal'[k] = journal[k]
      BY <1>1, <1>3 DEF TypeOK, StoreTypeOK
<1>5. JournalPhase[pc] \in Late => job \in archiveDirs
      BY <1>2
      DEF RecordInv, TransitionsRecorded, Archiving, Published, Late
<1>6. JournalBehind'
  <2>1. CASE pc \in {"f_journal_intent", "f_journal_archived", "f_journal_staged"}
        BY <1>1, <1>3, <1>4, <1>5, <2>1
        DEF JournalInv, JournalBehind, Late, BeforeRetiring, Retiring, Retired
  <2>2. CASE pc \in {"f_journal_published", "f_journal_commit", "f_journal_receipt"}
        BY <1>1, <1>3, <1>4, <1>5, <2>2
        DEF JournalInv, JournalBehind, Late, BeforeRetiring, Retiring, Retired
  <2> QED
      BY <1>2, <2>1, <2>2
<1>7. JournalNeverAhead'
  <2>1. CASE pc \in {"f_journal_intent", "f_journal_archived", "f_journal_staged"}
        BY <1>1, <1>3, <1>4, <2>1 DEF JournalInv, JournalNeverAhead, New
  <2>2. CASE pc = "f_journal_published"
    <3>1. live.observations = New(job)
          BY <2>2 DEF PlaceInv, CorpusKnown, Published
    <3> QED
        BY <1>1, <1>3, <1>4, <2>2, <3>1 DEF JournalInv, JournalNeverAhead, New
  <2>3. CASE pc = "f_journal_commit"
    <3>1. live.observations = New(job) /\ commits[New(job)] = "sealed"
          BY <2>3
          DEF PlaceInv, CorpusKnown, Published, RecordInv, CommitsRecorded, Committed
    <3> QED
        BY <1>1, <1>3, <1>4, <2>3, <3>1 DEF JournalInv, JournalNeverAhead, New
  <2>4. CASE pc = "f_journal_receipt"
    <3>1. commits[New(job)] = "sealed"
          BY <2>4 DEF RecordInv, CommitsRecorded, Committed
    <3>2. receipts[job] # None /\ job \in closed
          BY <2>4 DEF JournalInv, JournalBehind
    <3> QED
        BY <1>1, <1>3, <1>4, <2>4, <3>1, <3>2 DEF JournalInv, JournalNeverAhead, New
  <2> QED
      BY <1>2, <2>1, <2>2, <2>3, <2>4
<1> QED
    BY <1>6, <1>7 DEF JournalInv

LEMMA FinalizeJournal ==
    ASSUME TypeOK, TransitionInv, RecordInv, PlaceInv, JournalInv, FinalizeStep
    PROVE  JournalInv'
<1> USE DEF BeforeRetiring, Retired, Retiring
<1>1. CASE WriteTransitionJournal
      BY <1>1, WriteJournal
<1>2. CASE ArchiveObservations \/ PublishCorpus
  <2>1. /\ UNCHANGED <<journal, archiveDirs, inflight, closed, commits, receipts>>
        /\ pc \in {"f_archive_observations", "f_publish"} /\ job' = job
        /\ pc' \in {"f_archive", "f_journal_published"}
        BY <1>2 DEF ArchiveObservations, PublishCorpus, Goto
  <2>2. job \in Keys /\ job \in Inflight
        BY <2>1 DEF TransitionInv, OneTransition, Owning, Inflight
  <2>3. inflight[job] = "intent" /\ receipts[job] = None
        BY <2>1 DEF TransitionInv, OneTransition, Owning
  <2>4. CorpusMoves(job)
    <3>1. CASE ArchiveObservations
          BY <2>1, <2>3, <3>1
          DEF ArchiveObservations, SetLive, CorpusMoves, TransitionInv,
              CorpusPlaced, TypeOK, StoreTypeOK, IsStore, Labels
    <3>2. CASE PublishCorpus
          BY <2>1, <2>3, <3>2
          DEF PublishCorpus, SetLive, CorpusMoves, TransitionInv,
              CorpusPlaced, TypeOK, StoreTypeOK, IsStore, Labels
    <3> QED
        BY <1>2, <3>1, <3>2
  <2> QED
      BY <2>1, <2>2, <2>4, JournalMoves
<1>3. CASE SealReceipt
  <2>1. UNCHANGED <<journal, live, inflight, archiveDirs, closed, commits, job>>
        /\ pc = "f_receipt" /\ pc' = "f_close"
        /\ receipts' = [receipts EXCEPT ![job] = archive[job]]
        BY <1>3 DEF SealReceipt, Goto
  <2>2. job \in Keys
        BY <2>1, JobTypes DEF TypeOK, TransitionSteps, Steps, SleepSteps
  <2>3. archive[job] # None
        BY <2>2, StoreIsThere DEF TypeOK, StoreTypeOK
  <2>4. Inflight' = Inflight /\ New(job)' = New(job)
        BY <2>1 DEF Inflight, New
  <2>5. JournalBehind'
        BY <2>1, <2>2, <2>3 DEF JournalInv, JournalBehind, TypeOK, StoreTypeOK
  <2>6. JournalNeverAhead'
        BY <2>1, <2>2, <2>3, <2>4
        DEF JournalInv, JournalNeverAhead, New, TypeOK, StoreTypeOK
  <2> QED
      BY <2>5, <2>6 DEF JournalInv
<1>4. CASE CloseIntent
  <2>1. UNCHANGED <<journal, live, archiveDirs, receipts, commits, job>>
        /\ pc = "f_close" /\ pc' = "f_journal_receipt"
        /\ inflight' = [inflight EXCEPT ![job] = "none"]
        /\ closed' = closed \union {job}
        BY <1>4 DEF CloseIntent, Goto
  <2>2. Inflight' \subseteq Inflight /\ New(job)' = New(job)
        BY <2>1 DEF Inflight, New, TypeOK, StoreTypeOK
  <2>3. JournalBehind'
        BY <2>1 DEF JournalInv, JournalBehind
  <2>4. JournalNeverAhead'
        BY <2>1, <2>2 DEF JournalInv, JournalNeverAhead, New
  <2> QED
      BY <2>3, <2>4 DEF JournalInv
<1>5. CASE StageCommit \/ SealCommit
  <2>1. /\ UNCHANGED <<journal, live, inflight, archiveDirs, receipts, closed, job>>
        /\ pc \in {"f_commit", "f_commit_receipt"}
        /\ pc' \in {"f_commit_event", "f_head_preserve"}
        BY <1>5 DEF StageCommit, SealCommit, Goto
  <2>2. New(job) \in Corpora
        BY <2>1, JobTypes DEF TypeOK, TransitionSteps, Steps, SleepSteps
  <2>3. \A c \in Corpora : commits[c] = "sealed" => commits'[c] = "sealed"
        BY <1>5, <2>2 DEF StageCommit, SealCommit, TypeOK, StoreTypeOK
  <2>4. Inflight' = Inflight
        BY <2>1 DEF Inflight
  <2>5. \A k \in Keys : New(k) \in Corpora
        BY ConstantsAssumption DEF Keys, New
  <2> QED
      BY <2>1, <2>3, <2>4, <2>5, JournalKept
<1>6. CASE \/ WriteIntent \/ MarkHead \/ MakeArchiveDir \/ LinkIntoArchive
           \/ UnlinkLive \/ SkipAbsent \/ AllArchived
  <2>1. live'.observations = live.observations
        BY <1>6, CorpusStays
        DEF Continue, FinalizeStep, WriteIntent, MarkHead, MakeArchiveDir,
            LinkIntoArchive, UnlinkLive, SkipAbsent, AllArchived, AtFile,
            ArchiveObservations, PublishCorpus, RecoverRestore, Unsealed,
            Recovers, Idle
  <2>2. Inflight' \subseteq Inflight
        BY <1>6
        DEF WriteIntent, MarkHead, MakeArchiveDir, LinkIntoArchive, UnlinkLive,
            SkipAbsent, AllArchived, AtFile, Inflight, durable, TypeOK,
            StoreTypeOK, TransitionInv, OneTransition, Owning
  <2>3. /\ UNCHANGED <<journal, commits, receipts, closed, job>>
        /\ archiveDirs \subseteq archiveDirs'
        BY <1>6
        DEF WriteIntent, MarkHead, MakeArchiveDir, LinkIntoArchive, UnlinkLive,
            SkipAbsent, AllArchived, Goto, durable
  <2>4. /\ pc \in BeforeRetiring \union Retiring \union Retired
        /\ pc' \in BeforeRetiring \union Retiring \union Retired
        /\ pc' \notin {"f_close", "f_journal_receipt"}
        BY <1>6
        DEF WriteIntent, MarkHead, MakeArchiveDir, LinkIntoArchive, UnlinkLive,
            SkipAbsent, AllArchived, AtFile, Goto
  <2> QED
      BY <2>1, <2>2, <2>3, <2>4, JournalKept
<1>7. CASE \/ AppendCommitEvent \/ InstallCommitMemory \/ InstallShadowBank
           \/ PreserveHead \/ AppendTransitionEvent
           \/ ArchiveRefused \/ CommitRefused
  <2>1. live'.observations = live.observations
        BY <1>7
        DEF AppendCommitEvent, InstallCommitMemory, InstallShadowBank,
            PreserveHead, AppendTransitionEvent, ArchiveRefused, CommitRefused,
            SetLive, durable, TypeOK, StoreTypeOK, IsStore, Labels
  <2>2. /\ UNCHANGED <<journal, commits, receipts, closed, archiveDirs, inflight>>
        /\ pc' \in {"f_memory", "f_shadow", "f_commit_receipt",
                    "f_journal_commit", "f_receipt", "idle"}
        BY <1>7
        DEF AppendCommitEvent, InstallCommitMemory, InstallShadowBank,
            PreserveHead, AppendTransitionEvent, ArchiveRefused, CommitRefused,
            Goto, Release, durable
  <2>3. Inflight' = Inflight
        BY <2>2 DEF Inflight
  <2> QED
      BY <2>1, <2>2, <2>3, JournalKept
<1> QED
    BY <1>1, <1>2, <1>3, <1>4, <1>5, <1>6, <1>7 DEF FinalizeStep

LEMMA StartJournal ==
    ASSUME TypeOK, TransitionInv, PlaceInv, JournalInv,
           \/ \E i \in Inputs : BeginFinalize(i)
           \/ \E k \in Keys : CloseByReplay(k) \/ RecoverStart(k)
    PROVE  JournalInv'
<1> USE DEF BeforeRetiring, Retired, Retiring
<1>1. ASSUME NEW i \in Inputs, BeginFinalize(i)
      PROVE  JournalInv'
  <2> DEFINE k == [input |-> i, prior |-> live.observations]
  <2>1. k \in Keys
        BY <1>1, LiveTypes DEF BeginFinalize, Keys, Option, TypeOK
  <2>2. Inflight' \subseteq {k}
        BY <1>1, <2>1
        DEF BeginFinalize, NoIncompleteTransition, Inflight, TypeOK, StoreTypeOK
  <2>3. journal[k] \notin Late
        BY <1>1, <2>1 DEF BeginFinalize, JournalInv, JournalBehind
  <2>4. JournalBehind'
        BY <1>1, <2>3 DEF BeginFinalize, JournalInv, JournalBehind
  <2>5. JournalNeverAhead'
        BY <1>1, <2>2, <2>3
        DEF BeginFinalize, JournalInv, JournalNeverAhead, New, Late
  <2> QED
      BY <2>4, <2>5 DEF JournalInv
<1>2. ASSUME NEW k \in Keys, CloseByReplay(k) \/ RecoverClose(k)
      PROVE  JournalInv'
  <2>1. Inflight' \subseteq Inflight
        BY <1>2 DEF CloseByReplay, RecoverClose, Inflight, TypeOK, StoreTypeOK
  <2>2. /\ UNCHANGED <<journal, live, archiveDirs, commits, receipts>>
        /\ closed \subseteq closed' /\ pc' \in {"idle", "r_head_clear"}
        BY <1>2 DEF CloseByReplay, RecoverClose, Recovers, Idle
  <2> QED
      BY <2>1, <2>2, JournalKept
<1>3. ASSUME NEW k \in Keys, RecoverRestore(k)
      PROVE  JournalInv'
  <2>1. /\ archive[k].observations = k.prior /\ live.observations = None
        /\ inflight[k] = "intent" /\ receipts[k] = None /\ k \in Inflight
        BY <1>3
        DEF RecoverRestore, Unsealed, Decision, Classify, TransitionInv,
            SnapshotWhole, Inflight
  <2>2. live'.observations = k.prior
        BY <1>3, <2>1
        DEF RecoverRestore, SetLive, TypeOK, StoreTypeOK, IsStore, Labels
  <2>3. /\ UNCHANGED <<journal, archiveDirs, inflight, closed, commits, receipts>>
        /\ pc = "idle" /\ pc' = "r_restore"
        BY <1>3 DEF RecoverRestore, Unsealed, Recovers, Idle
  <2>4. CorpusMoves(k)
        BY <2>1, <2>2, <2>3 DEF CorpusMoves
  <2> QED
      BY <2>1, <2>3, <2>4, JournalMoves
<1>4. ASSUME NEW k \in Keys, RecoverRollback(k)
      PROVE  JournalInv'
  <2>1. UNCHANGED durable /\ pc' = "r_abort_intent" /\ Inflight' = Inflight
        BY <1>4 DEF RecoverRollback, durable, Inflight
  <2> QED
      BY <2>1, JournalKept DEF durable
<1> QED
    BY <1>1, <1>2, <1>3, <1>4 DEF RecoverStart

LEMMA OtherJournal ==
    ASSUME TypeOK, JournalInv,
           \/ RecoverStep \/ SleepStart \/ SleepStep \/ Crash \/ UNCHANGED vars
           \/ \E b \in Bundles : Install(b)
    PROVE  JournalInv'
<1>1. live'.observations = live.observations
  <2>1. CASE RecoverStep
        BY <2>1, FileOrderIsLabels, FileOrderAt
        DEF RecoverStep, LinkBack, UnlinkArchived, RestoreReplaced,
            SkipNotArchived, RestoreRefused, AllRestored, AbortInflight,
            AbortRefused, ClearHead, AtFile, File, SetLive, durable, TypeOK,
            StoreTypeOK, IsStore, Labels
  <2>2. CASE SleepStart \/ SleepStep
        BY <2>2
        DEF SleepStart, ReplaySleep, ResumeSleep, OpenSleep, SleepStep,
             StageSleep, AuthorizeSleep, InstallMemory, InstallBank,
             InstallSleepState, SealSleep, FinishSleep, SleepRefused,
             SetLive, durable, TypeOK, StoreTypeOK, IsStore, Labels
  <2>3. CASE Crash \/ UNCHANGED vars \/ \E b \in Bundles : Install(b)
        BY <2>3
        DEF Crash, vars, durable, Install, InstallEvidence, SetLive, TypeOK,
            StoreTypeOK, IsStore, Labels
  <2> QED
      BY <2>1, <2>2, <2>3
<1>2. /\ UNCHANGED <<journal, archiveDirs, closed, commits, receipts>>
      /\ Inflight' \subseteq Inflight
      BY DEF RecoverStep, LinkBack, UnlinkArchived, RestoreReplaced,
             SkipNotArchived, RestoreRefused, AllRestored, AbortInflight,
             AbortRefused, ClearHead, SleepStart, ReplaySleep, ResumeSleep,
             OpenSleep, SleepStep, StageSleep, AuthorizeSleep, InstallMemory,
             InstallBank, InstallSleepState, SealSleep, FinishSleep,
             SleepRefused, Crash, vars, Install, InstallEvidence, durable,
             Inflight, TypeOK, StoreTypeOK
<1>3. CASE UNCHANGED vars \/ \E b \in Bundles : Install(b)
  <2>1. UNCHANGED <<pc, job, inflight>>
        BY <1>3 DEF vars, durable, control, Install, InstallEvidence
  <2> QED
      BY <1>1, <1>2, <2>1
      DEF JournalInv, JournalBehind, JournalNeverAhead, New, Inflight
<1>4. CASE RecoverStep \/ SleepStart \/ SleepStep \/ Crash
  <2>1. pc' \in SleepSteps \union Restoring \union Aborts
                  \union {"idle", "r_head_clear"}
        BY <1>4
        DEF RecoverStep, LinkBack, UnlinkArchived, RestoreReplaced,
             SkipNotArchived, RestoreRefused, AllRestored, AbortInflight,
             AbortRefused, ClearHead, SleepStart, ReplaySleep, ResumeSleep,
             OpenSleep, SleepStep, StageSleep, AuthorizeSleep, InstallMemory,
             InstallBank, InstallSleepState, SealSleep, FinishSleep,
             SleepRefused, Crash, Plan, Goto, Release, AtFile, SleepSteps,
             Restoring, Aborts
  <2>2. pc' \notin BeforeRetiring \union Retiring \union Retired
                     \union {"f_close", "f_journal_receipt"}
        BY <2>1
        DEF BeforeRetiring, Retiring, Retired, SleepSteps, Restoring, Aborts
  <2> QED
      BY <1>1, <1>2, <2>2, JournalKept
<1> QED
    BY <1>3, <1>4

-----------------------------------------------------------------------------
(* The receipts.  What they stand for is not taken away.                     *)

\* Three steps write to the ledger.
LEMMA LedgerApart ==
    ASSUME [Next]_vars, ~AppendCommitEvent, ~AppendTransitionEvent, ~AuthorizeSleep
    PROVE  UNCHANGED ledger
BY DEF Next, Operate, Continue, BeginFinalize, CloseByReplay, RecoverStart,
       RecoverClose, RecoverRestore, RecoverRollback, SleepStart,
       ReplaySleep, ResumeSleep, OpenSleep, FinalizeStep, WriteIntent,
       WriteTransitionJournal, MarkHead, MakeArchiveDir,
       ArchiveObservations, LinkIntoArchive, UnlinkLive, SkipAbsent,
       ArchiveRefused, AllArchived, PublishCorpus, StageCommit,
       CommitRefused, InstallCommitMemory, InstallShadowBank, SealCommit,
       PreserveHead, SealReceipt, CloseIntent, RecoverStep, LinkBack,
       UnlinkArchived, RestoreReplaced, SkipNotArchived, RestoreRefused,
       AllRestored, AbortInflight, AbortRefused, ClearHead, SleepStep,
       StageSleep, InstallMemory, InstallBank, InstallSleepState,
       SealSleep, FinishSleep, SleepRefused, Crash, Install,
       InstallEvidence, vars, durable

\* What is written stays.
LEMMA EventsStay ==
    ASSUME TypeOK, [Next]_vars
    PROVE  \A e : Written(e) => Written(e)'
<1>1. CASE AppendCommitEvent
  <2>1. CommitEvent(New(job)) \in Events /\ AppendEvent(CommitEvent(New(job)))
        BY <1>1, JobTypes, EventParts
        DEF AppendCommitEvent, TypeOK, TransitionSteps, Steps, SleepSteps
  <2> QED
      BY <2>1, WrittenAfter DEF TypeOK, StoreTypeOK
<1>2. CASE AppendTransitionEvent
  <2>1. TransitionEvent(job) \in Events /\ AppendEvent(TransitionEvent(job))
        BY <1>2, JobTypes, EventParts
        DEF AppendTransitionEvent, TypeOK, TransitionSteps, Steps, SleepSteps
  <2> QED
      BY <2>1, WrittenAfter DEF TypeOK, StoreTypeOK
<1>3. CASE AuthorizeSleep
  <2>1. SleepEvent(plan.state) \in Events
        BY <1>3, PlanTypes, EventParts DEF AuthorizeSleep, TypeOK, SleepSteps
  <2>2. AppendEvent(SleepEvent(plan.state)) \/ UNCHANGED ledger
        BY <1>3 DEF AuthorizeSleep
  <2> QED
      BY <2>1, <2>2, WrittenAfter, LedgerKept DEF TypeOK, StoreTypeOK
<1>4. CASE ~AppendCommitEvent /\ ~AppendTransitionEvent /\ ~AuthorizeSleep
      BY <1>4, LedgerApart, LedgerKept
<1> QED
    BY <1>1, <1>2, <1>3, <1>4

\* A sealed commit stays sealed.
LEMMA SealsStay ==
    ASSUME TypeOK, [Next]_vars
    PROVE  \A c \in Corpora : commits[c] = "sealed" => commits'[c] = "sealed"
<1>1. CASE StageCommit \/ SealCommit
  <2>1. New(job) \in Corpora
        BY <1>1, JobTypes
        DEF StageCommit, SealCommit, TypeOK, TransitionSteps, Steps, SleepSteps
  <2> QED
      BY <1>1, <2>1 DEF StageCommit, SealCommit, TypeOK, StoreTypeOK
<1>2. CASE ~StageCommit /\ ~SealCommit
      BY <1>2
      DEF Next, Operate, Continue, BeginFinalize, CloseByReplay, RecoverStart,
          RecoverClose, RecoverRestore, RecoverRollback, SleepStart,
          ReplaySleep, ResumeSleep, OpenSleep, FinalizeStep, WriteIntent,
          WriteTransitionJournal, MarkHead, MakeArchiveDir, AppendCommitEvent,
          ArchiveObservations, LinkIntoArchive, UnlinkLive, SkipAbsent,
          ArchiveRefused, AllArchived, PublishCorpus, AppendTransitionEvent,
          CommitRefused, InstallCommitMemory, InstallShadowBank, AuthorizeSleep,
          PreserveHead, SealReceipt, CloseIntent, RecoverStep, LinkBack,
          UnlinkArchived, RestoreReplaced, SkipNotArchived, RestoreRefused,
          AllRestored, AbortInflight, AbortRefused, ClearHead, SleepStep,
          StageSleep, InstallMemory, InstallBank, InstallSleepState,
          SealSleep, FinishSleep, SleepRefused, Crash, Install,
          InstallEvidence, vars, durable
<1> QED
    BY <1>1, <1>2

\* Five steps write to an archive: that of an unsealed transition.
LEMMA ArchivesStay ==
    ASSUME TypeOK, TransitionInv, [Next]_vars
    PROVE  \A k \in Keys : receipts[k] # None => archive'[k] = archive[k]
<1>1. CASE \/ ArchiveObservations \/ LinkIntoArchive
           \/ UnlinkArchived \/ RestoreReplaced
  <2>1. receipts[job] = None
        BY <1>1
        DEF ArchiveObservations, LinkIntoArchive, UnlinkArchived,
            RestoreReplaced, AtFile, TransitionInv, OneTransition, Owning,
            BeforeRetiring, Retiring, Restoring
  <2>2. \A k \in Keys \ {job} : archive'[k] = archive[k]
        BY <1>1
        DEF ArchiveObservations, LinkIntoArchive, UnlinkArchived,
            RestoreReplaced, TypeOK, StoreTypeOK
  <2> QED
      BY <2>1, <2>2
<1>2. ASSUME NEW k \in Keys, RecoverRestore(k)
      PROVE  \A j \in Keys : receipts[j] # None => archive'[j] = archive[j]
      BY <1>2 DEF RecoverRestore, Unsealed, TypeOK, StoreTypeOK
<1>3. CASE /\ ~ArchiveObservations /\ ~LinkIntoArchive /\ ~UnlinkArchived
           /\ ~RestoreReplaced /\ \A k \in Keys : ~RecoverRestore(k)
      BY <1>3
      DEF Next, Operate, Continue, BeginFinalize, CloseByReplay, RecoverStart,
          RecoverClose, RecoverRollback, SleepStart,
          ReplaySleep, ResumeSleep, OpenSleep, FinalizeStep, WriteIntent,
          WriteTransitionJournal, MarkHead, MakeArchiveDir, AppendCommitEvent,
          UnlinkLive, SkipAbsent, StageCommit, SealCommit,
          ArchiveRefused, AllArchived, PublishCorpus, AppendTransitionEvent,
          CommitRefused, InstallCommitMemory, InstallShadowBank, AuthorizeSleep,
          PreserveHead, SealReceipt, CloseIntent, RecoverStep, LinkBack,
          SkipNotArchived, RestoreRefused,
          AllRestored, AbortInflight, AbortRefused, ClearHead, SleepStep,
          StageSleep, InstallMemory, InstallBank, InstallSleepState,
          SealSleep, FinishSleep, SleepRefused, Crash, Install,
          InstallEvidence, vars, durable
<1> QED
    BY <1>1, <1>2, <1>3

\* The corpora that are live or archived.
Held == {live.observations} \union {archive[j].observations : j \in Keys}

\* A corpus that is live or archived stays so.
LEMMA CorporaStay ==
    ASSUME TypeOK, TransitionInv, [Next]_vars
    PROVE  \A c \in Corpora : c \in Held => c \in Held'
<1>1. CASE ArchiveObservations
  <2>1. job \in Keys /\ live.observations = job.prior
        /\ archive[job].observations \in {None, job.prior}
        BY <1>1
        DEF ArchiveObservations, TransitionInv, OneTransition, SnapshotWhole,
            CorpusPlaced, Owning, BeforeRetiring, Inflight
  <2>2. archive'[job].observations = job.prior
        BY <1>1, <2>1
        DEF ArchiveObservations, TypeOK, StoreTypeOK, IsStore, Labels
  <2>3. \A k \in Keys \ {job} : archive'[k] = archive[k]
        BY <1>1 DEF ArchiveObservations, TypeOK, StoreTypeOK
  <2> QED
      BY <2>1, <2>2, <2>3, ConstantsAssumption DEF Held
<1>2. ASSUME NEW k \in Keys, RecoverRestore(k)
      PROVE  \A c \in Corpora : c \in Held => c \in Held'
  <2>1. live.observations = None
        BY <1>2 DEF RecoverRestore, Decision, Classify
  <2>2. live'.observations = archive[k].observations
        BY <1>2
        DEF RecoverRestore, SetLive, TypeOK, StoreTypeOK, IsStore, Labels
  <2>3. \A j \in Keys \ {k} : archive'[j] = archive[j]
        BY <1>2 DEF RecoverRestore, TypeOK, StoreTypeOK
  <2> QED
      BY <2>1, <2>2, <2>3, ConstantsAssumption DEF Held
<1>3. CASE PublishCorpus
  <2>1. live.observations = None /\ archive' = archive
        BY <1>3 DEF PublishCorpus, TransitionInv, CorpusPlaced, Retired
  <2> QED
      BY <2>1, ConstantsAssumption DEF Held
<1>4. CASE LinkIntoArchive \/ UnlinkArchived \/ RestoreReplaced
  <2>1. File \in Labels \ {"observations"}
        BY <1>4, FileOrderIsLabels, FileOrderAt
        DEF LinkIntoArchive, UnlinkArchived, RestoreReplaced, AtFile, File
  <2>2. \A k \in Keys : archive'[k].observations = archive[k].observations
    <3>1. PICK v : archive' = [archive EXCEPT ![job][File] = v]
          BY <1>4 DEF LinkIntoArchive, UnlinkArchived, RestoreReplaced
    <3>2. \A k \in Keys \ {job} : archive'[k] = archive[k]
          BY <3>1 DEF TypeOK, StoreTypeOK
    <3>3. job \in Keys => archive'[job] = [archive[job] EXCEPT ![File] = v]
          BY <3>1 DEF TypeOK, StoreTypeOK
    <3>4. \A k \in Keys : IsStore(archive[k], Labels) /\ "observations" \in Labels
          BY DEF TypeOK, StoreTypeOK, Labels
    <3> QED
        BY <2>1, <3>2, <3>3, <3>4 DEF IsStore
  <2>3. live' = live
        BY <1>4 DEF LinkIntoArchive, UnlinkArchived, RestoreReplaced
  <2> QED
      BY <2>2, <2>3 DEF Held
<1>5. CASE /\ ~ArchiveObservations /\ ~PublishCorpus /\ ~LinkIntoArchive
           /\ ~UnlinkArchived /\ ~RestoreReplaced
           /\ \A k \in Keys : ~RecoverRestore(k)
  <2>1. live'.observations = live.observations
        BY <1>5, CorpusStays DEF Next
  <2>2. archive' = archive
        BY <1>5
        DEF Next, Operate, Continue, BeginFinalize, CloseByReplay, RecoverStart,
            RecoverClose, RecoverRollback, SleepStart,
            ReplaySleep, ResumeSleep, OpenSleep, FinalizeStep, WriteIntent,
            WriteTransitionJournal, MarkHead, MakeArchiveDir, AppendCommitEvent,
            UnlinkLive, SkipAbsent, StageCommit, SealCommit,
            ArchiveRefused, AllArchived, PublishCorpus, AppendTransitionEvent,
            CommitRefused, InstallCommitMemory, InstallShadowBank,
            AuthorizeSleep, PreserveHead, SealReceipt, CloseIntent, RecoverStep,
            LinkBack, SkipNotArchived, RestoreRefused,
            AllRestored, AbortInflight, AbortRefused, ClearHead, SleepStep,
            StageSleep, InstallMemory, InstallBank, InstallSleepState,
            SealSleep, FinishSleep, SleepRefused, Crash, Install,
            InstallEvidence, vars, durable
  <2> QED
      BY <2>1, <2>2 DEF Held
<1> QED
    BY <1>1, <1>2, <1>3, <1>4, <1>5

\* A receipt stands for a whole transition.
ReceiptInv ==
    \A k \in Keys : receipts[k] # None =>
        /\ archive[k] = receipts[k]
        /\ archive[k].observations = k.prior
        /\ \A l \in RequiredLabels : archive[k][l] # None
        /\ commits[New(k)] = "sealed"
        /\ Written(TransitionEvent(k))
        /\ New(k) \in Held

LEMMA NextReceipts ==
    ASSUME TypeOK, TransitionInv, RecordInv, PlaceInv, ReceiptInv, [Next]_vars
    PROVE  ReceiptInv'
<1>1. \A k \in Keys : New(k) \in Corpora
      BY ConstantsAssumption DEF Keys, New
<1>2. ASSUME NEW k \in Keys, receipts[k] # None
      PROVE  /\ archive'[k] = receipts[k]
             /\ archive'[k].observations = k.prior
             /\ \A l \in RequiredLabels : archive'[k][l] # None
             /\ commits'[New(k)] = "sealed"
             /\ Written(TransitionEvent(k))'
             /\ New(k) \in Held'
      BY <1>1, <1>2, EventsStay, SealsStay, ArchivesStay, CorporaStay
      DEF ReceiptInv
<1>3. CASE SealReceipt
  <2>1. /\ job \in Keys /\ receipts' = [receipts EXCEPT ![job] = archive[job]]
        /\ UNCHANGED <<live, archive, commits, ledger>> /\ pc = "f_receipt"
        BY <1>3, JobTypes
        DEF SealReceipt, TypeOK, TransitionSteps, Steps, SleepSteps
  <2>2. job \in Inflight
        BY <2>1 DEF TransitionInv, OneTransition, Owning, Published
  <2>3. /\ archive[job].observations = job.prior
        /\ \A l \in EngineLabels : archive[job][l] # None
        BY <2>1, <2>2, EngineLabelsAre
        DEF TransitionInv, CursorAt, Published, SnapshotWhole
  <2>4. archive[job].sleep_evidence_current # None
        BY <2>1 DEF PlaceInv, EvidenceArchived, Published
  <2>5. \A l \in RequiredLabels : archive[job][l] # None
        BY <2>3, <2>4 DEF RequiredLabels, EngineLabels
  <2>6. commits[New(job)] = "sealed" /\ Written(TransitionEvent(job))
        BY <2>1
        DEF RecordInv, CommitsRecorded, TransitionsRecorded, Committed
  <2>7. New(job) \in Held
        BY <2>1 DEF PlaceInv, CorpusKnown, Published, Held
  <2>8. receipts'[job] = archive[job] /\ \A k \in Keys \ {job} : receipts'[k] = receipts[k]
        BY <2>1 DEF TypeOK, StoreTypeOK
  <2>9. Held' = Held
        BY <2>1 DEF Held
  <2>10. \A e : Written(e) => Written(e)'
        BY EventsStay
  <2>11. SUFFICES ASSUME NEW k \in Keys, receipts'[k] # None
                  PROVE  /\ archive'[k] = receipts'[k]
                         /\ archive'[k].observations = k.prior
                         /\ \A l \in RequiredLabels : archive'[k][l] # None
                         /\ commits'[New(k)] = "sealed"
                         /\ Written(TransitionEvent(k))'
                         /\ New(k) \in Held'
         BY DEF ReceiptInv, TransitionEvent, New
  <2>12. CASE k = job
         BY <2>1, <2>3, <2>5, <2>6, <2>7, <2>8, <2>9, <2>10, <2>12
  <2>13. CASE k # job
         BY <1>2, <2>8, <2>11, <2>13
  <2> QED
      BY <2>12, <2>13
<1>4. CASE ~SealReceipt
  <2>1. receipts' = receipts
        BY <1>4
        DEF Next, Operate, Continue, BeginFinalize, CloseByReplay, RecoverStart,
            RecoverClose, RecoverRestore, RecoverRollback, SleepStart,
            ReplaySleep, ResumeSleep, OpenSleep, FinalizeStep, WriteIntent,
            WriteTransitionJournal, MarkHead, MakeArchiveDir, AppendCommitEvent,
            ArchiveObservations, LinkIntoArchive, UnlinkLive, SkipAbsent,
            StageCommit, SealCommit,
            ArchiveRefused, AllArchived, PublishCorpus, AppendTransitionEvent,
            CommitRefused, InstallCommitMemory, InstallShadowBank,
            AuthorizeSleep, PreserveHead, CloseIntent, RecoverStep,
            LinkBack, UnlinkArchived, RestoreReplaced, SkipNotArchived,
            RestoreRefused, AllRestored, AbortInflight, AbortRefused, ClearHead,
            SleepStep, StageSleep, InstallMemory, InstallBank,
            InstallSleepState, SealSleep, FinishSleep, SleepRefused, Crash,
            Install, InstallEvidence, vars, durable
  <2> QED
      BY <1>2, <2>1 DEF ReceiptInv, TransitionEvent, New
<1> QED
    BY <1>3, <1>4

-----------------------------------------------------------------------------
(* The banks.                                                                *)

BankLabels == {"skill_bank", "shadow_skill_bank"}

\* The corpus whose fields a live bank holds while transition k is inflight.
BankCorpus(k) == IF live.observations = New(k) THEN New(k) ELSE k.prior

\* Each bank holds fields of one corpus: an archived one of the prior corpus of
\* its transition, a live one of the corpus it is there for.
BanksPlaced ==
    /\ \A k \in Keys, l \in BankLabels :
           archive[k][l] # None => archive[k][l].corpora = {k.prior}
    /\ Inflight = {} =>
           \A l \in BankLabels : live[l] # None => live[l].corpora = {live.observations}
    /\ \A k \in Inflight, l \in BankLabels :
           live[l] # None => live[l].corpora = {BankCorpus(k)}
    /\ pc \in Retiring => \A n \in 1 .. (cursor - 1) :
           FileOrder[n] \in BankLabels => live[FileOrder[n]] = None
    /\ pc \in Retired => \A l \in BankLabels : live[l] = None

\* Where the corpus stays and no bank is installed, the banks stay placed.
LEMMA BanksKept ==
    ASSUME BanksPlaced,
           \A l \in BankLabels : live'[l] = live[l],
           live'.observations = live.observations, Inflight' = Inflight,
           \A k \in Keys, l \in BankLabels : archive'[k][l] \in {archive[k][l], None},
           pc' \notin Retiring, pc' \in Retired => pc \in Retired
    PROVE  BanksPlaced'
BY DEF BanksPlaced, BankCorpus, New

\* No step but these touches a bank, the corpus or the inflight directory.
LEMMA BanksApart ==
    ASSUME TypeOK, [Next]_vars,
           ~WriteIntent, ~ArchiveObservations, ~LinkIntoArchive, ~UnlinkLive,
           ~SkipAbsent, ~AllArchived, ~PublishCorpus, ~InstallShadowBank, ~CloseIntent,
           ~LinkBack, ~UnlinkArchived, ~RestoreReplaced, ~AbortInflight,
           ~InstallBank,
           \A i \in Inputs : ~BeginFinalize(i),
           \A k \in Keys : ~CloseByReplay(k) /\ ~RecoverClose(k) /\ ~RecoverRestore(k)
    PROVE  /\ \A l \in BankLabels : live'[l] = live[l]
           /\ live'.observations = live.observations
           /\ UNCHANGED <<inflight, archive>>
           /\ pc' \notin Retiring \/ UNCHANGED <<pc, cursor>>
           /\ pc' \in Retired => pc \in Retired
<1> USE DEF BankLabels, Retiring, Retired
<1>1. CASE FinalizeStep
      BY <1>1
      DEF FinalizeStep, WriteTransitionJournal, MarkHead, MakeArchiveDir,
          ArchiveRefused, StageCommit, CommitRefused, AppendCommitEvent,
          InstallCommitMemory, SealCommit, PreserveHead, AppendTransitionEvent,
          SealReceipt, JournalPhase, AfterJournal, AtFile, Goto, Release,
          SetLive, durable, TypeOK, StoreTypeOK, IsStore, Labels
<1>2. CASE RecoverStep \/ \E k \in Keys : RecoverRollback(k)
      BY <1>2
      DEF RecoverStep, SkipNotArchived, RestoreRefused, AllRestored,
          AbortRefused, ClearHead, RecoverRollback, Unsealed, Recovers, Idle,
          Aborting, AtFile, Goto, Release, durable
<1>3. CASE SleepStart \/ SleepStep
      BY <1>3
      DEF SleepStart, ReplaySleep, ResumeSleep, OpenSleep, MayPlanSleep, Idle,
          SleepStep, StageSleep, AuthorizeSleep, InstallMemory,
          InstallSleepState, SealSleep, FinishSleep, SleepRefused, Plan, Goto,
          Release, SetLive, durable, TypeOK, StoreTypeOK, IsStore, Labels
<1>4. CASE Crash \/ UNCHANGED vars \/ \E b \in Bundles : Install(b)
      BY <1>4
      DEF Crash, Idle, Release, vars, durable, control, Install, InstallEvidence,
          SetLive, TypeOK, StoreTypeOK, IsStore, Labels
<1> QED
    BY <1>1, <1>2, <1>3, <1>4 DEF Next, Operate, Continue, RecoverStart

LEMMA NextBanks ==
    ASSUME TypeOK, TransitionInv, PlaceInv, BanksPlaced, [Next]_vars,
           pc \in SleepSteps /\ plan.state.bank # None =>
               plan.state.bank.corpora = {live.observations},
           pc = "s_bank" => plan.promote
    PROVE  BanksPlaced'
<1>1. \A l \in BankLabels : l \in Labels /\ l # "observations"
      BY DEF BankLabels, Labels
<1>2. \A k \in Keys : New(k) # None
      BY ConstantsAssumption DEF New, Keys
<1>3. CASE WriteIntent
  <2>1. /\ UNCHANGED <<live, archive>> /\ pc' = "f_journal_intent"
        /\ job \in Inflight /\ inflight' = [inflight EXCEPT ![job] = "intent"]
        BY <1>3 DEF WriteIntent, Goto, TransitionInv, OneTransition, Owning, BeforeRetiring
  <2>2. Inflight' = Inflight
        BY <2>1 DEF Inflight, TypeOK, StoreTypeOK
  <2> QED
      BY <2>1, <2>2, BanksKept DEF Retiring, Retired
<1>4. CASE ArchiveObservations
  <2>1. /\ job \in Inflight /\ live.observations = job.prior
        /\ New(job) # job.prior /\ \A k \in Inflight : k = job
        BY <1>4
        DEF ArchiveObservations, TransitionInv, OneTransition, CorpusPlaced,
            PlaceInv, CorpusKnown, Owning, BeforeRetiring
  <2>2. /\ live'.observations = None
        /\ \A l \in BankLabels : live'[l] = live[l]
        BY <1>1, <1>4
        DEF ArchiveObservations, SetLive, TypeOK, StoreTypeOK, IsStore, Labels
  <2>3. \A k \in Keys, l \in BankLabels : archive'[k][l] = archive[k][l]
    <3>1. /\ archive'[job] = [archive[job] EXCEPT !.observations = live.observations]
          /\ \A k \in Keys \ {job} : archive'[k] = archive[k]
          BY <1>4, <2>1 DEF ArchiveObservations, Inflight, TypeOK, StoreTypeOK
    <3>2. IsStore(archive[job], Labels)
          BY <2>1 DEF Inflight, TypeOK, StoreTypeOK
    <3> QED
        BY <1>1, <3>1, <3>2 DEF IsStore
  <2>4. Inflight' = Inflight /\ pc' = "f_archive" /\ cursor' = 1
        BY <1>4 DEF ArchiveObservations, Inflight, Goto, TransitionInv, CursorAt,
                    Retiring, Restoring
  <2> QED
      BY <1>2, <2>1, <2>2, <2>3, <2>4
      DEF BanksPlaced, BankCorpus, New, Retired, Inflight
<1>5. CASE LinkIntoArchive
  <2>1. job \in Inflight /\ job \in Keys /\ File \in Labels /\ live.observations = None
        BY <1>5, FileTypes
        DEF LinkIntoArchive, AtFile, TransitionInv, OneTransition, CorpusPlaced,
            Owning, Retiring, Inflight
  <2>2. /\ archive'[job][File] = live[File]
        /\ \A l \in Labels \ {File} : archive'[job][l] = archive[job][l]
        /\ \A k \in Keys \ {job} : archive'[k] = archive[k]
        BY <1>5, <2>1 DEF LinkIntoArchive, TypeOK, StoreTypeOK, IsStore
  <2>3. File \in BankLabels /\ live[File] # None => live[File].corpora = {job.prior}
        BY <1>2, <2>1 DEF BanksPlaced, BankCorpus
  <2>4. \A k \in Keys, l \in BankLabels :
            archive'[k][l] # None => archive'[k][l].corpora = {k.prior}
        BY <1>1, <2>1, <2>2, <2>3 DEF BanksPlaced
  <2>5. UNCHANGED <<live, inflight, cursor>> /\ pc = "f_archive" /\ pc' = "f_unlink"
        BY <1>5 DEF LinkIntoArchive, AtFile, Goto
  <2> QED
      BY <2>4, <2>5 DEF BanksPlaced, BankCorpus, New, Inflight, Retiring, Retired
<1>6. CASE UnlinkLive
  <2>1. /\ File \in Labels \ {"observations"} /\ cursor \in 1 .. 5
        /\ pc = "f_unlink" /\ pc' = "f_archive" /\ cursor' = cursor + 1
        /\ UNCHANGED <<archive, inflight>>
        BY <1>6, FileOrderIsLabels, FileOrderAt DEF UnlinkLive, AtFile, File
  <2>2. live'[File] = None /\ \A l \in Labels \ {File} : live'[l] = live[l]
        BY <1>6, <2>1 DEF UnlinkLive, SetLive, TypeOK, StoreTypeOK, IsStore
  <2>3. live'.observations = live.observations
        BY <2>1, <2>2 DEF Labels
  <2>4. \A l \in BankLabels : live'[l] \in {live[l], None}
        BY <1>1, <2>2
  <2>5. \A n \in 1 .. (cursor' - 1) : n \in 1 .. (cursor - 1) \/ FileOrder[n] = File
        BY <2>1 DEF File
  <2>6. \A n \in 1 .. (cursor' - 1) :
            FileOrder[n] \in BankLabels => live'[FileOrder[n]] = None
        BY <2>1, <2>2, <2>4, <2>5 DEF BanksPlaced, Retiring
  <2> QED
      BY <2>1, <2>3, <2>4, <2>6
      DEF BanksPlaced, BankCorpus, New, Inflight, Retired
<1>7. CASE SkipAbsent
  <2>1. /\ cursor \in 1 .. 5 /\ pc = "f_archive" /\ cursor' = cursor + 1
        /\ UNCHANGED <<live, archive, inflight, pc>> /\ live[File] = None
        BY <1>7, FileOrderIsLabels DEF SkipAbsent, AtFile, durable
  <2>2. \A n \in 1 .. (cursor' - 1) : n \in 1 .. (cursor - 1) \/ FileOrder[n] = File
        BY <2>1 DEF File
  <2> QED
      BY <2>1, <2>2 DEF BanksPlaced, BankCorpus, New, Inflight, Retiring, Retired
<1>8. CASE AllArchived
  <2>1. /\ cursor = 6 /\ pc = "f_archive" /\ pc' = "f_journal_archived"
        /\ UNCHANGED <<live, archive, inflight>>
        BY <1>8, FileOrderIsLabels DEF AllArchived, durable
  <2>2. \A l \in BankLabels : live[l] = None
        BY <1>1, <2>1, FileOrderAt DEF BanksPlaced, Retiring
  <2> QED
      BY <2>1, <2>2 DEF BanksPlaced, BankCorpus, New, Inflight, Retiring
<1>9. CASE PublishCorpus
  <2>1. \A l \in BankLabels : live[l] = None
        BY <1>9 DEF PublishCorpus, BanksPlaced, Retired
  <2>2. \A l \in BankLabels : live'[l] = live[l]
        BY <1>1, <1>9 DEF PublishCorpus, SetLive, TypeOK, StoreTypeOK, IsStore
  <2>3. UNCHANGED <<archive, inflight>> /\ pc' = "f_journal_published"
        BY <1>9 DEF PublishCorpus, Goto
  <2> QED
      BY <2>1, <2>2, <2>3
      DEF BanksPlaced, BankCorpus, New, Inflight, Retiring, Retired
<1>10. CASE InstallShadowBank
  <2>1. /\ job \in Inflight /\ \A k \in Inflight : k = job
        /\ live.observations = New(job)
        BY <1>10
        DEF InstallShadowBank, TransitionInv, OneTransition, PlaceInv,
            CorpusKnown, Owning, Published
  <2>2. /\ live'.shadow_skill_bank = CommitShadow(New(job))
        /\ live'.skill_bank = live.skill_bank
        /\ live'.observations = live.observations
        BY <1>10
        DEF InstallShadowBank, SetLive, TypeOK, StoreTypeOK, IsStore, Labels
  <2>3. UNCHANGED <<archive, inflight>> /\ pc' = "f_commit_receipt"
        BY <1>10 DEF InstallShadowBank, Goto
  <2>4. CommitShadow(New(job)).corpora = {New(job)}
        BY DEF CommitShadow
  <2>5. \A l \in BankLabels : live'[l] # None => live'[l].corpora = {New(job)}
        BY <2>1, <2>2, <2>4 DEF BanksPlaced, BankCorpus, BankLabels
  <2> QED
      BY <2>1, <2>2, <2>3, <2>5
      DEF BanksPlaced, BankCorpus, New, Inflight, Retiring, Retired
<1>11. CASE CloseIntent \/ \E k \in Keys : CloseByReplay(k) \/ RecoverClose(k)
  <2>1. PICK k \in Keys :
            /\ k \in Inflight /\ \A j \in Inflight : j = k
            /\ live.observations = New(k)
            /\ inflight' = [inflight EXCEPT ![k] = "none"]
            /\ UNCHANGED <<live, archive>>
            /\ pc' \in {"f_journal_receipt", "idle", "r_head_clear"}
    <3>1. CASE CloseIntent
      <4>1. job \in Inflight /\ \A j \in Inflight : j = job
            BY <3>1 DEF CloseIntent, TransitionInv, OneTransition, Owning, Published
      <4>2. live.observations = New(job)
            BY <3>1 DEF CloseIntent, PlaceInv, CorpusKnown, Published
      <4> QED
          BY <3>1, <4>1, <4>2 DEF CloseIntent, Goto, Inflight
    <3>2. ASSUME NEW k \in Keys, CloseByReplay(k) \/ RecoverClose(k)
          PROVE  /\ k \in Inflight /\ \A j \in Inflight : j = k
                 /\ live.observations = New(k)
                 /\ inflight' = [inflight EXCEPT ![k] = "none"]
                 /\ UNCHANGED <<live, archive>>
                 /\ pc' \in {"f_journal_receipt", "idle", "r_head_clear"}
          BY <3>2 DEF CloseByReplay, RecoverClose, Recovers, ReceiptVerified, Idle
    <3> QED
        BY <1>11, <3>1, <3>2
  <2>2. Inflight' = {}
        BY <2>1 DEF Inflight, TypeOK, StoreTypeOK
  <2> QED
      BY <2>1, <2>2 DEF BanksPlaced, BankCorpus, Retiring, Retired
<1>12. CASE LinkBack
  <2>1. /\ job \in Inflight /\ job \in Keys /\ \A k \in Inflight : k = job
        /\ live.observations = job.prior /\ New(job) # job.prior
        /\ File \in Labels \ {"observations"}
        BY <1>12, FileOrderIsLabels, FileOrderAt
        DEF LinkBack, AtFile, File, TransitionInv, OneTransition, PlaceInv,
            CorpusKnown, Owning, Restoring, Inflight
  <2>2. /\ live'[File] = archive[job][File]
        /\ \A l \in Labels \ {File} : live'[l] = live[l]
        BY <1>12, <2>1 DEF LinkBack, SetLive, TypeOK, StoreTypeOK, IsStore
  <2>3. UNCHANGED <<archive, inflight>> /\ pc' = "r_unlink"
        BY <1>12 DEF LinkBack, Goto
  <2>4. live'.observations = live.observations
        BY <2>1, <2>2 DEF Labels
  <2>5. \A l \in BankLabels : live'[l] # None => live'[l].corpora = {job.prior}
        BY <1>1, <2>1, <2>2 DEF BanksPlaced, BankCorpus
  <2> QED
      BY <2>1, <2>3, <2>4, <2>5
      DEF BanksPlaced, BankCorpus, New, Inflight, Retiring, Retired
<1>13. CASE UnlinkArchived \/ RestoreReplaced
  <2>1. /\ archive' = [archive EXCEPT ![job][File] = None]
        /\ UNCHANGED <<live, inflight>> /\ pc' \in {"r_restore", "idle"}
        BY <1>13 DEF UnlinkArchived, RestoreReplaced, Release
  <2>2. \A k \in Keys, l \in BankLabels : archive'[k][l] \in {archive[k][l], None}
        BY <1>1, <2>1 DEF TypeOK, StoreTypeOK, IsStore
  <2> QED
      BY <2>1, <2>2, BanksKept DEF Inflight, Retiring, Retired
<1>14. CASE AbortInflight
  <2>1. /\ job \in Inflight /\ job \in Keys /\ \A k \in Inflight : k = job
        /\ live.observations = job.prior /\ New(job) # job.prior
        BY <1>14
        DEF AbortInflight, Aborting, TransitionInv, OneTransition, PlaceInv,
            CorpusKnown, Owning, Aborts, Inflight
  <2>2. Inflight' = {} /\ UNCHANGED <<live, archive>> /\ pc' = "r_head_clear"
        BY <1>14, <2>1 DEF AbortInflight, Goto, Inflight, TypeOK, StoreTypeOK
  <2> QED
      BY <2>1, <2>2 DEF BanksPlaced, BankCorpus, Retiring, Retired
<1>15. CASE InstallBank
  <2>1. /\ Inflight = {} /\ Inflight' = Inflight
        /\ plan.state.bank # None => plan.state.bank.corpora = {live.observations}
        /\ archive' = archive /\ pc' = "s_state"
        BY <1>15 DEF InstallBank, TransitionInv, OneTransition, Inflight, Goto, SleepSteps
  <2>2. /\ live'.skill_bank = plan.state.bank
        /\ live'.shadow_skill_bank = live.shadow_skill_bank
        /\ live'.observations = live.observations
        BY <1>15
        DEF InstallBank, SetLive, TypeOK, StoreTypeOK, IsStore, Labels
  <2> QED
      BY <2>1, <2>2 DEF BanksPlaced, BankCorpus, BankLabels, Retiring, Retired
<1>16. ASSUME NEW i \in Inputs, BeginFinalize(i)
       PROVE  BanksPlaced'
  <2> DEFINE k == [input |-> i, prior |-> live.observations]
  <2>1. k \in Keys
        BY <1>16, LiveTypes DEF BeginFinalize, Keys, Option, TypeOK
  <2>2. Inflight = {} /\ Inflight' = {k} /\ New(k) # k.prior
        BY <1>16, <2>1
        DEF BeginFinalize, NoIncompleteTransition, Inflight, New, TypeOK, StoreTypeOK
  <2>3. UNCHANGED <<live, archive>> /\ pc' = "f_intent"
        BY <1>16 DEF BeginFinalize
  <2> QED
      BY <2>2, <2>3 DEF BanksPlaced, BankCorpus, New, Retiring, Retired
<1>17. ASSUME NEW k \in Keys, RecoverRestore(k)
       PROVE  BanksPlaced'
  <2>1. /\ Inflight = {k} /\ Inflight' = Inflight /\ live.observations = None
        /\ archive[k].observations = k.prior /\ pc' = "r_restore"
        /\ New(k) # k.prior
        BY <1>17
        DEF RecoverRestore, Unsealed, Recovers, Decision, Classify,
            TransitionInv, SnapshotWhole, PlaceInv, CorpusKnown, Inflight
  <2>2. /\ live'.observations = k.prior
        /\ \A l \in BankLabels : live'[l] = live[l]
        BY <1>1, <1>17, <2>1
        DEF RecoverRestore, SetLive, TypeOK, StoreTypeOK, IsStore, Labels
  <2>3. \A j \in Keys, l \in BankLabels : archive'[j][l] = archive[j][l]
        BY <1>1, <1>17 DEF RecoverRestore, TypeOK, StoreTypeOK, IsStore
  <2> QED
      BY <1>2, <2>1, <2>2, <2>3
      DEF BanksPlaced, BankCorpus, New, Retiring, Retired
<1>18. CASE /\ ~WriteIntent /\ ~ArchiveObservations /\ ~LinkIntoArchive
            /\ ~UnlinkLive /\ ~SkipAbsent /\ ~AllArchived /\ ~PublishCorpus
            /\ ~InstallShadowBank /\ ~CloseIntent /\ ~LinkBack
            /\ ~UnlinkArchived /\ ~RestoreReplaced /\ ~AbortInflight
            /\ ~InstallBank
            /\ \A i \in Inputs : ~BeginFinalize(i)
            /\ \A k \in Keys : /\ ~CloseByReplay(k) /\ ~RecoverClose(k)
                               /\ ~RecoverRestore(k)
  <2>1. /\ \A l \in BankLabels : live'[l] = live[l]
        /\ live'.observations = live.observations
        /\ UNCHANGED <<inflight, archive>>
        /\ pc' \notin Retiring \/ UNCHANGED <<pc, cursor>>
        /\ pc' \in Retired => pc \in Retired
        BY <1>18, BanksApart
  <2>2. CASE pc' \notin Retiring
        BY <2>1, <2>2, BanksKept DEF Inflight
  <2>3. CASE UNCHANGED <<pc, cursor>>
    <3>1. \A n \in 1 .. (cursor - 1) :
              FileOrder[n] \in BankLabels => live'[FileOrder[n]] = live[FileOrder[n]]
          BY <2>1
    <3> QED
        BY <2>1, <2>3, <3>1 DEF BanksPlaced, BankCorpus, New, Inflight
  <2> QED
      BY <2>1, <2>2, <2>3
<1> QED
    BY <1>3, <1>4, <1>5, <1>6, <1>7, <1>8, <1>9, <1>10, <1>11, <1>12, <1>13,
       <1>14, <1>15, <1>16, <1>17, <1>18

\* A certified state was certified on the evidence of its own corpus.
Certifies(s) ==
    s.status = "certified" =>
        /\ s.corpus \in Promotable
        /\ s.evidence # None
        /\ Attests[s.evidence] = s.corpus

\* A sleep plans, and records, only what its evidence certifies, and a bank of
\* the corpus that sleeps.
PlansSound ==
    /\ \A s \in SleepStates : Written(SleepEvent(s)) => Certifies(s)
    /\ pc \in SleepSteps =>
         /\ Certifies(plan.state)
         /\ plan.promote => plan.state.status = "certified"
         /\ plan.state.bank # None => plan.state.bank.corpora = {live.observations}
    /\ pc = "s_bank" => plan.promote

\* Every bank that is active, or was archived as active, was authorized.
Active == {live.skill_bank} \union {archive[k].skill_bank : k \in Keys}
BanksAuthorized ==
    \A b \in Active : b # None =>
        \E s \in SleepStates : /\ Written(SleepEvent(s))
                               /\ s.bank = b
                               /\ s.status = "certified"

BankInv == BanksPlaced /\ PlansSound /\ BanksAuthorized

\* What a sleep plans at rest is sound.
LEMMA PlannedSound ==
    ASSUME TypeOK, BankInv, MayPlanSleep
    PROVE  /\ Certifies(PlannedState)
           /\ ShouldPromote => PlannedState.status = "certified"
           /\ PlannedState.bank # None =>
                  PlannedState.bank.corpora = {live.observations}
<1>1. Certifies(FreshState) /\ (ShouldPromote => FreshState.status = "certified")
      BY DEF FreshState, Certifies, Certified, ShouldPromote
<1>2. live.skill_bank # None => live.skill_bank.corpora = {live.observations}
      BY DEF BankInv, BanksPlaced, BankLabels, MayPlanSleep, NoIncompleteTransition
<1>3. FreshState.bank # None => FreshState.bank.corpora = {live.observations}
      BY <1>2 DEF FreshState, NextBank
<1>4. SleepKey(PlannedState) = SleepKey(FreshState)
      BY DEF PlannedState
<1>5. /\ PlannedState.corpus = FreshState.corpus
      /\ PlannedState.evidence = FreshState.evidence
      /\ PlannedState.status = FreshState.status
      /\ PlannedState.bank = FreshState.bank
      BY <1>4 DEF SleepKey
<1> QED
    BY <1>1, <1>3, <1>5 DEF Certifies

\* An event of a sleep is written by that sleep alone.
LEMMA SleepEventsFrom ==
    ASSUME TypeOK, [Next]_vars, NEW s \in SleepStates, Written(SleepEvent(s))'
    PROVE  Written(SleepEvent(s)) \/ (AuthorizeSleep /\ s = plan.state)
<1>1. CASE AppendCommitEvent
  <2>1. CommitEvent(New(job)) \in Events /\ AppendEvent(CommitEvent(New(job)))
        BY <1>1, JobTypes, EventParts
        DEF AppendCommitEvent, TypeOK, TransitionSteps, Steps, SleepSteps
  <2>2. SleepEvent(s) # CommitEvent(New(job))
        BY DEF SleepEvent, CommitEvent
  <2> QED
      BY <2>1, <2>2, WrittenAfter DEF TypeOK, StoreTypeOK
<1>2. CASE AppendTransitionEvent
  <2>1. TransitionEvent(job) \in Events /\ AppendEvent(TransitionEvent(job))
        BY <1>2, JobTypes, EventParts
        DEF AppendTransitionEvent, TypeOK, TransitionSteps, Steps, SleepSteps
  <2>2. SleepEvent(s) # TransitionEvent(job)
        BY DEF SleepEvent, TransitionEvent
  <2> QED
      BY <2>1, <2>2, WrittenAfter DEF TypeOK, StoreTypeOK
<1>3. CASE AuthorizeSleep
  <2>1. plan.state \in SleepStates
        BY <1>3, PlanTypes DEF AuthorizeSleep, TypeOK, SleepSteps
  <2>2. AppendEvent(SleepEvent(plan.state)) \/ UNCHANGED ledger
        BY <1>3 DEF AuthorizeSleep
  <2>3. SleepEvent(s) = SleepEvent(plan.state) => s = plan.state
        BY DEF SleepEvent
  <2> QED
      BY <1>3, <2>1, <2>2, <2>3, WrittenAfter, LedgerKept, EventParts
      DEF TypeOK, StoreTypeOK
<1>4. CASE ~AppendCommitEvent /\ ~AppendTransitionEvent /\ ~AuthorizeSleep
      BY <1>4, LedgerApart, LedgerKept
<1> QED
    BY <1>1, <1>2, <1>3, <1>4

LEMMA NextPlans ==
    ASSUME TypeOK, BankInv, [Next]_vars
    PROVE  PlansSound'
<1>1. ASSUME NEW s \in SleepStates, Written(SleepEvent(s))'
      PROVE  Certifies(s)
  <2>1. CASE AuthorizeSleep /\ s = plan.state
        BY <2>1 DEF AuthorizeSleep, BankInv, PlansSound, SleepSteps
  <2> QED
      BY <1>1, <2>1, SleepEventsFrom DEF BankInv, PlansSound
<1>2. CASE SleepStart
  <2>1. MayPlanSleep /\ live' = live
        BY <1>2
        DEF SleepStart, ReplaySleep, ResumeSleep, OpenSleep, durable
  <2>2. plan' = [state |-> PlannedState, promote |-> ShouldPromote] /\ pc' # "s_bank"
        BY <1>2 DEF SleepStart, ReplaySleep, ResumeSleep, OpenSleep, Plan
  <2> QED
      BY <1>1, <2>1, <2>2, PlannedSound DEF PlansSound, Certifies
<1>3. CASE SleepStep
  <2>1. pc \in SleepSteps /\ live'.observations = live.observations
        BY <1>3
        DEF SleepStep, StageSleep, AuthorizeSleep, InstallMemory, InstallBank,
            InstallSleepState, SealSleep, FinishSleep, SleepRefused, SetLive,
            durable, SleepSteps, TypeOK, StoreTypeOK, IsStore, Labels
  <2>2. pc' = "idle" \/ (plan' = plan /\ (pc' = "s_bank" => plan.promote))
        BY <1>3
        DEF SleepStep, StageSleep, AuthorizeSleep, InstallMemory, InstallBank,
            InstallSleepState, SealSleep, FinishSleep, SleepRefused, Goto, Release
  <2>3. "idle" \notin SleepSteps
        BY DEF SleepSteps
  <2> QED
      BY <1>1, <2>1, <2>2, <2>3 DEF BankInv, PlansSound, Certifies
<1>4. CASE UNCHANGED vars \/ \E b \in Bundles : Install(b)
  <2>1. live'.observations = live.observations /\ UNCHANGED <<pc, plan>>
        BY <1>4
        DEF vars, durable, control, Install, InstallEvidence, SetLive, TypeOK,
            StoreTypeOK, IsStore, Labels
  <2> QED
      BY <1>1, <2>1 DEF BankInv, PlansSound, Certifies
<1>5. CASE FinalizeStep \/ RecoverStep \/ Crash
           \/ (\E i \in Inputs : BeginFinalize(i))
           \/ (\E k \in Keys : CloseByReplay(k) \/ RecoverStart(k))
  <2>1. pc' \notin SleepSteps
    <3>1. CASE FinalizeStep
          BY <3>1
          DEF FinalizeStep, WriteIntent, WriteTransitionJournal, MarkHead,
              MakeArchiveDir, ArchiveObservations, LinkIntoArchive, UnlinkLive,
              SkipAbsent, ArchiveRefused, AllArchived, PublishCorpus,
              StageCommit, CommitRefused, AppendCommitEvent,
              InstallCommitMemory, InstallShadowBank, SealCommit, PreserveHead,
              AppendTransitionEvent, SealReceipt, CloseIntent, JournalPhase,
              AfterJournal, AtFile, Goto, Release, SleepSteps
    <3>2. CASE RecoverStep \/ Crash
          BY <3>2
          DEF RecoverStep, LinkBack, UnlinkArchived, RestoreReplaced,
              SkipNotArchived, RestoreRefused, AllRestored, AbortInflight,
              AbortRefused, ClearHead, Crash, AtFile, Goto, Release, SleepSteps
    <3>3. CASE (\E i \in Inputs : BeginFinalize(i))
               \/ (\E k \in Keys : CloseByReplay(k) \/ RecoverStart(k))
          BY <3>3
          DEF BeginFinalize, CloseByReplay, RecoverStart, RecoverClose,
              RecoverRestore, RecoverRollback, Idle, SleepSteps
    <3> QED
        BY <1>5, <3>1, <3>2, <3>3
  <2>2. "s_bank" \in SleepSteps
        BY DEF SleepSteps
  <2> QED
      BY <1>1, <2>1, <2>2 DEF PlansSound, Certifies
<1> QED
    BY <1>2, <1>3, <1>4, <1>5 DEF Next, Operate, Continue

\* A bank becomes active, or is archived, only by a sleep that promotes it.
LEMMA NextAuthorized ==
    ASSUME TypeOK, RecordInv, BankInv, [Next]_vars
    PROVE  BanksAuthorized'
<1>1. ASSUME NEW b \in Active', b # None, b \notin Active
      PROVE  InstallBank /\ b = plan.state.bank
  <2>1. CASE InstallBank
    <3>1. live'.skill_bank = plan.state.bank /\ archive' = archive
          BY <2>1 DEF InstallBank, SetLive, TypeOK, StoreTypeOK, IsStore, Labels
    <3> QED
        BY <1>1, <2>1, <3>1 DEF Active
  <2>2. CASE LinkBack
    <3>1. job \in Keys /\ File \in Labels /\ archive' = archive
          BY <2>2, JobTypes, FileTypes
          DEF LinkBack, AtFile, TypeOK, TransitionSteps, Steps, SleepSteps
    <3>2. live'.skill_bank \in {live.skill_bank, archive[job].skill_bank}
          BY <2>2, <3>1
          DEF LinkBack, SetLive, TypeOK, StoreTypeOK, IsStore, Labels
    <3> QED
        BY <1>1, <3>1, <3>2 DEF Active
  <2>3. CASE LinkIntoArchive
    <3>1. job \in Keys /\ File \in Labels /\ live' = live
          BY <2>3, JobTypes, FileTypes
          DEF LinkIntoArchive, AtFile, TypeOK, TransitionSteps, Steps, SleepSteps
    <3>2. /\ archive'[job] = [archive[job] EXCEPT ![File] = live[File]]
          /\ \A k \in Keys \ {job} : archive'[k] = archive[k]
          BY <2>3, <3>1 DEF LinkIntoArchive, TypeOK, StoreTypeOK
    <3>3. archive'[job].skill_bank \in {live.skill_bank, archive[job].skill_bank}
          BY <3>1, <3>2 DEF TypeOK, StoreTypeOK, IsStore, Labels
    <3> QED
        BY <1>1, <3>1, <3>2, <3>3 DEF Active
  <2>4. CASE ~InstallBank /\ ~LinkBack /\ ~LinkIntoArchive
    <3>1. CASE PublishCorpus \/ UnlinkLive \/ InstallShadowBank
      <4>1. /\ live'.skill_bank \in {live.skill_bank, None} /\ archive' = archive
            BY <3>1, FileTypes
            DEF PublishCorpus, UnlinkLive, InstallShadowBank, SetLive, TypeOK,
                StoreTypeOK, IsStore, Labels
      <4> QED
          BY <1>1, <4>1 DEF Active
    <3>2. CASE ArchiveObservations \/ UnlinkArchived \/ RestoreReplaced
      <4>1. /\ live'.skill_bank = live.skill_bank
            /\ \E l \in Labels : \E v \in {None, live.observations} :
                   /\ archive' = [archive EXCEPT ![job][l] = v]
                   /\ l = "skill_bank" => v = None
            BY <3>2, FileTypes
            DEF ArchiveObservations, UnlinkArchived, RestoreReplaced, SetLive,
                TypeOK, StoreTypeOK, IsStore, Labels
      <4>2. \A k \in Keys : archive'[k].skill_bank \in {archive[k].skill_bank, None}
        <5>1. PICK l \in Labels, v \in {None, live.observations} :
                  /\ archive' = [archive EXCEPT ![job][l] = v]
                  /\ l = "skill_bank" => v = None
              BY <4>1
        <5>2. \A k \in Keys \ {job} : archive'[k] = archive[k]
              BY <5>1 DEF TypeOK, StoreTypeOK
        <5>3. job \in Keys => archive'[job] = [archive[job] EXCEPT ![l] = v]
              BY <5>1 DEF TypeOK, StoreTypeOK
        <5>4. job \in Keys => archive'[job].skill_bank \in {archive[job].skill_bank, None}
              BY <5>1, <5>3 DEF TypeOK, StoreTypeOK, IsStore, Labels
        <5> QED
            BY <5>2, <5>4
      <4> QED
          BY <1>1, <4>1, <4>2 DEF Active
    <3>3. ASSUME NEW k \in Keys, RecoverRestore(k)
          PROVE  FALSE
      <4>1. /\ live'.skill_bank = live.skill_bank
            /\ \A j \in Keys : archive'[j].skill_bank = archive[j].skill_bank
            BY <3>3
            DEF RecoverRestore, SetLive, TypeOK, StoreTypeOK, IsStore, Labels
      <4> QED
          BY <1>1, <4>1 DEF Active
    <3>4. CASE \/ WriteIntent \/ SkipAbsent \/ AllArchived \/ CloseIntent
               \/ AbortInflight \/ \E i \in Inputs : BeginFinalize(i)
               \/ \E k \in Keys : CloseByReplay(k) \/ RecoverClose(k)
      <4>1. UNCHANGED <<live, archive>>
            BY <3>4
            DEF WriteIntent, SkipAbsent, AllArchived, CloseIntent,
                AbortInflight, BeginFinalize, CloseByReplay, RecoverClose, durable
      <4> QED
          BY <1>1, <4>1 DEF Active
    <3>5. CASE /\ ~WriteIntent /\ ~ArchiveObservations /\ ~UnlinkLive
               /\ ~SkipAbsent /\ ~AllArchived /\ ~PublishCorpus
               /\ ~InstallShadowBank /\ ~CloseIntent
               /\ ~UnlinkArchived /\ ~RestoreReplaced /\ ~AbortInflight
               /\ \A i \in Inputs : ~BeginFinalize(i)
               /\ \A k \in Keys : /\ ~CloseByReplay(k) /\ ~RecoverClose(k)
                                  /\ ~RecoverRestore(k)
      <4>1. live'.skill_bank = live.skill_bank /\ archive' = archive
            BY <2>4, <3>5, BanksApart DEF BankLabels
      <4> QED
          BY <1>1, <4>1 DEF Active
    <3> QED
        BY <3>1, <3>2, <3>3, <3>4, <3>5
  <2> QED
      BY <2>1, <2>2, <2>3, <2>4
<1>2. CASE InstallBank
  <2>1. /\ pc = "s_bank" /\ plan.state \in SleepStates
        BY <1>2, PlanTypes DEF InstallBank, TypeOK, SleepSteps
  <2>2. plan.state.status = "certified"
        BY <2>1 DEF BankInv, PlansSound, SleepSteps
  <2>3. Written(SleepEvent(plan.state))
        BY <2>1 DEF RecordInv, SleepsRecorded
  <2> QED
      BY <1>1, <2>1, <2>2, <2>3, EventsStay
      DEF BankInv, BanksAuthorized, SleepEvent
<1>3. CASE ~InstallBank
      BY <1>1, <1>3, EventsStay DEF BankInv, BanksAuthorized, SleepEvent
<1> QED
    BY <1>2, <1>3

-----------------------------------------------------------------------------
(* The invariants together, and what follows from them.                      *)

\* Where the corpora, the evidence and the banks are, what the journal says of
\* them, and what the receipts stand for.
SealInv == PlaceInv /\ JournalInv /\ ReceiptInv /\ BankInv

LEMMA InitSeal == Init => SealInv
<1> SUFFICES ASSUME Init PROVE SealInv
    OBVIOUS
<1>1. /\ Inflight = {} /\ pc = "idle" /\ DOMAIN ledger = {}
      /\ \A k \in Keys : /\ journal[k] = None /\ receipts[k] = None
                         /\ \A l \in Labels : archive[k][l] = None
      BY DEF Init, StoreInit, EmptyStore, Inflight
<1>2. \A l \in BankLabels : l \in Labels /\ live[l] = None
      BY DEF Init, StoreInit, EmptyStore, BankLabels, Labels
<1>3. PlaceInv
      BY <1>1
      DEF PlaceInv, CorpusKnown, EvidenceArchived, Published, Restoring,
          Aborts, Retired
<1>4. None \notin Late
      BY NoneIsNoRecord DEF Late, Phases
<1>5. JournalInv
      BY <1>1, <1>4
      DEF JournalInv, JournalBehind, JournalNeverAhead, BeforeRetiring,
          Retiring, Retired, Late
<1>6. ReceiptInv
      BY <1>1 DEF ReceiptInv
<1>7. \A k \in Keys, l \in BankLabels : archive[k][l] = None
      BY <1>1, <1>2
<1>8. BanksPlaced
      BY <1>1, <1>2, <1>7 DEF BanksPlaced, Retiring, Retired
<1>9. PlansSound
      BY <1>1 DEF PlansSound, SleepSteps, Written
<1>10. Active \subseteq {None}
      BY <1>2, <1>7 DEF Active, BankLabels
<1>11. BanksAuthorized
      BY <1>10 DEF BanksAuthorized
<1> QED
    BY <1>3, <1>5, <1>6, <1>8, <1>9, <1>11 DEF SealInv, BankInv

LEMMA NextSeal ==
    TypeOK /\ TransitionInv /\ RecordInv /\ SealInv /\ [Next]_vars => SealInv'
<1> SUFFICES ASSUME TypeOK, TransitionInv, RecordInv, SealInv, [Next]_vars
             PROVE  SealInv'
    OBVIOUS
<1>1. PlaceInv' /\ JournalInv'
  <2>1. CASE FinalizeStep
        BY <2>1, FinalizePlace, FinalizeJournal DEF SealInv
  <2>2. CASE \/ \E i \in Inputs : BeginFinalize(i)
             \/ \E k \in Keys : CloseByReplay(k) \/ RecoverStart(k)
        BY <2>2, StartPlace, StartJournal DEF SealInv
  <2>3. CASE RecoverStep
        BY <2>3, RecoverPlace, OtherJournal DEF SealInv
  <2>4. CASE \/ SleepStart \/ SleepStep \/ Crash \/ UNCHANGED vars
             \/ \E b \in Bundles : Install(b)
        BY <2>4, OtherPlace, OtherJournal DEF SealInv
  <2> QED
      BY <2>1, <2>2, <2>3, <2>4 DEF Next, Operate, Continue
<1>2. ReceiptInv'
      BY NextReceipts DEF SealInv
<1>3. BanksPlaced'
      BY NextBanks DEF SealInv, BankInv, PlansSound
<1>4. PlansSound' /\ BanksAuthorized'
      BY NextPlans, NextAuthorized DEF SealInv
<1> QED
    BY <1>1, <1>2, <1>3, <1>4 DEF SealInv, BankInv

\* The invariant holds in every run.
THEOREM SealInvariant == Spec => []SealInv
<1>1. Init => SealInv
      BY InitSeal
<1>2. TypeOK /\ TransitionInv /\ RecordInv /\ SealInv /\ [Next]_vars => SealInv'
      BY NextSeal
<1> QED
    BY <1>1, <1>2, TypeCorrect, TransitionInvariant, RecordsInvariant, PTL DEF Spec

\* A finalization receipt stands for a whole transition, whatever crashed or was
\* refused, and however the evidence moved, before it and since.
THEOREM ReceiptsStand == Spec => []ReceiptSealsTransition
<1>1. TypeOK /\ RecordInv /\ SealInv => ReceiptSealsTransition
  <2> SUFFICES ASSUME TypeOK, RecordInv, SealInv, NEW k \in Keys, receipts[k] # None
               PROVE  /\ archive[k] = receipts[k]
                      /\ archive[k].observations = k.prior
                      /\ \A l \in RequiredLabels : archive[k][l] # None
                      /\ commits[New(k)] = "sealed"
                      /\ FoundOnce(CommitEvent(New(k)))
                      /\ FoundOnce(TransitionEvent(k))
                      /\ New(k) \in {live.observations}
                                      \union {archive[j].observations : j \in Keys}
      BY DEF ReceiptSealsTransition
  <2>1. New(k) \in Corpora
        BY ConstantsAssumption DEF Keys, New
  <2>2. Written(TransitionEvent(k)) /\ Written(CommitEvent(New(k)))
        BY <2>1 DEF SealInv, ReceiptInv, RecordInv, CommitsRecorded
  <2>3. FoundOnce(TransitionEvent(k)) /\ FoundOnce(CommitEvent(New(k)))
        BY <2>1, <2>2, EventOnce, EventParts DEF RecordInv, TypeOK, StoreTypeOK
  <2> QED
      BY <2>3 DEF SealInv, ReceiptInv, Held
<1> QED
    BY <1>1, TypeCorrect, RecordsInvariant, SealInvariant, PTL

\* The journal, the ledger and the sleep receipts tell one story of what was
\* done, in every run.
THEOREM RecordsTellOneStory == Spec => []RecordsAgree
<1>1. TypeOK /\ RecordInv /\ SealInv => RecordsAgree
  <2> SUFFICES ASSUME TypeOK, RecordInv, SealInv PROVE RecordsAgree
      OBVIOUS
  <2>1. ASSUME NEW s \in sleepReceipts
        PROVE  FoundOnce(SleepEvent(s)) /\ ReceiptsOf(SleepKey(s)) = {s}
    <3>1. s \in SleepStates
          BY DEF TypeOK, StoreTypeOK
    <3>2. FoundOnce(SleepEvent(s))
          BY <3>1, EventOnce, EventParts
          DEF RecordInv, SleepsRecorded, TypeOK, StoreTypeOK
    <3>3. ReceiptsOf(SleepKey(s)) = {s}
          BY DEF RecordInv, SleepsRecorded, ReceiptsOf
    <3> QED
        BY <3>2, <3>3
  <2> QED
      BY <2>1
      DEF RecordsAgree, SleepReceiptHasOneEvent, SealInv, JournalInv, RecordInv
<1> QED
    BY <1>1, TypeCorrect, RecordsInvariant, SealInvariant, PTL

\* No bank crosses from one corpus to another, and composition is admitted only
\* on a bank, evidence and an event of the live corpus.
THEOREM BanksStayHome == Spec => []BanksBelongToCorpus
<1>1. TypeOK /\ RecordInv /\ SealInv => BanksBelongToCorpus
  <2> SUFFICES ASSUME TypeOK, RecordInv, SealInv PROVE BanksBelongToCorpus
      OBVIOUS
  <2>1. NoBankCarriedOver
        BY DEF NoBankCarriedOver, NoIncompleteTransition, SealInv, BankInv,
               BanksPlaced, BankLabels
  <2>2. ASSUME NEW s \in SleepStates, Written(SleepEvent(s))
        PROVE  \E i \in DOMAIN ledger : ledger[i].kind = "sleep" /\ ledger[i].op = s
        BY <2>2, EventParts DEF Written
  <2>3. ActiveBankAuthorized
        BY <2>2
        DEF ActiveBankAuthorized, SealInv, BankInv, BanksAuthorized, Active
  <2>4. ASSUME Idle, ExecutionAuthorized
        PROVE  /\ live.observations \in Promotable
               /\ Attests[live.sleep_evidence_current] = live.observations
               /\ live.skill_bank.corpora = {live.observations}
               /\ FoundOnce(SleepEvent(live.sleep_state))
    <3> DEFINE s == live.sleep_state
    <3>1. /\ s # None /\ s.status = "certified" /\ s.corpus = live.observations
          /\ live.sleep_evidence_current = s.evidence /\ Inflight = {}
          /\ live.skill_bank # None /\ s \in sleepReceipts
          BY <2>4
          DEF ExecutionAuthorized, IntegrityHealthy, NoIncompleteTransition,
              SleepInstalled, SleepReceiptBound
    <3>2. s \in SleepStates /\ Written(SleepEvent(s))
          BY <3>1 DEF TypeOK, StoreTypeOK, RecordInv, SleepsRecorded
    <3>3. Certifies(s)
          BY <3>2 DEF SealInv, BankInv, PlansSound
    <3>4. FoundOnce(SleepEvent(s))
          BY <3>2, EventOnce, EventParts DEF RecordInv, TypeOK, StoreTypeOK
    <3>5. live.skill_bank.corpora = {live.observations}
          BY <3>1 DEF SealInv, BankInv, BanksPlaced, BankLabels
    <3> QED
        BY <3>1, <3>3, <3>4, <3>5 DEF Certifies
  <2> QED
      BY <2>1, <2>3, <2>4 DEF BanksBelongToCorpus, AuthorizedOnlyOnOwnCorpus
<1> QED
    BY <1>1, TypeCorrect, RecordsInvariant, SealInvariant, PTL
=============================================================================
