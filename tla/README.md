# TIDE-X: a verification project

TIDE-X is a Rust crate that measures observations of models ("corpora"),
reconstructs skill subspaces from them, certifies the result against evidence,
compiles capabilities into adapters and installs what was certified.  Everything
it trusts is a file under a private root, and everything it promises is a relation
between such files: which corpus is live, which bank is active, which evidence
certifies it, which receipt and which ledger event authorise it.  The numerical
part is a pure function of its inputs; the part that is hard to test is the order
in which those files change, what two processes make of them at once, and what is
left when a process dies between two changes.  That is what this project models.

All line numbers are of this repository; `transition.rs` stands for
`src/src/engine/transition.rs`, and so on.  `PROJECT.json` lists every component
with its status, every run, every mapped definition with its lines, every hazard,
and the theorems a reader should know of.

## 1. Inventory

### 1.1 The engine (`src/engine/`)

| Part | State it keeps | Operations | What makes it correct |
| --- | --- | --- | --- |
| Corpus transition (`transition.rs` 1-1036) | `corpus_transitions/{inflight,by-operation,aborted}`, `learning_finalizations/`, `commits/`, `transactions/`, journal | finalize, commit, recover | nothing of the replaced runtime is lost; a receipt stands for a whole transition; the corpus moves only under an intent; recovery settles |
| Sleep cycle (`transition.rs` 1040-1733) | `sleep_state.json`, `skill_bank.json`, `memory/current.json`, `sleep_receipts/`, `sleep_transactions/` | sleep: certify or revoke, replay, resume | what is certified is certified on its own evidence; one event and one receipt per operation; a bank is authorised before it is installed |
| Store and head (`store.rs`, `engine_head.rs`) | `canonical_engine_head.json` and its history, live pointers | snapshot, advance (compare and swap), verify, journal | the head names the live authority, and the transition that is incomplete |
| Bindings (`support.rs`) | none | operation keys, receipt and ledger bindings, archive verification | two operations never share an identity; a receipt is refused if anything it binds moved |
| Runtime (`runtime.rs`) | composition receipts and pointer | integrity health, admission, composition | no composition without a certified, verified runtime |

All operations of an engine run under one lock (`with_engine_authority`,
`mod.rs` 150-156: an exclusive `flock` on `state/engine_authority.lock`, released
by the kernel when the process dies).  Two things interleave with them.  A
process can die, or a system call fail, after any durable step.  And the sleep
evidence pointer `sleep_evidence/current.json` is published by an installer
outside the engine which does not take the lock: the engine rereads it at three
places of a sleep (`transition.rs` 1621, 1680) and compares it when a finalization
archives it, because it can change at any time.

### 1.2 Storage

| Part | State | Operations | Hard behaviour |
| --- | --- | --- | --- |
| Private authority (`authority.rs`) | files under a root | immutable write, staged installation (link, then unlink), atomic replacement by exchange, file move, lock | a death or a power failure between two system calls; a replacement that races another writer |
| Event ledger (`ledger.rs`) | hash-chained events, tip | append under a lock, unique search by payload | a death between the event and the tip; a power failure before the sync |
| Content vault (`content_vault.rs`, `capability_acquisition.rs`) | immutable blobs, manifests, projections | retain a donor's tree, materialize, verify | a donor that changes while it is scanned |
| Release scripts (`quality/manage-release-installation.sh`) | release directories, `activation.json`, `current` | install, activate, roll back, uninstall | a kill between any two commands |

### 1.3 The adapter bank (`adapter_bank.rs`)

State: a journal of revisions (`commits/by-revision`), each naming an immutable
index of the whole bank: entries, the selection of each slot (receiver model and
capability), revocations, and the operation that made it; `head.json`, a cache of
the last revision; promotion authorizations; and immutable manifests, blobs,
deltas and materializations.  Operations: import, compose, authorize a promotion,
activate, revoke, roll back; resolve, query, look up, verify the history.

Mutations run under `authority.lock`, build the next index from the tip, check it
with the validator that every reader applies, commit it and replace the head.
Two operations read without the lock: `compose_exact`, which takes the lock later
to register what it composed, and `resolve_active`.  What makes the bank correct:
only the journal decides what may be executed; a revocation takes all that rests
on the adapter and is never undone; an authorization is good for one state of the
bank; builder and validator, which are written apart, agree.

### 1.4 Learning, knowledge and memory

| Part | State | Operations | Hard behaviour |
| --- | --- | --- | --- |
| Learning orchestrator (`learning_orchestrator.rs`) | a marker, receipts, evidence envelopes, a pointer, ledger events | start, issue an aperture, assimilate evidence, replay the chain | two processes at once; a death between receipt, event and pointer |
| Finalization input (`learning_finalization.rs`, `representation_evidence.rs`) | installed observations, a receipt bound to an event | record, prepare, verify | observation files that are measured anew; two recorders at the ledger |
| Knowledge engine (`knowledge_engine.rs`) | contracts, states, receipts, a canonical head | establish, plan, execute, advance, replay | workers that race for the head, die and resume; budgets at their limits |
| Procedural memory (`procedural_memory.rs`, `numerical_evolution.rs`) | attempts, failures, drifts, their indexes | record, relabel, retrieve, rebuild; solve and evolve | evidence replayed under another revision; a lineage head nobody stored |
| Solver portfolio (`solver_portfolio.rs`) | none | solve with two solvers and external proposals | limits that hide a candidate; order of the proposals |

### 1.5 Evidence and decisions

| Part | State | Operations | Hard behaviour |
| --- | --- | --- | --- |
| Portfolio governance (`portfolio_governance.rs`) | content-addressed witnesses | paired reports, PETFC trajectories, gates, Pareto selection, trial budgets, canaries, promotion | long legal sequences; one piece of evidence counted twice |
| Residency decision (`residency_decision.rs`) | decisions | precommit, decide, persist, authenticate | an inquiry that moves on meanwhile; missing and contradictory facts |
| Promotion evidence (`universality_evidence.rs`, `aperture_independence.rs`, `shadow_evaluation.rs`, `materialization_selector.rs`, `universal_promotion_gate.rs`) | none | pure, fail-closed decisions over what other calls made | metrics that were never run; evidence that helps by failing |
| Weight actuation (`weight_actuator.rs`, `artifact.rs`, `checkpoint_adapter.rs`, `model_adaptation.rs`) | outputs, receipts | normalize, import, combine, actuate, authenticate | sources rewritten in place while they are read; two processes at one output |
| Terminal trial (`pure_capability_e2e.rs`) | write-once records | commit, discover, claim, reveal, evaluate | no lock: every two records interleave with other callers and deaths |
| Isolated execution (`isolated_execution.rs`) | a child, its pipes, a budget | run under limits | a timeout beside a program that just ended |

### 1.6 Not modelled, and why

The numerical library (`linalg.rs`, `low_rank_math.rs`, `transport.rs`,
`tomography.rs` and so on), and the compilers from functional responses to
receiver coordinates (`receiver_compiler.rs`, `receiver_weight_binding.rs`)
compute floating-point results from authenticated bytes and keep no state between
calls: a model checker has nothing to say about them.  Where a modelled part
depends on such a result the model takes it as a constant (`Promotable`,
`NewCorpus`, `Attests`, `Objective`, `Confident`).  Controllers and cognition are
numerical policies whose receipts the engine runtime writes; governed composition
itself is not modelled, only its admission.  One thing was seen there in reading:
`persist_controller_execution` (`runtime.rs` 190-275) refuses every retry after a
death between its receipt and its event.  Binaries parse arguments around library
calls.

## 2. The modules

    EngineStore            the files, what is read off them, the steps both operations share
      |          \
    CorpusTransition  SleepCycle       one action per durable step of each operation
           \         /
            Engine                     the lock, crashes, the installer; all properties
           /       \
    MCEngine      EngineProofs

    AdapterManifests                   versions, slots, terms, what rests on what
      |          \
    AdapterAuthority  AdapterBank      what the bank promises / the bank of the code
                       |        \
             MCAdapterBank   AdapterBankProofs

    PrivateFiles  AppendLog <- Ledger  ReleaseInstallation  ContentVault
           \__________|_____________________|______________/
                   MCStorage -- StorageProofs

    AdaptiveLearning  ResidencyDecision  PromotionEvidence
           \_________________|________________/
                   MCLearning -- LearningProofs

    GovernanceEvidence  PetfcAssessment -- PortfolioGovernance   ParetoSelection  AdapterBank
                                   \_________________|________________/
                                   MCGovernance -- GovernanceProofs

    KnowledgeEngine  AdaptiveBudget
           \_______________/
        MCKnowledge -- KnowledgeProofs

    SolverApplicability -- ProceduralRecords -- ProceduralMemory  NumericalEvolution  SolverPortfolio
                                      \______________|_______________|______________/
                                                   MCMemory

    PairedRows  PetfcPath  CheckpointActuation  TerminalChallenge  IsolatedExecution
           \________|_____________|____________________|_______________/
                       MCEvidence -- EvidenceProofs

A module of the second line of each picture gives the constants of the modules
above it small values.  Where one such module holds several components (all but
the engine and the adapter bank), each behaviour is about one *part*, chosen in
the initial state; the other parts stay at rest.

A digest is the value it identifies, so a comparison of digests is an equality.
An operation key is the record of what is hashed into it: this is where the model
keeps what the code leaves out of a key (the promotion flag of a sleep).  Scores,
costs and times are integers.

### 2.1 The engine

`EngineStore` declares the state.  Each variable is one kind of file:

| Variable | Files |
| --- | --- |
| `live` | the six live authority pointers (`observations/`, `skill_bank.json`, `shadow_skill_bank.json`, `memory/current.json`, `sleep_state.json`, `sleep_evidence/current.json`) |
| `archive`, `archiveDirs` | `corpus_transitions/by-operation/<key>/` |
| `inflight`, `closed`, `aborted` | the three places where the directory of an intent can be; `"made"` is a directory without its `intent.json` |
| `journal` | the last phase written for a key |
| `commits`, `receipts` | commit transactions and receipts, finalization receipts |
| `head` | `canonical_engine_head.json`: the authority it pins and `incomplete_transition` |
| `ledger` | the events of the three kinds the engine writes, in order |
| `sleepOpened`, `sleepStaged`, `sleepReceipts` | sleep transaction directories, their intents, sleep receipts |
| `pc`, `job`, `cursor`, `prior`, `plan` | the locals of the one operation that holds the lock; lost when the process dies, except that `prior` is kept as a history variable for the properties |

A bank is the set of corpora whose fields it holds and its generation.  History
files named by their own digest are immutable and are left out.  The steps the
files take are those `PrivateFiles` and `Ledger` justify; here each is one step.

`CorpusTransition` has one action for each durable step of a finalization
(`BeginFinalize` to `ClearHead`) and of a recovery (`RecoverClose`,
`RecoverRestore`, `RecoverRollback` and their steps); a refusal inside an
operation is an action of its own (`ArchiveRefused`, `CommitRefused`,
`RestoreRefused`, `RestoreReplaced`, `AbortRefused`), because what an operation
leaves behind when it returns an error is what the next one finds.  A refusal
before the first durable step changes nothing and is no action.  `SleepCycle` is
built the same way.  `Engine` joins them under the lock, adds `Crash` and
`Install`, and states the properties.

### 2.2 The adapter bank

| Variable | Files or locals |
| --- | --- |
| `journal` | `commits/by-revision`, with the index each commit names |
| `head` | the revision `head.json` names, 0 when there is none |
| `permits` | promotion authorizations, each with the revision it was issued against |
| `step`, `staged` | what the holder of `authority.lock` does next, the index it is about to publish |
| `draft` | a composition made without the lock and not registered yet |
| `reader`, `calls` | the call of `resolve_active` under way, and how many began |

A mutation is three steps: it takes the lock and builds the next index
(`ImportLora`, `RegisterComposition`, `Activate`, `Revoke`, `Rollback`),
`PersistRevisionCommit` checks it and makes it durable, `ReplaceHead` replaces the
cache and drops the lock.  `RefusePublication` is the check that fails, `Crash` a
death between them.  The validator (`ValidContract`, `ValidTransition`) is
translated on its own, as it is written on its own in the code.  A resolution is
two steps: `AuthenticateRevisionTip` lists the journal, `AuthenticateHeadCache`
reads the head and answers.  `LoseHead` stands for whoever removes the cache, as a
test of the repository does.

Left out: `materialize_candidate`, which writes an immutable record and no state of
the bank, and adds no condition that a promotion does not check again; `query`,
`lookup` and `verify_history`, which only read; the authentication of bytes and of
the evidence of a promotion.  A request carries the expectation its caller read
last; one that carries an older one is refused and changes nothing.

`AdapterAuthority` says what all this amounts to: four sets (registered, revoked,
in use, freshly authorised) and five operations, with no journal, cache, lock or
reader.

### 2.3 Storage

`PrivateFiles` has one action per system call of `authority.rs`.  A file is an
inode with data that may be torn; a directory binds names to inodes, and what was
bound before and was not synced may come back after a power failure
(`PowerFailure`).  A call is a record of its operation, the phase it is in, and the
inodes it knows.  The number of inodes is a bound (`CreateTemporary` asks for a
free one).  What the code does is kept as it is: the branch of
`write_or_verify_immutable` that finds the file already there acknowledges it
without a sync, while the same branch of an installation does sync the parent;
directories that are made on the way are never synced; after a death, a reused
process id makes one `replace_private_file_atomic` fail, as its temporary name is
taken.  The recheck and the unlink of a moved source are one step.

`Ledger` appends an event by replacing two files, step by step, under the lock,
and refines `AppendLog`, a sequence that grows at its end and of which a power
failure may take the last events, but none that its caller was told about.  A hash
chain is the prefix it fixes.

`ReleaseInstallation` has one action per command of the script that changes
anything.  Only kills are modelled: the files of a release are copied without a
sync, so nothing could be said of power failures.  `ContentVault` scans a donor
twice, file by file, and the donor may change at any moment; `VaultRetained` is no
snapshot of one instant, and none is claimed.  A death in `materialize` leaves a
partial projection that every later one refuses, and a second materializer that
collides removes the whole projection which another had already returned; both are
in the model and neither contradicts a document.  `capture_to_vault` looks at the
pinned root for the last time before it verifies its receipt (468), and
`CaptureReceipt::persist` (190-197) verifies and writes by the path alone.  A path that
moves to another root meanwhile leads the receipt astray, to a root whose store may
lack its objects; the history variable `astray` marks those receipts.  Every reader
verifies first and refuses them.  `create_workspace`, which is not modelled, can leave
a name behind that can be neither loaded nor created, by a death between its directory
and its manifest.

### 2.4 Learning and decisions

`AdaptiveLearning` is one persistent session: `marker`, `pointer`, `receipts`,
`stored` (envelopes) and `ledger` are its files, `observed` the observation files
anybody may rewrite, `lock` and `task` the calls under way.  Its second half is what
a session hands over: `installed`, `events`, `filed` and `recorder` for the
representation evidence, `preparer` and `inputs` for the finalization input, made
without a lock.  Objectives are any numbers.  `ResidencyDecision` derives and keeps
decisions while the inquiry they are about goes on; the steps of the inquiry
(`Learn`, `Exhaust`) are external here and belong to `KnowledgeEngine`.
`PromotionEvidence` states what is asked of trials, selections, shadow runs and
lineages as operators, and lets them come in one by one; the Wilson bound is a
table, of which the proofs use only that one more failure never raises it.

Seen while modelling.  A death, or a refused append, after the receipt file of a
session is written and before the pointer moves makes every retry fail with
`receipt_digest_already_exists`.  Two recorders of the same request that overlap at
the ledger append two events, after which the request is refused for ever
(`ledger_v2_event_payload_match_ambiguous`); `RecordedOnce` says "unless two were
at the ledger at once".  A blocked decision is refused once the inquiry moves, a
placement never is.  A *successful* trial on a new receiver can withdraw an
admission, because confidence is asked of each receiver; a failed one never grants
one.  A metric of weight zero does not count in the utility, so a candidate that is
dominated in such a metric alone may be selected: `Outdoes` is dominance by a metric
that counts.  A hybrid is always blocked by the gate, and the gate authorizes
nothing by itself.

### 2.5 Governance

`GovernanceEvidence` holds the paired reports and what they say of a candidate,
`PetfcAssessment` the trajectory of a line of candidates and its assessment,
`PortfolioGovernance` the chain of witnesses a caller builds: trajectory, gate
decision, canary, promotion.  `ParetoSelection` is the selection run again as
candidates become eligible, `AdaptiveBudget` the plan of trials; which candidate
the score favours is left open.

### 2.6 Knowledge

`KnowledgeEngine` has the contracts (families of rivals, duties, a budget), the
plan of the next action, the verifiers, the receipts and the reducer as operators of
a state, and the canonical head with its states and receipts, the workers that
race for it, and their deaths as its behaviour.  `Verified` are the methods that have a verifier for
a completed outcome: a release build has trace, scenario, causal and counterexample,
and only a test oracle closes a dependency.  A completed counterexample search
always contradicts its target, and a formal one is always unavailable.
`reduce_discovered_obligations` is not modelled: `issue_action_receipt` refuses
every receipt that has one.

### 2.7 Memory

`SolverApplicability` says which configuration fits which problem and how alike two
problems are; a dimension that was not measured is `None`, not zero.
`ProceduralRecords` is the memory as a reducer, `ProceduralMemory` its use and the
retrieval of advice up to the disposition of each configuration (order and
confidence of the advice are left out).  `NumericalEvolution` is the engine over it;
the portfolio's outcome is a constant there, and `observe_functional_change` no
action, for the engine has no comparable reports.  `SolverPortfolio` is the portfolio
itself: numbers are integers of a bounded magnitude, a norm is a sum of magnitudes,
the rotations of the singular value decomposition and the ridge solver belong to the
problem.  Residuals relative to a norm, their root mean square and the effective rank
are left out.

Seen while modelling.  If nothing is accepted and several proposals are unknown for
different reasons, the reason and the digest of the report depend on their order; the
status and the observed rejection do not.  Raising `maximum_rank` or `max_svd_sweeps`
raises the bound on the work, and can make the direct solver unavailable under a
finite limit; the comparison "limits only hide" is therefore made with unlimited work.
The declared names of implementations are not in the digest.

### 2.8 Evidence

`PairedRows` and `PetfcPath` take every small input one piece at a time.
`CheckpointActuation` reads sources while others rewrite them, stages, links and tells
in a receipt what it made.  `TerminalChallenge` is the one-shot trial;
`IsolatedExecution` the child with its monitor, its readers and its budget.

Seen while modelling.  A LoRA import opens the adapter again for its receipt, so that
an adapter that is rewritten and written back yields a receipt for bytes the delta was
not made of (`AxesAreExact` excepts exactly this).  A death between the link of an
output and its receipt leaves a path that is refused for ever
(`model_weight_output_already_exists`).  `verify_output_semantics` leaves its temporary
file when it fails.  A compiled receipt is persisted before it is authenticated, which
may fail, but names an exact output.  In the trial, a claimed candidate whose
dimensions do not fit, or whose sources are forgotten before the reveal, leaves the
suite without a verdict for ever; the loser of a claim leaves a record nobody reads;
a candidate that overflows can end only in the process.  A timeout may be told of a
program that had just ended.  A kill or a wait that the host refuses is an error of the
call, and the guard tries both once more and ignores what becomes of it, so that the
program may stay behind.  A compiled request persists its plan before the output path is
looked at.  The arguments of bubblewrap and the sealing of payloads
are left out.

## 3. The runs

| Run | Question | Bounds | Distinct states |
| --- | --- | --- | --- |
| `engine` | Are the safety properties kept? | 2 corpora, 2 inputs, 2 bundles, 2 bank generations, 2 crashes, 3 installations | 480,746 |
| `recovery` | Do sealed and interrupted transitions get settled? | as `engine`, 2 installations | 80,648 |
| `adapters` | Does the bank keep its promise? | 2 adapters of one slot, a composition of both and one of that; four regions of up to 6 revisions, 3 authorizations, 1 call, stale caches | 208,304 |
| `storage` | Are files, promises and the log kept? | 2 processes, 6 names, 6 inodes, 1 death, 1 failed call, 1 power failure; 2 events; 3 releases, 5 revisions, 2 kills; 2 donor files, 2 changes | 1,385,390 |
| `learning` | Does what was handed over stay valid, and does no evidence count against its meaning? | 2 callers, 2 recorders, 2 targets, 6 envelopes, 1 failure, 2 rewritings, 1 death; 7 contracts, 2 decisions; 8 trials, 5 claims; 7 lineages | 210,242 |
| `governance` | Does what is promoted rest on fresh evidence in order? | 14 reports of 2 candidates; 5 candidates of a selection; 8 manifests, 5 revisions | 96,337 |
| `knowledge` | Is what was confirmed kept, is complete complete, does an inquiry end? | 2 workers, 1 crash; 2 rivals and 2 interventions; 5 nodes; 3 methods; every plan of 2 candidates with small costs | 249,964 |
| `memory` | Is advice built on what holds? | 4 revisions of one configuration; 2 lineages up to the capacity; 2 problems; 7 problems with 10 policies and up to 3 of 6 proposals | 67,201 |
| `evidence` | Does nothing count twice, and do receipts tell the truth? | up to 3 observations; paths of 3 checkpoints; 2 processes, sources rewritten once or twice; 2 callers of a trial; an isolated program with 2 pipes | 676,893 |
| `rollback`, `adapter_revoke`, `evolution_head` | Does the code do what its documentation says? | small | to the counterexample |

Why these bounds are enough.  *Engine*: two corpora and two bundles give certify,
revoke, finalize, and finalize back.  A second crash is a crash inside the recovery of
the first, or inside the second attempt of the same operation; nothing in the code
counts attempts, so a third adds no new kind of state.  Three installations are the
one that certifies, the one that revokes and one that races.  Two generations are a
bank and its re-promotion.  Both corpora are promotable: an input with an
unpromotable target is refused before the first durable step.

*Adapter bank*: five revisions are register, register, activate, replace and roll
back, or register, register, compose, activate and revoke; the sixth revokes what a
composition of a composition rests on.  A resolution reads one revision and the head
and keeps nothing, so one call beside every interleaving of the writer shows what any
number would.  `Regions` names the four corners explored together.  `MaxCalls` and
`MaxPermits` are bounds of the run, `MaxRevisions` is the code's
`MAX_HISTORY_REVISIONS`.

*Storage*: two processes at one name are what the exclusive links and the exchange of
names are about; a death, a failed call and a power failure may all come in one
behaviour.  *Learning*: two callers are enough to overtake each other between any two
steps, a failure to leave each partial state, a rewriting to disagree with a stored
envelope.  *Elsewhere* the inputs are chosen so that each guard is met from both sides;
the comments of the `MC` modules say which input is there for which case.  For
everything section 5 proves, the run is the small instance and the theorem has no
bounds.

Deadlock is not checked: these systems really stop.  A refused transition whose
archive, intent or staged transaction is in the way has no further step, a journal is
full, a trial is over, and the bounds end whoever else goes on.

What the properties say:

- `engine`. `PriorNeverLost`: through every rename, link, removal, refusal, death and
  recovery, each file of the revoked runtime is live or in its archive.
  `ReceiptSealsTransition`: a finalization receipt stands for a whole transition, then
  and ever after.  `RecordsAgree`: the journal never reports what is not durable, one
  event per operation and one receipt per event.  `BanksBelongToCorpus`: at rest, banks
  hold fields of the live corpus alone, composition is admitted only with evidence of
  the live corpus and its own bank, and an event stands before every bank.
  `RestoreGivesBackPrior`: a restoration that says so restored everything.
  `CorpusMovesUnderIntent` (action): the live corpus moves only while an unsealed intent
  on disk says from where to where.
- `recovery`. `TransitionsEnd`: a sealed transition is closed, an interrupted one
  settled.
- `adapters`. `KeepsPromise`: the bank implements `AdapterAuthority`; a head left behind
  by a dead writer, a draft or an old authorization decides nothing.
  `ResolutionOnSoundFooting`: no resolution hands out an adapter that rests on one
  revoked before the call began.  `RefusalMeansOvertaken`: a reader takes a head ahead
  of the journal for tampering; no death leaves one.  `BuiltIsAccepted`: what a mutation
  builds, the validator accepts, except when the journal is full and in the case
  section 4 reports.
- `storage`. `FilesSound`: no name callers know leads to a torn file, what was promised
  stays, a moved file is under one of its names, only the dead leave litter; a vault
  seals only what was seen twice, a receipt is of an attested tree and its store has the
  objects unless it went astray, and a projection that was handed out is whole unless a
  reader that built it too gave up and removed it, which nothing prevents: even then only
  files of the receipt stand under the name.  `ReleasesRun`: what is active, and the way back from
  it, are whole wherever a command was killed.  `KeepsLog`: the ledger implements
  `AppendLog`.
- `learning`. `SessionSound`: a session can be read back wherever a process died, and
  nothing is left in the way of the next call where none did.  `HandoffSound`: an input
  that was handed over stays the canonical one, evidence is recorded once.
  `PlacementsStand`: a kept placement can be authenticated ever after (other decisions
  become unreadable when the inquiry moves on, section 2.4).  `ReadyIsEarned`:
  the gate lets nothing through but the best of what was run.  `NothingTakenBack`
  (action): a session never goes back, no record is replaced, more evidence is not held
  against a placement, evidence against a capability never helps it.
- `governance`. `PromotionEarned`: what is promoted was eligible, passed every stage,
  broke no hard invariant, on evidence counted once and in order of time.
  `SelectionSound`: what is left out is dominated by what is selected, and stays out.
  `LineageUnbroken`: no order of imports leaves a gap between generations.
  `ExposureGrowsUntilRollback` (action).
- `knowledge`. `ClaimsHoldUp`: a confirmed commit stays, every receipt that was issued
  is accepted, a complete inquiry has one rival left and no edge unfollowed.
  `BudgetWellSpent`: the reserve is kept, nobody is a round ahead, nothing is left
  over.  `HistoryOnlyGrows` (action), `EveryCallEnds` (liveness).
- `memory`. `AdviceSound`, `ExperienceSound`, `PortfolioSound`: no advice on overtaken
  evidence; each piece of evidence once, in a chain; limits only hide, proposals only
  help, order is irrelevant.  `LikenessMeasured`: a forgotten measurement never makes
  two problems more alike.
- `evidence`. `EstimatesSound`, `ViolationSticks`: a compatible path keeps its limits
  wherever its points are, and a violation stays one.  `ImportsSound`, `OutputsSound`:
  receipts tell what was made of what, and never of half a file.  `ChallengeSound`: one
  verdict for one commitment, candidates chosen blind.  `IsolationSound`: a report is of
  what happened, and nothing is left running, unless the call is an error and
  the host refused the last kill or the wait after it.

Fairness.  `recovery`: a running operation takes its next step (a process that neither
dies nor is refused goes on), and an operator calls recovery and sleep again and again;
finalizations, crashes and the installer owe nothing.  `knowledge`: a worker that is
at work goes on, callers open inquiries, and the loop that allocates a budget runs to
its end.  The other runs assume none: their properties are of safety.

Every property has a mutant, a plausible mistake in a definition that models code,
under which TLC finds it violated; they stand beside the definition they change.

## 4. Where code and documentation part

Three runs check a sentence of the documentation and find it violated.

- `rollback`: recovery "rolls back an intent that never retired the prior corpus"
  (`transition.rs` 65-66).  A restoration that dies after the observations are back
  is taken for such an intent; the files not restored yet stay in the archive.
- `adapter_revoke`: "revocation is sticky, composition dependencies are revoked
  transitively" (`adapter_bank.rs` 6-7).  Register a and b, compose c of both,
  revoke a, which takes c.  Then `revoke` of b lists c among the affected, adds no
  second revocation for it, and the validator, which wants both to agree (1494),
  refuses the index: b can no longer be revoked, and can still be activated.
- `evolution_head`: the head of a lineage is the "Exact sealed lineage identity"
  callers use "when advancing a chain" (`procedural_memory.rs` 1679).  `evolve` moves it
  to the attempt it drafted even where the memory answers that a rejected run is
  already present and stores nothing; every later attempt is refused.

Three more sentences of `transition.rs` and `engine_head.rs` are not kept and have no run
of their own.  "Forward completion after the new corpus is published still requires the
original finalization input" (64-65): with that input, the call is refused because its
own intent is inflight (777).  The journal exists "so an interrupted corpus transition
can be recovered" (`engine_head.rs` 5-7): a death between closing or aborting an intent
and clearing the head leaves a head that names the transition for ever.  And the second
attempt of an aborted finalization has the key of the first, whose aborted directory its
own abort does not replace.  `TransitionsEnd` leaves these cases out by name.

Promised by no document: a death between the inflight directory and its intent wedges
recovery; a finalization back into a committed corpus stops after publishing
(`CommitRefused`); a partly staged sleep refuses its operation; a corpus that comes back
with the same evidence and bank repeats a sealed sleep operation and cannot be certified
again; a bankless revoked runtime cannot sleep on new evidence.  The assessment of a
trajectory bounds the spread of its points by their envelopes, not by the points
(`PetfcAssessment`); a run failure that comes in again when the memory is full is
refused rather than acknowledged (`ProceduralRecords`).  What was seen in the other
parts is told with them in section 2.

## 5. The proofs

TLAPS checks these for every choice of the constants that satisfies the assumptions
named with them, and so for any number of corpora, processes, adapters, files, reports,
crashes and calls.  The bounds of the runs that remain in the modules (`MaxCrashes`,
`MaxRevisions`, `Inodes` and so on) are arbitrary.

### 5.1 The engine (`EngineProofs`)

Assumed: the constants have the types their comments say, `None` is none of the values
(nor a set of stores or a phase), bounds are naturals.

- `TypeCorrect`: `Spec => []TypeOK`.  One lemma per group of actions, on lemmas about
  updating one file of a store.
- `TransitionInvariant`: `Spec => []TransitionInv`, inductive given `TypeOK`:
  `OneTransition` (at most one intent is inflight, it is the running operation's, and no
  sleep runs beside it), `SnapshotWhole` (the snapshot `prior` names every engine file
  but the shadow), `CorpusPlaced` (where the observations are at each step), `CursorAt`
  (the files before the cursor are on one side, those after it on the other, and during
  a link on both), and `PriorNeverLost`.
- `PriorIsSafe`: `Spec => []PriorNeverLost`.  Not inductive on its own: a second
  transition beside the first would archive over it, a sleep beside it would replace a
  live file before it was archived, and after a refused restore the file at the cursor is
  in two places.  Each of the other parts excludes one.
- `RestorationIsWhole`, `CorpusIsGuarded`: `RestoreGivesBackPrior` and the action property
  `CorpusMovesUnderIntent`, from the same invariant.
- `RecordsInvariant`: the ledger tells each operation once, and commits, transitions and
  sleeps are recorded before what they authorise; `RecordsTellOneStory`:
  `Spec => []RecordsAgree`.
- `SealInvariant`: what is in place at each step of a transition, what its journal says,
  what its receipt stands for, and which corpus each bank belongs to, with the operations
  that move them.  From it `ReceiptsStand` (`Spec => []ReceiptSealsTransition`) and
  `BanksStayHome` (`Spec => []BanksBelongToCorpus`).

### 5.2 The adapter bank (`AdapterBankProofs`)

Assumed: terms are manifests, bounds are naturals, `None` is no value.

- `TypeCorrect`: `Spec => []TypeOK`.
- `BankInvariant`, inductive given `TypeOK`.  `JournalSound`: every revision holds the
  terms of its entries, has its revocations complete and selects sound adapters of the
  slot.  `StagedBuilt`: what is staged was built from the tip in one of four ways.
  `DraftSound`: a draft whose expectation still is the tip has sound sources.
  `PermitsIssued`, `HeadBehind`: no authorization and no head is ahead of the journal.
  `ResolvedFromTip` and `RefusalMeansOvertaken` are about the reader.
- `ResolutionIsSound`, `ReadersAreNotBlocked`.  The sound entries of a sound revision are
  closed under terms, and a footing lies in every closed set that holds the adapter.
- `AcceptInvariant`, `MutationsAreAccepted` (`Spec => []BuiltIsAccepted`): every revision
  satisfies what a reader checks; entries are never dropped; what is staged is accepted.
- `GenerationsFollow`: every generation follows the one before it in one lineage and one
  slot.  `ImportsFollow` (5.4) carries this to the bank of the run `governance`.
- `BankKeepsPromise`: `Spec => KeepsPromise`, the refinement.  A commit maps to the
  operation that built what it commits, an authorization to an authorization, every other
  step to a stutter.  The loop of `revoke` goes from an adapter up through what is
  composed of it; the promise goes down through its terms; `AffectedIsFooting` shows that
  they agree on a sound revision.  A commit spends every authorization because none is
  ahead of the journal.

### 5.3 Storage (`StorageProofs`)

Assumed: `FilesAssumption`, `LedgerAssumption`, `VaultAssumption`, `ReleasesAssumption`
(types, bounds, finitely many inodes) and the choice of names `Instances`.

- `StorageInvariant`, by layer.  `FilesInv` is about the disk (`DiskInv`: for each call in
  flight, what it knows of its inodes, that it writes alone, that it wrote all before it
  links, what is installed, where a moved file is; which inodes a power failure may bring
  back under a name) and about the log (`LogInv`: who holds the lock, and that each log
  that may come back is a beginning of the log with everything that was acknowledged).
  `ReleasesInv` says what a command still owes, `VaultInv` what a capture has seen and
  what it has checked: an object of a receipt that was checked since the path last moved
  is in the store the path leads to, so a receipt written without a move has them all.
- `FilesSoundAlways`, `ReleasesRunAlways`: the invariants of the run.
- `LedgerKeepsLog`: `Spec => KeepsLog`, the refinement of `AppendLog`.  An exchange of
  names by the holder of the lock appends, an answer acknowledges, a power failure loses
  what nobody was told; every other system call is a stutter.

### 5.4 Governance (`GovernanceProofs`)

Assumed: `StagesAssumption`, `ReportsAssumption`, `ValuesAssumption` (values are
integers, sets are finite), `BucketsAssumption` (a subject hashes to a number), and of the
bank that its terms are manifests and `None` no value.

- `SelectionIsSound`: `Spec => []SelectionSound`.  Dominance is a strict order on a finite
  set, so everything left out is dominated by something selected.
- `ChainInvariant`: the trajectory and the canary follow the order of time with evidence
  of their own, and each stage passed was passed by a report that passes the earlier ones.
  `PromotionIsEarned`: `Spec => []PromotionEarned`.
- `ExposureGrows`: `PartsSpec => ExposureGrowsUntilRollback`.  A report keeps the stage of a
  canary or moves it to the next, which exposes more.
- `ImportsFollow`: `PartsSpec => []LineageUnbroken`.  `BankProofs` is `AdapterBankProofs`
  instantiated for the bank of the part *import*; `SameBank` shows that the two instances
  stand for the same formulas, so the invariants of 5.2 hold of it.

### 5.5 Learning (`LearningProofs`)

Assumed: `StepsAssumption` and `RequestsAssumption` (objectives are numbers, a plan has
steps, a request installs something), `BegunAssumption` (the state the part *handoff*
begins with is one the calls produce), `ResidencyAssumption`, `PromotionAssumption`
(scores are numbers, weights are not negative, pairs are ranked, a protocol asks for a
receiver at least, and another failure never raises the confidence bound).

- `SessionsStandUp`, `HandoffsStand`.  `SessionInv` says what the files hold (`FilesInv`:
  the chain behind the pointer is stored, entered and follows step by step), what each call
  still bears (`TasksInv`), and that without a death nothing is left over (`TidyInv`);
  `HandoffInv` which record each destination can hold, how often a request is in the
  ledger, and that an input names what is installed.  An input stays canonical because a
  complete session has no next step.
- `PlacementsStandUp`: a head's revision is no greater than the number of receipts that
  settled something, a decision is what its precommitted state derives, and a placement is
  derived only of a state that plans nothing more: so that state stays the head.
- `ReadyStandsUp`: `Spec => []ReadyIsEarned`.  Between candidates with different names the
  best exists; outdoing another in a metric that counts makes a greater utility (sums over
  finite sets, by the number of elements); a hybrid is never one candidate; equal numbers of
  names and evaluations tell the evaluations apart, so each was run as it was claimed.
- `NothingIsTakenBack`: `Spec => NothingTakenBack`.  A failed trial leaves the successes and
  takes confidence from every group it is in; another observation of a group leaves what the
  groups say, one of a new group with a used randomization leaves fewer randomizations than
  groups.  More facts move the evaluation of a matrix in one direction only.

### 5.6 Knowledge (`KnowledgeProofs`)

Assumed: `ContractAssumption` (a contract is one `validate_contract` lets pass),
`NodesAssumption` (nodes are numbers, each becomes an obligation of its own name, a
digest), `VerifiedAssumption`, `BoundsAssumption`, and `PlansAssumption` for the budget
of trials.

- `PlansAreWellSpent`: `PartsSpec => []BudgetWellSpent`.  `PlanInv` says that what is
  counted as consumed is the sum over the candidates of their trials and their costs, that
  the mandatory rounds were dealt in turn, and which candidates can still be tried in each
  phase.  Sums over the candidates are followed one trial at a time (`CountsAfter`).
- `ClaimsAreSound`: `PartsSpec => []ClaimsHoldUp`.  Its parts are claims about the head
  alone, and none is inductive there: a worker turns an older state and a receipt into a
  successor and moves the head to it later.  `KInv` therefore says of *every* state on disk
  that it is `Sound`, of every worker that its receipt is one that may be issued for the
  state it loaded, and of every confirmed receipt that the head applied it.  `Sound` has
  five parts: `Formed` (the types), `Witnessed` (a satisfied duty was met by what a
  revision observed, and what is held against a hypothesis is exactly the revisions that
  observed what it did not predict), `Linked` (every known node has its obligation and a
  depth, every edge joins known nodes, no cycle), `Followed` (unless a limit or a cycle was
  met, every node a receipt showed is known) and `ValidState` itself.  `AdvanceSound` is the
  long step: one edge of an expansion keeps the parts (`Discover`), the whole expansion does
  by induction over the edges taken, and reachability is argued from sets closed under
  predecessors.  A complete state then rests on what was observed, because `Witnessed` reads
  statuses and judgements back to receipts.
- `LineageOnlyGrows`: `PartsSpec => HistoryOnlyGrows`.  The comparison under the lock makes
  the successor one of the current head, and a receipt can be issued only for a state that
  is not over.

### 5.7 Evidence (`EvidenceProofs`)

Assumed: `FilesAssumption` (the files that calls name have parts of their own, `None` is no
content, a receipt that is presented names a path somebody may ask for),
`ChallengeAssumption` (`None` is no record and no output), `IsolatedAssumption` (an output
budget and the buffer of a reader are naturals).  The other constants are arbitrary: any
number of processes, callers, parts, versions, requests, rewritings and deaths, any buffer.

- `RecordsAreTrue`, `OutputsAreAsAsked`: `Spec => []ImportsSound`, `Spec => []OutputsSound`.
  Neither is inductive, for what a call tells at its end rests on what it read long before,
  in files that others rewrite meanwhile.  `FilesInv` says of every call what it knows at
  each place (`NormalizeOK`, `ReadoutOK`, `CombineOK`, `ProfileOK`, `LoraOK`, `ActuateOK`).
  Each pass either goes on, which changes nothing of that (`PassGoesOn`), or ends, and then
  the values it read are those of the digest it noted, part by part.  For the LoRA import
  the argument counts: what was noted is still there *or the adapter was rewritten since*
  (`StillThere`); what differs from the digest was written later, and once it is right
  again it was written back, a second rewriting (`Differs`); so factors that differ and a
  rehash that agrees mean two rewritings (`WrittenBack`), the case `AxesAreExact` excepts.
  For the actuation, a stream holds only parts of the base that was asked for, and is
  complete when its order is at its end (`StreamIsWhole`); an output is linked once.
- `VerdictsAreFair`: `Spec => []ChallengeSound`.  `ChallengeInv` ties every kept record to
  the records it rests on: a candidate to its commitment, a reveal to the one claim that
  precedes it, an evaluation to the claimed candidate and to an admitted runner, and every
  call in flight to what it has read.  Records are only added (`Grows`), so what a call read
  before another one moved still holds.
- `ReportsAreTrue`: `Spec => []IsolationSound`.  `IsolatedInv` keeps a balance for each
  reader (what it took from the pipe is kept, held, or was cut with the budget spent:
  `ReaderFits`) and says what the child's state is at each place of the monitor (`Watched`).  A kill
  or a wait may fail; the call then tells no end, and the child may be lost.
  A report is made only when both threads are done, and a thread is done only at the end
  of its pipe, so the balance is then about everything that was printed.

- `ViolationsAreKept`: `Spec => ViolationSticks`, for any estimates.  What is proven of the
  baseline or a checkpoint is read from its own report (`HardIsProven`), a report only
  extends a trajectory, and what is proven excludes `compatible`.

### 5.8 What is only model-checked

Liveness (`TransitionsEnd`, `EveryCallEnds`) and the documentation runs: liveness and
`ENABLED` are out of the prover's reach.  `EstimatesSound` is about estimates that are
sorted and folded, and the invariants of the run `memory` about records that are folded and
advice that is ranked: they need induction over sequences, and stay with TLC.

The induction theorems of the library take an operator as a parameter, which the provers
cannot instantiate.  Where a proof needs induction over numbers or finite sets it is made
from a least counterexample (`LeastNumber`, `NoLeastGap`), which follows from inclusion
being well founded on the finite subsets of a set.  That reaches what a recursive
*function* computes (the ancestry of a receipt, a sum over a set), not a `RECURSIVE`
operator, of which the modules under proof have none.

## 6. Plan

Done: every component section 1 lists as modelled, the inductive invariants of the
engine, the adapter bank, storage, governance, learning, knowledge and evidence, and the
two refinements.

Next, in this order: proofs about the procedural memory; governed composition (`runtime.rs`
753-1283) with the verification of sleep evidence as modules of their own; the candidate
derivation of `receiver_weight_binding.rs`.
