----------------------------- MODULE AdapterBank -----------------------------
(***************************************************************************)
(* The receiver-adapter bank of src/src/adapter_bank.rs: a journal of       *)
(* revisions, each an immutable index of the whole bank, and head.json, a   *)
(* cache of the last one.                                                   *)
(*                                                                         *)
(* Mutations run under authority.lock: they read the tip of the journal,    *)
(* build the next index, check it against its parent as any reader would,   *)
(* commit it, and replace the head.  The process can die, or a call fail,   *)
(* between these steps.  Two operations read the bank without the lock:     *)
(* compose_exact, which takes it later to register what it composed, and    *)
(* resolve_active.                                                          *)
(*                                                                         *)
(* Abstractions: files named by their own digest (manifests, blobs, deltas, *)
(* materializations) are immutable and are values here; an index is named   *)
(* by its revision; the bytes of an adapter and the evidence of a promotion *)
(* are authenticated outside this module; a request is made with the        *)
(* expectation that its caller read last, and one made with an older one    *)
(* ends in a refusal that changes nothing.                                  *)
(***************************************************************************)
EXTENDS Naturals, Sequences, FiniteSets, AdapterManifests

CONSTANTS
    None,           \* no selection, no authorization, nothing staged
    MaxRevisions,   \* MAX_HISTORY_REVISIONS
    MaxPermits,     \* bound: authorizations given
    MaxCalls        \* bound: calls of resolve_active

ASSUME LimitAssumption ==
    MaxRevisions \in Nat /\ MaxPermits \in Nat /\ MaxCalls \in Nat

VARIABLES
    journal,   \* commits/by-revision: the index of each revision
    head,      \* the revision head.json names, 0 when there is no head.json
    permits,   \* promotion-authorizations/by-sha
    step,      \* what the holder of authority.lock does next
    staged,    \* the index it is about to publish
    draft,     \* the composition that compose_exact is preparing
    reader,    \* the call of resolve_active under way
    calls      \* calls of resolve_active begun

bank == <<journal, head, permits>>
writer == <<step, staged>>
call == <<reader, calls>>
vars == <<bank, writer, draft, call>>

-----------------------------------------------------------------------------
(* The index. *)

Empty ==
    [entries |-> {}, active |-> [s \in Slots |-> None], revocations |-> {},
     operation |-> [kind |-> "empty"]]

Tip == Len(journal)
SnapshotAt(n) == IF n = 0 THEN Empty ELSE journal[n]
Current == SnapshotAt(Tip)

Revoked(s) == {r.manifest : r \in s.revocations}
Sound(s) == s.entries \ Revoked(s)

\* The manifest a slot selects.
Chosen(s, slot) ==
    IF s.active[slot] = None THEN None ELSE s.active[slot].manifest

InUse(s) == {Chosen(s, slot) : slot \in Slots} \ {None}

Selection(p, epoch) == [manifest |-> p.manifest, permit |-> p, epoch |-> epoch]

\* The loop of revoke: the adapter, what is composed of it, and so on until
\* nothing is added.
Affected(s, m) ==
    {n \in s.entries :
        \A C \in SUBSET s.entries :
            (/\ m \in C
             /\ \A k \in s.entries : Terms(k) \intersect C # {} => k \in C)
            => n \in C}

-----------------------------------------------------------------------------
(* What every index must satisfy by itself, as revision n of the bank. *)

UniqueEntries(s) ==
    \A m, k \in s.entries :
        \/ Version(m) = Version(k)
        \/ Lineage(m) = Lineage(k)
        => m = k

RevocationsInOrder(s, n) ==
    /\ \A r \in s.revocations : r.manifest \in s.entries /\ r.at \in 1 .. n
    /\ \A r, q \in s.revocations : r.manifest = q.manifest => r = q

ClosureComplete(s) ==
    \A m \in s.entries : Terms(m) \intersect Revoked(s) # {} => m \in Revoked(s)

ActiveBound(s, n) ==
    \A slot \in Slots :
        LET sel == s.active[slot]
        IN  sel # None =>
                /\ sel.manifest \in Sound(s)
                /\ Slot(sel.manifest) = slot
                /\ sel.epoch \in 1 .. n
                /\ sel.permit \in permits
                /\ sel.permit.manifest = sel.manifest

ValidContract(s, n) ==
    /\ UniqueEntries(s)
    /\ RevocationsInOrder(s, n)
    /\ ClosureComplete(s)
    /\ ActiveBound(s, n)

-----------------------------------------------------------------------------
(* What it must satisfy as the successor of the revision before it. *)

RegistrationDelta(parent, child) ==
    LET op == child.operation
    IN  /\ op.kind \in {"register", "compose"}
        /\ (op.kind = "register") = (Terms(op.manifest) = {})
        /\ child.entries = parent.entries \union {op.manifest}
        /\ child.active = parent.active
        /\ child.revocations = parent.revocations

\* The slot holds the permit under an epoch of its own, other slots are as
\* they were.
Reselected(parent, child, slot, p, n) ==
    child.active = [parent.active EXCEPT ![slot] = Selection(p, n)]

ActivationDelta(parent, child, n) ==
    LET op == child.operation
    IN  /\ op.kind = "activate"
        /\ child.entries = parent.entries
        /\ child.revocations = parent.revocations
        /\ op.permit.manifest \in child.entries
        /\ Reselected(parent, child, Slot(op.permit.manifest), op.permit, n)

RevocationDelta(parent, child, n) ==
    LET op == child.operation
        added == child.revocations \ parent.revocations
    IN  /\ op.kind = "revoke"
        /\ child.entries = parent.entries
        /\ op.root \in op.affected
        /\ parent.revocations \subseteq child.revocations
        /\ {r.manifest : r \in added} = op.affected
        /\ \A r \in added : r.root = op.root /\ r.at = n
        /\ child.active = [slot \in Slots |->
               IF Chosen(parent, slot) \in op.affected THEN None
               ELSE parent.active[slot]]

RollbackDelta(parent, child, n) ==
    LET op == child.operation
    IN  /\ op.kind = "rollback"
        /\ child.entries = parent.entries
        /\ child.revocations = parent.revocations
        /\ op.target \in 1 .. n - 2
        /\ op.from = Chosen(parent, op.slot)
        /\ op.to = Chosen(SnapshotAt(op.target), op.slot)
        /\ \/ /\ op.to # None
              /\ op.permit # None
              /\ op.permit.manifest = op.to
              /\ Reselected(parent, child, op.slot, op.permit, n)
           \/ /\ op.to = None
              /\ op.permit = None
              /\ child.active = [parent.active EXCEPT ![op.slot] = None]

ValidTransition(parent, child, n) ==
    \/ RegistrationDelta(parent, child)
    \/ ActivationDelta(parent, child, n)
    \/ RevocationDelta(parent, child, n)
    \/ RollbackDelta(parent, child, n)

Publishable(child) ==
    /\ Tip < MaxRevisions
    /\ ValidTransition(Current, child, Tip + 1)
    /\ ValidContract(child, Tip + 1)

-----------------------------------------------------------------------------
(* Mutations.  Each takes the lock, reads the tip and builds the next index; *)
(* a request that is refused, or found done already, changes nothing.        *)

Stage(child) ==
    /\ step = "free"
    /\ step' = "publish"
    /\ staged' = child

\* Mutant of Continues: a generation may be skipped.
ContinuesWithGaps(m) ==
    LET new == Content[m]
        same == {k \in Current.entries : Content[k].id = new.id}
    IN  IF same = {} THEN new.generation = 1
        ELSE \E k \in same :
                 /\ new.generation > Content[k].generation
                 /\ new.lineage = Content[k].lineage
                 /\ Slot(m) = Slot(k)

\* Generations of an adapter follow one another in one lineage, for one
\* capability of one receiver; no other adapter of the slot has its delta.
Continues(m) ==
    LET new == Content[m]
        same == {k \in Current.entries : Content[k].id = new.id}
    IN  IF same = {} THEN new.generation = 1
        ELSE \E k \in same :
                 /\ \A j \in same : Content[j].generation <= Content[k].generation
                 /\ new.generation = Content[k].generation + 1
                 /\ new.lineage = Content[k].lineage
                 /\ Slot(m) = Slot(k)

Admissible(m) ==
    /\ \A k \in Current.entries : Version(k) # Version(m)
    /\ Continues(m)
    /\ \A k \in Current.entries :
           /\ Lineage(k) # Lineage(m)
           /\ ~(Slot(k) = Slot(m) /\ Delta(k) = Delta(m))

CommitRegistration(m, kind) ==
    /\ Admissible(m)
    /\ Stage([Current EXCEPT
           !.entries = @ \union {m},
           !.operation = [kind |-> kind, manifest |-> m]])

ImportLora(m) ==
    /\ Terms(m) = {}
    /\ CommitRegistration(m, "register")
    /\ UNCHANGED <<bank, draft, call>>

\* compose_exact reads the bank without the lock and writes the delta and the
\* manifest, which nothing refers to yet.
ComposeExact(m) ==
    /\ draft = None
    /\ Cardinality(Terms(m)) >= 2
    /\ Terms(m) \subseteq Sound(Current)
    /\ \A t \in Terms(m) : Content[t].model = Content[m].model
    /\ draft' = [manifest |-> m, expected |-> Tip]
    /\ UNCHANGED <<bank, writer, call>>

\* Then it takes the lock to register it, if the bank has not moved.
RegisterComposition ==
    /\ draft # None
    /\ draft.expected = Tip
    /\ CommitRegistration(draft.manifest, "compose")
    /\ draft' = None
    /\ UNCHANGED <<bank, call>>

\* The bank moved, the registration is refused, or the process died.
GiveUpComposition ==
    /\ draft # None
    /\ draft' = None
    /\ UNCHANGED <<bank, writer, call>>

\* An authorization is good for the index it was issued against.
AuthorizeGovernedPromotion(m) ==
    /\ step = "free"
    /\ Cardinality(permits) < MaxPermits
    /\ m \in Sound(Current)
    /\ permits' = permits \union {[manifest |-> m, against |-> Tip]}
    /\ UNCHANGED <<journal, head, writer, draft, call>>

\* Mutant of IssuedAgainstCurrent: any authorization of the bank will do.
IssuedAgainstAny(p) == p.against <= Tip

IssuedAgainstCurrent(p) == p.against = Tip

Activate(p) ==
    LET m == p.manifest
    IN  /\ p \in permits
        /\ m \in Sound(Current)
        /\ IssuedAgainstCurrent(p)
        /\ Stage([Current EXCEPT
               !.active[Slot(m)] = Selection(p, Tip + 1),
               !.operation = [kind |-> "activate", permit |-> p]])
        /\ UNCHANGED <<bank, draft, call>>

Revoke(m) ==
    LET affected == Affected(Current, m)
        added == [manifest : affected \ Revoked(Current), at : {Tip + 1},
                  root : {m}]
    IN  /\ m \in Sound(Current)
        /\ Stage([Current EXCEPT
               !.revocations = @ \union added,
               !.active = [slot \in Slots |->
                   IF Chosen(Current, slot) \in affected THEN None
                   ELSE Current.active[slot]],
               !.operation = [kind |-> "revoke", root |-> m,
                              affected |-> affected]])
        /\ UNCHANGED <<bank, draft, call>>

\* Mutant of Restored: the new authorization, under the epoch of the old one.
RestoredUnderOldEpoch(slot, n, p) ==
    IF p = None THEN None
    ELSE Selection(p, SnapshotAt(n).active[slot].epoch)

\* The selection of revision n comes back under the permit and a new epoch.
Restored(slot, n, p) == IF p = None THEN None ELSE Selection(p, Tip + 1)

\* Back to what the slot selected at revision n: to an adapter, under a new
\* authorization, or to none, under no authorization.
Rollback(slot, n, p) ==
    LET from == Chosen(Current, slot)
        to == Chosen(SnapshotAt(n), slot)
    IN  /\ n < Tip
        /\ from # to
        /\ \/ to = None /\ p = None
           \/ /\ to # None
              /\ to \notin Revoked(Current)
              /\ p \in permits
              /\ p.manifest = to
              /\ IssuedAgainstCurrent(p)
        /\ Stage([Current EXCEPT
               !.active[slot] = Restored(slot, n, p),
               !.operation = [kind |-> "rollback", slot |-> slot, target |-> n,
                              from |-> from, to |-> to, permit |-> p]])
        /\ UNCHANGED <<bank, draft, call>>

-----------------------------------------------------------------------------
(* Publication. *)

\* Mutant of Release: what was staged stays.
ReleaseKeepsStaged == step' = "free" /\ UNCHANGED staged

Release == step' = "free" /\ staged' = None

RefusePublication ==
    /\ step = "publish"
    /\ ~Publishable(staged)
    /\ Release
    /\ UNCHANGED <<bank, draft, call>>

\* Mutant of PersistRevisionCommit: the head is replaced first.
PersistAfterHead ==
    /\ step = "publish"
    /\ Publishable(staged)
    /\ \/ /\ head # Tip + 1
          /\ head' = Tip + 1
          /\ UNCHANGED <<journal, step, staged>>
       \/ /\ head = Tip + 1
          /\ journal' = Append(journal, staged)
          /\ step' = "head"
          /\ staged' = None
          /\ UNCHANGED head
    /\ UNCHANGED <<permits, draft, call>>

PersistRevisionCommit ==
    /\ step = "publish"
    /\ Publishable(staged)
    /\ journal' = Append(journal, staged)
    /\ step' = "head"
    /\ staged' = None
    /\ UNCHANGED <<head, permits, draft, call>>

ReplaceHead ==
    /\ step = "head"
    /\ head' = Tip
    /\ Release
    /\ UNCHANGED <<journal, permits, draft, call>>

\* The process dies or a call fails; the kernel drops the lock.
Crash ==
    /\ step # "free"
    /\ Release
    /\ UNCHANGED <<bank, draft, call>>

\* Whoever keeps the private root removes the cache.
LoseHead ==
    /\ head # 0
    /\ head' = 0
    /\ UNCHANGED <<journal, permits, writer, draft, call>>

-----------------------------------------------------------------------------
(* resolve_active, without the lock: the journal first, then the head. *)

NoCall == [phase |-> "idle", tip |-> 0, selection |-> None]

AuthenticateRevisionTip ==
    /\ reader = NoCall
    /\ calls < MaxCalls
    /\ calls' = calls + 1
    /\ reader' = [phase |-> "listed", tip |-> Tip, selection |-> None]
    /\ UNCHANGED <<bank, writer, draft>>

\* A head is good if it names this revision or one before it.
HeadAcceptable == head <= reader.tip

\* Mutant of Authoritative: the cache is believed.
AuthoritativeHead == SnapshotAt(head)

\* The index that answers is the one of the tip, whatever the head names.
Authoritative == SnapshotAt(reader.tip)

AuthenticateHeadCache(slot) ==
    /\ reader.phase = "listed"
    /\ reader' =
           IF ~HeadAcceptable THEN [reader EXCEPT !.phase = "refused"]
           ELSE IF Authoritative.active[slot] = None
                THEN [reader EXCEPT !.phase = "inactive"]
                ELSE [reader EXCEPT !.phase = "resolved",
                                    !.selection = Authoritative.active[slot]]
    /\ UNCHANGED <<bank, writer, draft, calls>>

ReturnFromResolve ==
    /\ reader.phase \in {"refused", "inactive", "resolved"}
    /\ reader' = NoCall
    /\ UNCHANGED <<bank, writer, draft, calls>>

-----------------------------------------------------------------------------
Init ==
    /\ journal = <<>>
    /\ head = 0
    /\ permits = {}
    /\ step = "free"
    /\ staged = None
    /\ draft = None
    /\ reader = NoCall
    /\ calls = 0

Mutate ==
    \/ \E m \in Manifests :
           \/ ImportLora(m)
           \/ AuthorizeGovernedPromotion(m)
           \/ Revoke(m)
    \/ RegisterComposition
    \/ \E p \in permits : Activate(p)
    \/ \E slot \in Slots, n \in 1 .. Tip, p \in permits \union {None} :
           Rollback(slot, n, p)

Publish == RefusePublication \/ PersistRevisionCommit \/ ReplaceHead

Compose == (\E m \in Manifests : ComposeExact(m)) \/ GiveUpComposition

Resolve ==
    \/ AuthenticateRevisionTip
    \/ \E slot \in Slots : AuthenticateHeadCache(slot)
    \/ ReturnFromResolve

Next == Mutate \/ Publish \/ Compose \/ Resolve \/ Crash \/ LoseHead

Spec == Init /\ [][Next]_vars

-----------------------------------------------------------------------------
(* Types. *)

Permits == [manifest : Manifests, against : Nat]
Selections == [manifest : Manifests, permit : Permits, epoch : Nat]
Revocations == [manifest : Manifests, at : Nat, root : Manifests]
Drafts == [manifest : Manifests, expected : Nat]

Operations ==
    [kind : {"empty"}]
        \union [kind : {"register", "compose"}, manifest : Manifests]
        \union [kind : {"activate"}, permit : Permits]
        \union [kind : {"revoke"}, root : Manifests, affected : SUBSET Manifests]
        \union [kind : {"rollback"}, slot : Slots, target : Nat,
                from : Manifests \union {None}, to : Manifests \union {None},
                permit : Permits \union {None}]

Snapshots ==
    [entries : SUBSET Manifests, active : [Slots -> Selections \union {None}],
     revocations : SUBSET Revocations, operation : Operations]

\* None stands for no value of any of these kinds.
ASSUME NoneAssumption ==
    None \notin Manifests \union Permits \union Selections \union Drafts
                \union Snapshots

Calls == [phase : {"idle", "listed", "refused", "inactive", "resolved"},
          tip : Nat, selection : Selections \union {None}]

\* Every file, and the locals of a mutation, a composition and a resolution,
\* have their types; an index is staged exactly while it is being published;
\* the cache and the calls name revisions of the journal.
TypeOK ==
    /\ journal \in Seq(Snapshots)
    /\ head \in Nat
    /\ permits \in SUBSET Permits
    /\ step \in {"free", "publish", "head"}
    /\ staged \in Snapshots \union {None}
    /\ step = "publish" <=> staged # None
    /\ draft \in Drafts \union {None}
    /\ reader \in Calls
    /\ calls \in Nat
    /\ reader.tip <= Tip
    /\ reader.phase = "resolved" <=> reader.selection # None

-----------------------------------------------------------------------------
(* Properties. *)

\* The bank keeps the promise of AdapterAuthority: what may be executed, and
\* under which authorization, is decided by the last revision of the journal
\* alone, whatever the cache, a draft or a dead writer left behind.
Promise == INSTANCE AdapterAuthority WITH
    registered <- Current.entries,
    revoked <- Revoked(Current),
    active <- InUse(Current),
    fresh <- {p.manifest : p \in {q \in permits : IssuedAgainstCurrent(q)}}
                 \intersect Sound(Current)

KeepsPromise == Promise!Spec

\* A resolution never hands out an adapter that rests, itself or through
\* anything it is composed of, on an adapter revoked before the call began,
\* even when head.json still names a revision at which it was in use
\* (the test stale_head_cache_cannot_replay_a_revoked_adapter).
ResolutionOnSoundFooting ==
    reader.phase = "resolved" =>
        Footing(reader.selection.manifest)
            \intersect Revoked(SnapshotAt(reader.tip)) = {}

\* Readers take a head ahead of the journal for tampering.  A death at any
\* point of a publication leaves none: a call is refused only if a revision
\* was published while it ran, and the next call goes through.
RefusalMeansOvertaken == reader.phase = "refused" => reader.tip < Tip

\* What an operation builds, the check every reader makes accepts: the two are
\* written apart, and an index that is built and refused is refused on every
\* retry.  The journal may be full, and RevocationAlwaysTakes says what else.
BuiltIsAccepted ==
    step = "publish" =>
        \/ Tip = MaxRevisions
        \/ Publishable(staged)
        \/ /\ staged.operation.kind = "revoke"
           /\ staged.operation.affected \intersect Revoked(Current) # {}

\* Generations of one adapter are 1, 2, 3, ... of one lineage, for one
\* capability of one receiver, and no two adapters of a slot are the same
\* delta, through any order of imports and compositions.
LineageUnbroken ==
    \A m \in Current.entries :
        /\ Content[m].generation > 1 =>
               \E k \in Current.entries :
                   /\ Version(k) = <<Content[m].id, Content[m].generation - 1>>
                   /\ Content[k].lineage = Content[m].lineage
                   /\ Slot(k) = Slot(m)
        /\ \A k \in Current.entries :
               Slot(k) = Slot(m) /\ Delta(k) = Delta(m) => k = m

\* adapter_bank.rs says "revocation is sticky, composition dependencies are
\* revoked transitively" (6-7): a registered adapter can be revoked.
RevocationAlwaysTakes ==
    step = "publish" /\ staged.operation.kind = "revoke" =>
        Tip = MaxRevisions \/ Publishable(staged)
=============================================================================
