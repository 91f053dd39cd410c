-------------------------- MODULE AdapterBankProofs --------------------------
(***************************************************************************)
(* Proofs about AdapterBank, for every set of manifests and every bound:    *)
(* the types, what the journal and the operations under way always satisfy, *)
(* and that the bank implements AdapterAuthority.                           *)
(***************************************************************************)
EXTENDS AdapterBank, FiniteSetTheorems, TLAPS

-----------------------------------------------------------------------------
(* Types. *)

\* An index of no revision has the shape of every other.
LEMMA EmptyType == Empty \in Snapshots
BY DEF Empty, Snapshots, Operations

LEMMA TipType == ASSUME TypeOK PROVE Tip \in Nat
BY DEF TypeOK, Tip

LEMMA SnapshotType ==
    ASSUME TypeOK, NEW n \in 0 .. Tip
    PROVE  SnapshotAt(n) \in Snapshots
BY EmptyType DEF TypeOK, Tip, SnapshotAt

LEMMA CurrentType == ASSUME TypeOK PROVE Current \in Snapshots
BY SnapshotType, TipType DEF Current

LEMMA SlotType == ASSUME NEW m \in Manifests PROVE Slot(m) \in Slots
BY DEF Slots

LEMMA ChosenType ==
    ASSUME NEW s \in Snapshots, NEW slot \in Slots
    PROVE  Chosen(s, slot) \in Manifests \union {None}
BY DEF Snapshots, Selections, Chosen

LEMMA SelectionType ==
    ASSUME NEW p \in Permits, NEW e \in Nat
    PROVE  /\ Selection(p, e) \in Selections
           /\ Selection(p, e) # None
BY NoneAssumption DEF Permits, Selections, Selection

LEMMA SnapshotFields ==
    ASSUME NEW s \in Snapshots
    PROVE  /\ s.entries \subseteq Manifests
           /\ s.active \in [Slots -> Selections \union {None}]
           /\ s.revocations \subseteq Revocations
           /\ s.operation \in Operations
           /\ s = [entries |-> s.entries, active |-> s.active,
                   revocations |-> s.revocations, operation |-> s.operation]
BY DEF Snapshots

\* Staging an index of the right type keeps the types.
LEMMA StageKeepsTypes ==
    ASSUME TypeOK, NEW child \in Snapshots, Stage(child),
           UNCHANGED <<bank, call>>, draft' \in {draft, None}
    PROVE  TypeOK'
<1>1. child # None
    BY NoneAssumption
<1> QED BY <1>1 DEF TypeOK, Stage, bank, call, Tip

LEMMA RegistrationTypes ==
    ASSUME TypeOK, NEW m \in Manifests, NEW kind \in {"register", "compose"},
           CommitRegistration(m, kind), UNCHANGED <<bank, call>>,
           draft' \in {draft, None}
    PROVE  TypeOK'
<1> DEFINE child == [Current EXCEPT !.entries = @ \union {m},
                                    !.operation = [kind |-> kind, manifest |-> m]]
<1>1. [kind |-> kind, manifest |-> m] \in Operations
    BY DEF Operations
<1>2. child \in Snapshots
    BY <1>1, CurrentType DEF Snapshots
<1>3. Stage(child)
    BY DEF CommitRegistration
<1> QED BY <1>2, <1>3, StageKeepsTypes

LEMMA ActivateTypes ==
    ASSUME TypeOK, NEW p \in permits, Activate(p)
    PROVE  TypeOK'
<1> DEFINE m == p.manifest
           child == [Current EXCEPT !.active[Slot(m)] = Selection(p, Tip + 1),
                                    !.operation = [kind |-> "activate", permit |-> p]]
<1>1. p \in Permits /\ m \in Manifests
    BY DEF TypeOK, Permits
<1>2. [kind |-> "activate", permit |-> p] \in Operations
    BY <1>1 DEF Operations
<1>3. Selection(p, Tip + 1) \in Selections
    BY <1>1, TipType, SelectionType
<1>4. child \in Snapshots
    BY <1>2, <1>3, CurrentType DEF Snapshots
<1>5. Stage(child) /\ UNCHANGED <<bank, draft, call>>
    BY DEF Activate
<1> QED BY <1>4, <1>5, StageKeepsTypes

LEMMA RevokeTypes ==
    ASSUME TypeOK, NEW m \in Manifests, Revoke(m)
    PROVE  TypeOK'
<1> DEFINE affected == Affected(Current, m)
           added == [manifest : affected \ Revoked(Current), at : {Tip + 1},
                     root : {m}]
           active == [slot \in Slots |->
                         IF Chosen(Current, slot) \in affected THEN None
                         ELSE Current.active[slot]]
           op == [kind |-> "revoke", root |-> m, affected |-> affected]
           child == [Current EXCEPT !.revocations = @ \union added,
                                    !.active = active, !.operation = op]
<1>1. affected \subseteq Manifests
    BY CurrentType, SnapshotFields DEF Affected
<1>2. added \subseteq Revocations
    BY <1>1, TipType DEF Revocations
<1>3. op \in Operations
    BY <1>1 DEF Operations
<1>4. active \in [Slots -> Selections \union {None}]
    BY CurrentType, SnapshotFields
<1> HIDE DEF affected, added, active, op
<1>5. child \in Snapshots
    BY <1>2, <1>3, <1>4, CurrentType DEF Snapshots
<1>6. Stage(child) /\ UNCHANGED <<bank, draft, call>>
    BY DEF Revoke, affected, added, active, op
<1> HIDE DEF child
<1> QED BY <1>5, <1>6, StageKeepsTypes

LEMMA RestoredType ==
    ASSUME TypeOK, NEW slot, NEW n, NEW p \in Permits \union {None}
    PROVE  Restored(slot, n, p) \in Selections \union {None}
BY TipType, SelectionType DEF Restored

LEMMA RollbackTypes ==
    ASSUME TypeOK, NEW slot \in Slots, NEW n \in 1 .. Tip,
           NEW p \in permits \union {None}, Rollback(slot, n, p)
    PROVE  TypeOK'
<1> DEFINE op == [kind |-> "rollback", slot |-> slot, target |-> n,
                  from |-> Chosen(Current, slot),
                  to |-> Chosen(SnapshotAt(n), slot), permit |-> p]
           child == [Current EXCEPT !.active[slot] = Restored(slot, n, p),
                                    !.operation = op]
<1>1. p \in Permits \union {None}
    BY DEF TypeOK
<1>2. n \in Nat /\ SnapshotAt(n) \in Snapshots
    BY TipType, SnapshotType
<1>3. op \in Operations
    BY <1>1, <1>2, CurrentType, ChosenType DEF Operations
<1>4. Restored(slot, n, p) \in Selections \union {None}
    BY <1>1, RestoredType
<1> HIDE DEF op
<1>5. child \in Snapshots
    BY <1>3, <1>4, CurrentType DEF Snapshots
<1>6. Stage(child) /\ UNCHANGED <<bank, draft, call>>
    BY DEF Rollback, op
<1> QED BY <1>5, <1>6, StageKeepsTypes

LEMMA ResolveTypes ==
    ASSUME TypeOK, Resolve
    PROVE  TypeOK'
<1>1. CASE AuthenticateRevisionTip
    BY <1>1, TipType DEF TypeOK, AuthenticateRevisionTip, Calls, NoCall, Tip,
       bank, writer
<1>2. ASSUME NEW slot \in Slots, AuthenticateHeadCache(slot)
      PROVE  TypeOK'
  <2>1. reader.tip \in 0 .. Tip
      BY TipType DEF TypeOK, Calls
  <2>2. Authoritative.active[slot] \in Selections \union {None}
      BY <2>1, SnapshotType, SnapshotFields DEF Authoritative
  <2> QED BY <1>2, <2>2 DEF TypeOK, AuthenticateHeadCache, Calls, Tip, bank, writer
<1>3. CASE ReturnFromResolve
    BY <1>3 DEF TypeOK, ReturnFromResolve, Calls, NoCall, Tip, bank, writer
<1> QED BY <1>1, <1>2, <1>3 DEF Resolve

LEMMA PublishTypes ==
    ASSUME TypeOK, Publish \/ Crash \/ LoseHead
    PROVE  TypeOK'
<1>1. CASE RefusePublication \/ Crash
    BY <1>1 DEF TypeOK, RefusePublication, Crash, Release, bank, call, Tip
<1>2. CASE PersistRevisionCommit
  <2>1. staged \in Snapshots /\ journal \in Seq(Snapshots)
      BY <1>2 DEF TypeOK, PersistRevisionCommit
  <2>2. journal' \in Seq(Snapshots) /\ Len(journal') = Len(journal) + 1
      BY <1>2, <2>1 DEF PersistRevisionCommit
  <2>3. reader.tip \in Nat
      BY DEF TypeOK, Calls
  <2>4. reader'.tip <= Tip'
      BY <1>2, <2>2, <2>3, TipType DEF TypeOK, PersistRevisionCommit, call, Tip
  <2> QED BY <1>2, <2>2, <2>4 DEF TypeOK, PersistRevisionCommit, call
<1>3. CASE ReplaceHead
    BY <1>3, TipType DEF TypeOK, ReplaceHead, Release, call, Tip
<1>4. CASE LoseHead
    BY <1>4 DEF TypeOK, LoseHead, writer, call, Tip
<1> QED BY <1>1, <1>2, <1>3, <1>4 DEF Publish

LEMMA ComposeTypes ==
    ASSUME TypeOK, Compose
    PROVE  TypeOK'
BY TipType DEF TypeOK, Compose, ComposeExact, GiveUpComposition, Drafts, bank,
   writer, call, Tip

LEMMA AuthorizeTypes ==
    ASSUME TypeOK, NEW m \in Manifests, AuthorizeGovernedPromotion(m)
    PROVE  TypeOK'
BY TipType DEF TypeOK, AuthorizeGovernedPromotion, Permits, writer, call, Tip

LEMMA NextTypes ==
    ASSUME TypeOK, [Next]_vars
    PROVE  TypeOK'
<1>1. CASE Mutate
  <2>1. ASSUME NEW m \in Manifests, ImportLora(m) PROVE TypeOK'
      BY <2>1, RegistrationTypes DEF ImportLora
  <2>2. ASSUME NEW m \in Manifests, AuthorizeGovernedPromotion(m) PROVE TypeOK'
      BY <2>2, AuthorizeTypes
  <2>3. ASSUME NEW m \in Manifests, Revoke(m) PROVE TypeOK'
      BY <2>3, RevokeTypes
  <2>4. CASE RegisterComposition
    <3>1. draft.manifest \in Manifests
        BY <2>4 DEF RegisterComposition, TypeOK, Drafts
    <3> QED BY <2>4, <3>1, RegistrationTypes DEF RegisterComposition
  <2>5. ASSUME NEW p \in permits, Activate(p) PROVE TypeOK'
      BY <2>5, ActivateTypes
  <2>6. ASSUME NEW slot \in Slots, NEW n \in 1 .. Tip,
               NEW p \in permits \union {None}, Rollback(slot, n, p)
        PROVE  TypeOK'
      BY <2>6, RollbackTypes
  <2> QED BY <1>1, <2>1, <2>2, <2>3, <2>4, <2>5, <2>6 DEF Mutate
<1>2. CASE Publish \/ Crash \/ LoseHead
    BY <1>2, PublishTypes
<1>3. CASE Compose
    BY <1>3, ComposeTypes
<1>4. CASE Resolve
    BY <1>4, ResolveTypes
<1>5. CASE UNCHANGED vars
    BY <1>5 DEF vars, bank, writer, call, TypeOK, Tip
<1> QED BY <1>1, <1>2, <1>3, <1>4, <1>5 DEF Next

LEMMA InitTypes == Init => TypeOK
BY DEF Init, TypeOK, Calls, NoCall, Tip

\* Every file of the bank, and every local of the operations on it, keeps its
\* type.
THEOREM TypeCorrect == Spec => []TypeOK
<1>1. TypeOK /\ [Next]_vars => TypeOK'
    BY NextTypes
<1> QED BY InitTypes, <1>1, PTL DEF Spec

-----------------------------------------------------------------------------
(* What rests on what. *)

\* The footing of an adapter lies in every set that holds the adapter and,
\* with each member, its terms.
LEMMA FootingInClosed ==
    ASSUME NEW m \in Manifests, NEW C \in SUBSET Manifests, m \in C,
           \A k \in C : Terms(k) \subseteq C
    PROVE  Footing(m) \subseteq C
BY DEF Footing

LEMMA FootingOfItself == ASSUME NEW m \in Manifests PROVE m \in Footing(m)
BY DEF Footing

LEMMA FootingThroughTerm ==
    ASSUME NEW k \in Manifests, NEW t \in Terms(k), NEW m \in Footing(t)
    PROVE  m \in Footing(k)
BY DEF Footing

-----------------------------------------------------------------------------
(* The invariant. *)

TermsClosed(s) == \A m \in s.entries : Terms(m) \subseteq s.entries

SelectionsSound(s) ==
    \A slot \in Slots :
        Chosen(s, slot) # None =>
            Chosen(s, slot) \in Sound(s) /\ Slot(Chosen(s, slot)) = slot

IndexSound(s) == TermsClosed(s) /\ ClosureComplete(s) /\ SelectionsSound(s)

JournalSound == \A n \in 0 .. Tip : IndexSound(SnapshotAt(n))

\* What a mutation makes of the index before it.
Registers(parent, child) ==
    \E m \in Manifests \ parent.entries :
        /\ Terms(m) \subseteq Sound(parent)
        /\ child.entries = parent.entries \union {m}
        /\ child.revocations = parent.revocations
        /\ child.active = parent.active

Selects(parent, child) ==
    \E p \in permits, slot \in Slots :
        /\ IssuedAgainstCurrent(p)
        /\ child.entries = parent.entries
        /\ child.revocations = parent.revocations
        /\ child.active = [parent.active EXCEPT ![slot] = Selection(p, Tip + 1)]

Deselects(parent, child) ==
    \E slot \in Slots :
        /\ Chosen(parent, slot) # None
        /\ child.entries = parent.entries
        /\ child.revocations = parent.revocations
        /\ child.active = [parent.active EXCEPT ![slot] = None]

Revokes(parent, child) ==
    \E m \in Sound(parent) :
        /\ child.entries = parent.entries
        /\ Revoked(child) = Revoked(parent) \union Affected(parent, m)
        /\ child.active = [slot \in Slots |->
               IF Chosen(parent, slot) \in Affected(parent, m) THEN None
               ELSE parent.active[slot]]

Built(parent, child) ==
    \/ Registers(parent, child)
    \/ Selects(parent, child)
    \/ Deselects(parent, child)
    \/ Revokes(parent, child)

StagedBuilt == step = "publish" => Built(Current, staged)

DraftSound ==
    draft # None =>
        /\ draft.expected <= Tip
        /\ draft.expected = Tip => Terms(draft.manifest) \subseteq Sound(Current)

PermitsIssued == \A p \in permits : p.against <= Tip

HeadBehind == head <= Tip

ResolvedFromTip ==
    reader.phase = "resolved" =>
        \E slot \in Slots : reader.selection = SnapshotAt(reader.tip).active[slot]

BankInv ==
    /\ JournalSound
    /\ StagedBuilt
    /\ DraftSound
    /\ PermitsIssued
    /\ HeadBehind
    /\ ResolvedFromTip
    /\ RefusalMeansOvertaken

-----------------------------------------------------------------------------
(* Each part of the invariant holds of the index it is first about. *)

LEMMA EmptySound == IndexSound(Empty)
BY DEF IndexSound, TermsClosed, ClosureComplete, SelectionsSound, Chosen, Empty

LEMMA TipSound == ASSUME TypeOK, JournalSound PROVE IndexSound(Current)
BY TipType DEF JournalSound, Current

\* The check of a new index, and how it was built, make it sound.
LEMMA BuiltSound ==
    ASSUME TypeOK, NEW parent \in Snapshots, NEW child \in Snapshots, NEW n,
           IndexSound(parent), Built(parent, child), ValidContract(child, n)
    PROVE  IndexSound(child)
<1>1. TermsClosed(child)
  <2>1. CASE Registers(parent, child)
      BY <2>1 DEF Registers, IndexSound, TermsClosed, Sound
  <2>2. CASE child.entries = parent.entries
      BY <2>2 DEF IndexSound, TermsClosed
  <2> QED BY <2>1, <2>2 DEF Built, Selects, Deselects, Revokes
<1>2. SelectionsSound(child)
    BY DEF ValidContract, ActiveBound, SelectionsSound, Chosen
<1> QED BY <1>1, <1>2 DEF IndexSound, ValidContract

\* After a commit the staged index is the tip, and the journal before it is
\* what it was.
LEMMA Committed ==
    ASSUME TypeOK, PersistRevisionCommit
    PROVE  /\ staged \in Snapshots
           /\ Tip' = Tip + 1
           /\ Current' = staged
           /\ \A n \in 0 .. Tip : SnapshotAt(n)' = SnapshotAt(n)
<1>1. staged \in Snapshots /\ journal \in Seq(Snapshots)
    BY DEF TypeOK, PersistRevisionCommit
<1>2. journal' = Append(journal, staged)
    BY DEF PersistRevisionCommit
<1>3. Tip' = Tip + 1 /\ Tip \in Nat
    BY <1>1, <1>2 DEF Tip
<1>4. journal'[Tip + 1] = staged
    BY <1>1, <1>2 DEF Tip
<1>5. Current' = staged
    BY <1>3, <1>4 DEF Current, SnapshotAt
<1>6. ASSUME NEW n \in 0 .. Tip
      PROVE  SnapshotAt(n)' = SnapshotAt(n)
    BY <1>1, <1>2, <1>6 DEF SnapshotAt, Tip
<1> QED BY <1>1, <1>3, <1>5, <1>6

\* What every step other than a commit leaves alone.
LEMMA Uncommitted ==
    ASSUME UNCHANGED journal
    PROVE  /\ Tip' = Tip
           /\ Current' = Current
           /\ \A n : SnapshotAt(n)' = SnapshotAt(n)
           /\ JournalSound => JournalSound'
BY DEF Tip, Current, SnapshotAt, JournalSound

-----------------------------------------------------------------------------
(* What mutations stage. *)

LEMMA RegistrationBuilt ==
    ASSUME TypeOK, NEW m \in Manifests, NEW kind, CommitRegistration(m, kind),
           Terms(m) \subseteq Sound(Current)
    PROVE  Registers(Current, staged')
<1>1. m \notin Current.entries
    BY DEF CommitRegistration, Admissible
<1>2. staged' = [Current EXCEPT !.entries = @ \union {m},
                                !.operation = [kind |-> kind, manifest |-> m]]
    BY DEF CommitRegistration, Stage
<1>3. /\ staged'.entries = Current.entries \union {m}
      /\ staged'.active = Current.active
      /\ staged'.revocations = Current.revocations
    BY <1>2, CurrentType, SnapshotFields
<1> QED BY <1>1, <1>3 DEF Registers

LEMMA ActivateBuilt ==
    ASSUME TypeOK, NEW p \in permits, Activate(p)
    PROVE  Selects(Current, staged')
<1>1. Slot(p.manifest) \in Slots
    BY SlotType DEF TypeOK, Permits
<1>2. /\ staged'.entries = Current.entries
      /\ staged'.revocations = Current.revocations
      /\ staged'.active = [Current.active EXCEPT
                               ![Slot(p.manifest)] = Selection(p, Tip + 1)]
    BY CurrentType, SnapshotFields DEF Activate, Stage
<1> QED BY <1>1, <1>2 DEF Activate, Selects

\* What revoke stages, field by field.
LEMMA RevokeStages ==
    ASSUME TypeOK, NEW m \in Manifests, Revoke(m)
    PROVE  LET affected == Affected(Current, m)
               fresh == affected \ Revoked(Current)
               added == [manifest : fresh, at : {Tip + 1}, root : {m}]
           IN  /\ staged'.entries = Current.entries
               /\ staged'.revocations = Current.revocations \union added
               /\ staged'.active = [slot \in Slots |->
                      IF Chosen(Current, slot) \in affected THEN None
                      ELSE Current.active[slot]]
               /\ staged'.operation = [kind |-> "revoke", root |-> m,
                                       affected |-> affected]
               /\ {r.manifest : r \in added} = fresh
               /\ Revoked(staged') = Revoked(Current) \union affected
<1> DEFINE affected == Affected(Current, m)
           fresh == affected \ Revoked(Current)
           added == [manifest : fresh, at : {Tip + 1}, root : {m}]
           active == [slot \in Slots |->
                         IF Chosen(Current, slot) \in affected THEN None
                         ELSE Current.active[slot]]
<1>1. /\ staged'.entries = Current.entries
      /\ staged'.revocations = Current.revocations \union added
      /\ staged'.active = active
      /\ staged'.operation = [kind |-> "revoke", root |-> m, affected |-> affected]
    BY CurrentType, SnapshotFields DEF Revoke, Stage
<1>2. {r.manifest : r \in added} = fresh
  <2>1. ASSUME NEW k \in fresh
        PROVE  k \in {r.manifest : r \in added}
      <3>1. \E r \in added : r.manifest = k
        <4>1. [manifest |-> k, at |-> Tip + 1, root |-> m] \in added
            OBVIOUS
        <4>2. [manifest |-> k, at |-> Tip + 1, root |-> m].manifest = k
            OBVIOUS
        <4> HIDE DEF added
        <4> QED BY <4>1, <4>2
      <3> HIDE DEF added
      <3> QED BY <3>1
  <2>2. \A r \in added : r.manifest \in fresh
      OBVIOUS
  <2> QED BY <2>1, <2>2
<1> HIDE DEF added
<1>3. Revoked(staged') = Revoked(Current) \union affected
    BY <1>1, <1>2 DEF Revoked
<1> QED BY <1>1, <1>2, <1>3 DEF added

LEMMA RevokeBuilt ==
    ASSUME TypeOK, NEW m \in Manifests, Revoke(m)
    PROVE  Revokes(Current, staged')
BY RevokeStages DEF Revokes, Revoke

LEMMA RollbackBuilt ==
    ASSUME TypeOK, NEW slot \in Slots, NEW n, NEW p \in permits \union {None},
           Rollback(slot, n, p)
    PROVE  Selects(Current, staged') \/ Deselects(Current, staged')
<1>1. /\ staged'.entries = Current.entries
      /\ staged'.revocations = Current.revocations
      /\ staged'.active = [Current.active EXCEPT ![slot] = Restored(slot, n, p)]
    BY CurrentType, SnapshotFields DEF Rollback, Stage
<1>2. CASE p = None
  <2>1. Chosen(Current, slot) # None
      <3>1. None \notin permits
          BY NoneAssumption DEF TypeOK
      <3> QED BY <1>2, <3>1 DEF Rollback
  <2> QED BY <1>1, <1>2, <2>1 DEF Deselects, Restored
<1>3. CASE p # None
  <2>1. p \in permits /\ IssuedAgainstCurrent(p)
      BY <1>3 DEF Rollback
  <2> QED BY <1>1, <1>3, <2>1 DEF Selects, Restored
<1> QED BY <1>2, <1>3

-----------------------------------------------------------------------------
(* The invariant is inductive. *)

LEMMA InitInv == Init => BankInv
<1> SUFFICES ASSUME Init PROVE BankInv
    OBVIOUS
<1>1. Tip = 0 /\ Current = Empty
    BY DEF Init, Tip, Current, SnapshotAt
<1>2. JournalSound
    BY <1>1, EmptySound DEF JournalSound, SnapshotAt
<1> QED BY <1>1, <1>2 DEF Init, BankInv, StagedBuilt, DraftSound, PermitsIssued,
       HeadBehind, ResolvedFromTip, RefusalMeansOvertaken, NoCall

\* A mutation touches only what it stages and, for a composition, the draft.
LEMMA StageInv ==
    ASSUME TypeOK, BankInv, Built(Current, staged'), UNCHANGED <<bank, call>>,
           draft' \in {draft, None}
    PROVE  BankInv'
<1>1. UNCHANGED journal
    BY DEF bank
<1>2. Tip' = Tip /\ Current' = Current /\ JournalSound'
    BY <1>1, Uncommitted DEF BankInv
<1>3. \A n : SnapshotAt(n)' = SnapshotAt(n)
    BY <1>1, Uncommitted
<1>4. StagedBuilt'
  <2>1. CASE Registers(Current, staged')
      BY <1>2, <2>1 DEF StagedBuilt, Built, Registers, Sound, Revoked
  <2>2. CASE Selects(Current, staged')
      BY <1>2, <2>2 DEF StagedBuilt, Built, Selects, bank, IssuedAgainstCurrent
  <2>3. CASE Deselects(Current, staged')
      BY <1>2, <2>3 DEF StagedBuilt, Built, Deselects, Chosen
  <2>4. CASE Revokes(Current, staged')
      BY <1>2, <2>4 DEF StagedBuilt, Built, Revokes, Sound, Revoked, Chosen, Affected
  <2> QED BY <2>1, <2>2, <2>3, <2>4 DEF Built
<1>5. DraftSound'
    BY <1>2 DEF BankInv, DraftSound
<1>6. PermitsIssued' /\ HeadBehind'
    BY <1>2 DEF BankInv, PermitsIssued, HeadBehind, bank
<1>7. ResolvedFromTip' /\ RefusalMeansOvertaken'
    BY <1>2, <1>3 DEF BankInv, ResolvedFromTip, RefusalMeansOvertaken, call
<1> QED BY <1>2, <1>4, <1>5, <1>6, <1>7 DEF BankInv

LEMMA MutateInv ==
    ASSUME TypeOK, BankInv, Mutate
    PROVE  BankInv'
<1>1. ASSUME NEW m \in Manifests, ImportLora(m) PROVE BankInv'
  <2>1. Registers(Current, staged')
      BY <1>1, RegistrationBuilt DEF ImportLora
  <2> QED BY <1>1, <2>1, StageInv DEF ImportLora, Built
<1>2. ASSUME NEW m \in Manifests, AuthorizeGovernedPromotion(m) PROVE BankInv'
  <2>1. UNCHANGED <<journal, head, writer, draft, call>> /\ step # "publish"
      BY <1>2 DEF AuthorizeGovernedPromotion
  <2>2. /\ Tip' = Tip /\ Current' = Current /\ JournalSound'
        /\ \A n : SnapshotAt(n)' = SnapshotAt(n)
      BY <2>1, Uncommitted DEF BankInv
  <2>3. PermitsIssued'
      BY <1>2, <2>2, TipType DEF BankInv, PermitsIssued, AuthorizeGovernedPromotion
  <2> QED BY <2>1, <2>2, <2>3 DEF BankInv, StagedBuilt, DraftSound, HeadBehind,
         ResolvedFromTip, RefusalMeansOvertaken, writer, call
<1>3. ASSUME NEW m \in Manifests, Revoke(m) PROVE BankInv'
    BY <1>3, RevokeBuilt, StageInv DEF Revoke, Built
<1>4. CASE RegisterComposition
  <2>1. /\ draft.manifest \in Manifests
        /\ Terms(draft.manifest) \subseteq Sound(Current)
      BY <1>4 DEF RegisterComposition, TypeOK, Drafts, BankInv, DraftSound
  <2>2. Registers(Current, staged')
      BY <1>4, <2>1, RegistrationBuilt DEF RegisterComposition
  <2> QED BY <1>4, <2>2, StageInv DEF RegisterComposition, Built
<1>5. ASSUME NEW p \in permits, Activate(p) PROVE BankInv'
    BY <1>5, ActivateBuilt, StageInv DEF Activate, Built
<1>6. ASSUME NEW slot \in Slots, NEW n \in 1 .. Tip,
             NEW p \in permits \union {None}, Rollback(slot, n, p)
      PROVE  BankInv'
    BY <1>6, RollbackBuilt, StageInv DEF Rollback, Built
<1> QED BY <1>1, <1>2, <1>3, <1>4, <1>5, <1>6 DEF Mutate

LEMMA CommitInv ==
    ASSUME TypeOK, BankInv, PersistRevisionCommit
    PROVE  BankInv'
<1>1. /\ staged \in Snapshots /\ Tip' = Tip + 1 /\ Current' = staged
      /\ \A n \in 0 .. Tip : SnapshotAt(n)' = SnapshotAt(n)
    BY Committed
<1>2. /\ step = "publish" /\ step' = "head"
      /\ UNCHANGED <<head, permits, draft, reader>>
      /\ ValidContract(staged, Tip + 1)
    BY DEF PersistRevisionCommit, Publishable, call
<1>3. IndexSound(staged)
    BY <1>1, <1>2, BuiltSound, CurrentType, TipSound DEF BankInv, StagedBuilt
<1>4. JournalSound'
  <2>1. ASSUME NEW n \in 0 .. Tip + 1 PROVE IndexSound(SnapshotAt(n)')
    <3>1. CASE n = Tip + 1
        BY <3>1, <1>1, <1>3 DEF Current
    <3>2. CASE n \in 0 .. Tip
        BY <3>2, <1>1 DEF BankInv, JournalSound
    <3> QED BY <3>1, <3>2, TipType
  <2>2. \A s : IndexSound(s)' = IndexSound(s)
      BY DEF IndexSound, TermsClosed, ClosureComplete, SelectionsSound, Chosen,
         Sound, Revoked
  <2> QED BY <2>1, <2>2, <1>1 DEF JournalSound, IndexSound, TermsClosed,
         ClosureComplete, SelectionsSound, Chosen, Sound, Revoked
<1>5. StagedBuilt'
    BY <1>2 DEF StagedBuilt
<1>6. DraftSound'
    BY <1>1, <1>2, TipType DEF BankInv, DraftSound, TypeOK, Drafts
<1>7. PermitsIssued' /\ HeadBehind'
    BY <1>1, <1>2, TipType DEF BankInv, PermitsIssued, HeadBehind, TypeOK, Permits
<1>8. ResolvedFromTip'
  <2>1. reader.tip \in 0 .. Tip
      BY TipType DEF TypeOK, Calls
  <2> QED BY <1>1, <1>2, <2>1 DEF BankInv, ResolvedFromTip
<1>9. RefusalMeansOvertaken'
    BY <1>1, <1>2, TipType DEF BankInv, RefusalMeansOvertaken, TypeOK, Calls
<1> QED BY <1>4, <1>5, <1>6, <1>7, <1>8, <1>9 DEF BankInv

\* Steps that touch neither the journal, the permits, what is staged for
\* publication nor the readers.
LEMMA QuietInv ==
    ASSUME TypeOK, BankInv, UNCHANGED <<journal, permits, call>>,
           step' # "publish", head' \in {head, 0, Tip},
           draft' \in {draft, None}
    PROVE  BankInv'
<1>1. /\ Tip' = Tip /\ Current' = Current /\ JournalSound'
      /\ \A n : SnapshotAt(n)' = SnapshotAt(n)
    BY Uncommitted DEF BankInv
<1>2. HeadBehind'
    BY <1>1, TipType DEF BankInv, HeadBehind
<1> QED BY <1>1, <1>2 DEF BankInv, StagedBuilt, DraftSound, PermitsIssued,
       ResolvedFromTip, RefusalMeansOvertaken, call

\* What was built stays built while the files it was built from stay.
LEMMA StagedKept ==
    ASSUME StagedBuilt, UNCHANGED <<journal, permits, writer>>
    PROVE  StagedBuilt'
<1> SUFFICES ASSUME step = "publish" PROVE Built(Current, staged)'
    BY DEF StagedBuilt, writer
<1>1. Tip' = Tip /\ Current' = Current /\ staged' = staged /\ permits' = permits
    BY Uncommitted DEF writer
<1>2. Built(Current, staged)
    BY DEF StagedBuilt
<1>3. CASE Registers(Current, staged)
    BY <1>1, <1>3 DEF Built, Registers, Sound, Revoked
<1>4. CASE Selects(Current, staged)
    BY <1>1, <1>4 DEF Built, Selects, IssuedAgainstCurrent
<1>5. CASE Deselects(Current, staged)
    BY <1>1, <1>5 DEF Built, Deselects, Chosen
<1>6. CASE Revokes(Current, staged)
    BY <1>1, <1>6 DEF Built, Revokes, Sound, Revoked, Chosen, Affected
<1> QED BY <1>2, <1>3, <1>4, <1>5, <1>6 DEF Built

LEMMA ComposeInv ==
    ASSUME TypeOK, BankInv, Compose
    PROVE  BankInv'
<1>1. UNCHANGED <<bank, writer, call>>
    BY DEF Compose, ComposeExact, GiveUpComposition
<1>2. /\ Tip' = Tip /\ Current' = Current /\ JournalSound'
      /\ \A n : SnapshotAt(n)' = SnapshotAt(n)
    BY <1>1, Uncommitted DEF BankInv, bank
<1>3. DraftSound'
  <2>1. ASSUME NEW m \in Manifests, ComposeExact(m) PROVE DraftSound'
      BY <2>1, <1>2, TipType DEF ComposeExact, DraftSound
  <2>2. CASE GiveUpComposition
      BY <2>2 DEF GiveUpComposition, DraftSound
  <2> QED BY <2>1, <2>2 DEF Compose
<1>4. StagedBuilt'
    BY <1>1, StagedKept DEF BankInv, bank
<1> QED BY <1>1, <1>2, <1>3, <1>4 DEF BankInv, PermitsIssued, HeadBehind,
       ResolvedFromTip, RefusalMeansOvertaken, bank, call

LEMMA ResolveInv ==
    ASSUME TypeOK, BankInv, Resolve
    PROVE  BankInv'
<1>1. UNCHANGED <<bank, writer, draft>>
    BY DEF Resolve, AuthenticateRevisionTip, AuthenticateHeadCache,
       ReturnFromResolve
<1>2. /\ Tip' = Tip /\ Current' = Current /\ JournalSound'
      /\ \A n : SnapshotAt(n)' = SnapshotAt(n)
    BY <1>1, Uncommitted DEF BankInv, bank
<1>3. StagedBuilt'
    BY <1>1, StagedKept DEF BankInv, bank
<1>4. ResolvedFromTip' /\ RefusalMeansOvertaken'
  <2>1. CASE AuthenticateRevisionTip \/ ReturnFromResolve
      BY <2>1 DEF AuthenticateRevisionTip, ReturnFromResolve, NoCall,
         ResolvedFromTip, RefusalMeansOvertaken
  <2>2. ASSUME NEW slot \in Slots, AuthenticateHeadCache(slot)
        PROVE  ResolvedFromTip' /\ RefusalMeansOvertaken'
    <3>1. reader'.tip = reader.tip
        BY <2>2 DEF AuthenticateHeadCache, TypeOK, Calls
    <3>2. reader'.phase = "refused" => reader.tip < Tip
        BY <2>2, TipType DEF AuthenticateHeadCache, HeadAcceptable, BankInv,
           HeadBehind, TypeOK, Calls
    <3>3. reader'.phase = "resolved" => reader'.selection = Authoritative.active[slot]
        BY <2>2 DEF AuthenticateHeadCache, TypeOK, Calls
    <3> QED BY <3>1, <3>2, <3>3, <1>2 DEF ResolvedFromTip, RefusalMeansOvertaken,
           Authoritative
  <2> QED BY <2>1, <2>2 DEF Resolve
<1> QED BY <1>1, <1>2, <1>3, <1>4 DEF BankInv, DraftSound, PermitsIssued,
       HeadBehind, bank

LEMMA NextInv ==
    ASSUME TypeOK, BankInv, [Next]_vars
    PROVE  BankInv'
<1>1. CASE Mutate
    BY <1>1, MutateInv
<1>2. CASE PersistRevisionCommit
    BY <1>2, CommitInv
<1>3. CASE RefusePublication \/ ReplaceHead \/ Crash
    BY <1>3, QuietInv DEF RefusePublication, ReplaceHead, Crash, Release, bank
<1>4. CASE Compose
    BY <1>4, ComposeInv
<1>5. CASE Resolve
    BY <1>5, ResolveInv
<1>6. CASE LoseHead
  <2>1. /\ Tip' = Tip /\ Current' = Current /\ JournalSound'
        /\ \A n : SnapshotAt(n)' = SnapshotAt(n)
      BY <1>6, Uncommitted DEF BankInv, LoseHead
  <2>2. StagedBuilt'
      BY <1>6, StagedKept DEF LoseHead, BankInv
  <2> QED BY <1>6, <2>1, <2>2, TipType DEF LoseHead, BankInv, DraftSound,
         PermitsIssued, HeadBehind, ResolvedFromTip, RefusalMeansOvertaken,
         writer, call
<1>7. CASE UNCHANGED vars
  <2>1. /\ Tip' = Tip /\ Current' = Current /\ JournalSound'
        /\ \A n : SnapshotAt(n)' = SnapshotAt(n)
      BY <1>7, Uncommitted DEF BankInv, vars, bank
  <2>2. StagedBuilt'
      BY <1>7, StagedKept DEF vars, BankInv, bank
  <2> QED BY <1>7, <2>1, <2>2 DEF vars, BankInv, DraftSound, PermitsIssued,
         HeadBehind, ResolvedFromTip, RefusalMeansOvertaken, bank, call
<1> QED BY <1>1, <1>2, <1>3, <1>4, <1>5, <1>6, <1>7 DEF Next, Publish

\* Every revision of the journal is sound, and so is what the operations under
\* way have read or built: the inductive invariant of the bank.
THEOREM BankInvariant == Spec => []BankInv
<1>1. TypeOK /\ BankInv /\ [Next]_vars => BankInv'
    BY NextInv
<1> QED BY InitInv, <1>1, TypeCorrect, PTL DEF Spec

\* A call of resolve_active is refused only if a revision was published while
\* it ran, whatever died in the meantime.
THEOREM ReadersAreNotBlocked == Spec => []RefusalMeansOvertaken
<1>1. BankInv => RefusalMeansOvertaken
    BY DEF BankInv
<1> QED BY <1>1, BankInvariant, PTL

\* What stands on sound adapters alone: with the closure complete, the sound
\* entries of an index are closed under terms.
LEMMA FootingSound ==
    ASSUME NEW s \in Snapshots, IndexSound(s), NEW m \in Sound(s)
    PROVE  Footing(m) \subseteq Sound(s)
<1>1. Sound(s) \subseteq Manifests
    BY SnapshotFields DEF Sound
<1>2. \A k \in Sound(s) : Terms(k) \subseteq Sound(s)
    BY DEF IndexSound, TermsClosed, ClosureComplete, Sound
<1> QED BY <1>1, <1>2, FootingInClosed

\* A resolution hands out no adapter that rests on a revoked one.
THEOREM ResolutionIsSound == Spec => []ResolutionOnSoundFooting
<1>1. TypeOK /\ BankInv => ResolutionOnSoundFooting
  <2> SUFFICES ASSUME TypeOK, BankInv, reader.phase = "resolved"
               PROVE  Footing(reader.selection.manifest)
                          \intersect Revoked(SnapshotAt(reader.tip)) = {}
      BY DEF ResolutionOnSoundFooting
  <2> DEFINE s == SnapshotAt(reader.tip)
  <2>1. s \in Snapshots /\ IndexSound(s)
    <3>1. reader.tip \in 0 .. Tip
        BY TipType DEF TypeOK, Calls
    <3> QED BY <3>1, SnapshotType DEF BankInv, JournalSound
  <2>2. PICK slot \in Slots : reader.selection = s.active[slot]
      BY DEF BankInv, ResolvedFromTip
  <2>3. reader.selection.manifest = Chosen(s, slot) /\ Chosen(s, slot) # None
    <3>1. reader.selection \in Selections
        BY <2>2 DEF TypeOK, Calls
    <3> QED BY <2>2, <3>1, NoneAssumption DEF Chosen, Selections
  <2>4. reader.selection.manifest \in Sound(s)
      BY <2>1, <2>3 DEF IndexSound, SelectionsSound
  <2> QED BY <2>1, <2>4, FootingSound DEF Sound
<1> QED BY <1>1, TypeCorrect, BankInvariant, PTL

-----------------------------------------------------------------------------
(* The bank implements AdapterAuthority. *)

\* A revocation takes what rests on the adapter: the loop of revoke, which
\* goes from the adapter up, and the footing, which goes down, agree on an
\* index that holds the terms of its entries.
LEMMA AffectedIsFooting ==
    ASSUME NEW s \in Snapshots, TermsClosed(s), NEW m \in s.entries
    PROVE  Affected(s, m) = {n \in s.entries : m \in Footing(n)}
<1>1. s.entries \subseteq Manifests
    BY SnapshotFields
<1>2. ASSUME NEW n \in Affected(s, m) PROVE n \in s.entries /\ m \in Footing(n)
  <2> DEFINE C == {k \in s.entries : m \in Footing(k)}
  <2>1. C \in SUBSET s.entries /\ m \in C
      BY <1>1, FootingOfItself
  <2>2. ASSUME NEW k \in s.entries, NEW t \in Terms(k) \intersect C
        PROVE  k \in C
      BY <1>1, <2>2, FootingThroughTerm
  <2> HIDE DEF C
  <2>3. \A k \in s.entries : Terms(k) \intersect C # {} => k \in C
      BY <2>2
  <2>4. n \in C
      BY <1>2, <2>1, <2>3 DEF Affected
  <2> QED BY <2>4 DEF C
<1>3. ASSUME NEW n \in s.entries, m \in Footing(n) PROVE n \in Affected(s, m)
  <2> SUFFICES ASSUME NEW C \in SUBSET s.entries, m \in C,
                      \A k \in s.entries : Terms(k) \intersect C # {} => k \in C,
                      n \notin C
               PROVE  FALSE
      BY DEF Affected
  <2>1. \A k \in s.entries \ C : Terms(k) \subseteq s.entries \ C
      BY DEF TermsClosed
  <2>2. Footing(n) \subseteq s.entries \ C
      BY <1>1, <2>1, FootingInClosed
  <2> QED BY <1>3, <2>2
<1> QED BY <1>2, <1>3

\* The adapters in use after a slot was given a selection, or none.
LEMMA InUseAfter ==
    ASSUME NEW s \in Snapshots, SelectionsSound(s), NEW c \in Snapshots,
           NEW slot \in Slots, NEW sel \in Selections \union {None},
           c.active = [s.active EXCEPT ![slot] = sel],
           sel # None => sel.manifest \in Manifests /\ Slot(sel.manifest) = slot
    PROVE  InUse(c) = {n \in InUse(s) : Slot(n) # slot}
                          \union (IF sel = None THEN {} ELSE {sel.manifest})
<1>1. Chosen(c, slot) = IF sel = None THEN None ELSE sel.manifest
    BY SnapshotFields DEF Chosen
<1>2. \A other \in Slots \ {slot} : Chosen(c, other) = Chosen(s, other)
    BY SnapshotFields DEF Chosen
<1>3. \A other \in Slots : Chosen(s, other) # None => Slot(Chosen(s, other)) = other
    BY DEF SelectionsSound
<1>4. sel # None => sel.manifest # None
    BY NoneAssumption
<1> QED BY <1>1, <1>2, <1>3, <1>4 DEF InUse

\* The authorizations that are good now; none is after a commit.
Fresh == {p.manifest : p \in {q \in permits : IssuedAgainstCurrent(q)}}
             \intersect Sound(Current)

LEMMA CommitSpendsPermits ==
    ASSUME TypeOK, BankInv, PersistRevisionCommit
    PROVE  Fresh' = {}
<1>1. Tip' = Tip + 1 /\ permits' = permits
    BY Committed DEF PersistRevisionCommit
<1>2. \A p \in permits : p.against \in Nat /\ p.against <= Tip
    BY DEF BankInv, PermitsIssued, TypeOK, Permits
<1>3. \A p \in permits' : p.against # Tip'
    BY <1>1, <1>2, TipType
<1> QED BY <1>3 DEF Fresh, IssuedAgainstCurrent

LEMMA CommitRegisters ==
    ASSUME TypeOK, BankInv, PersistRevisionCommit, Registers(Current, staged)
    PROVE  Promise!Next
<1>1. Current' = staged /\ Fresh' = {}
    BY Committed, CommitSpendsPermits
<1>2. PICK m \in Manifests \ Current.entries :
          /\ Terms(m) \subseteq Sound(Current)
          /\ staged.entries = Current.entries \union {m}
          /\ staged.revocations = Current.revocations
          /\ staged.active = Current.active
    BY DEF Registers
<1>3. Revoked(Current)' = Revoked(Current) /\ InUse(Current)' = InUse(Current)
    BY <1>1, <1>2 DEF Revoked, InUse, Chosen
<1>4. Promise!Register(m)
    BY <1>1, <1>2, <1>3 DEF Promise!Register, Promise!Sound, Promise!Terms, Terms,
       Sound, Fresh
<1> QED BY <1>4 DEF Promise!Next

LEMMA CommitSelects ==
    ASSUME TypeOK, BankInv, PersistRevisionCommit, Selects(Current, staged)
    PROVE  Promise!Next
<1>1. Current' = staged /\ Fresh' = {} /\ staged \in Snapshots
    BY Committed, CommitSpendsPermits
<1>2. PICK p \in permits, slot \in Slots :
          /\ IssuedAgainstCurrent(p)
          /\ staged.entries = Current.entries
          /\ staged.revocations = Current.revocations
          /\ staged.active = [Current.active EXCEPT ![slot] = Selection(p, Tip + 1)]
    BY DEF Selects
<1> DEFINE sel == Selection(p, Tip + 1)
           m == p.manifest
<1>3. p \in Permits /\ m \in Manifests /\ sel \in Selections /\ sel # None
    BY TipType, SelectionType DEF TypeOK, Permits
<1>4. sel.manifest = m /\ staged.active[slot] = sel
    BY <1>2, CurrentType, SnapshotFields DEF Selection
<1>5. m \in Sound(staged) /\ Slot(m) = slot
    BY <1>3, <1>4 DEF PersistRevisionCommit, Publishable, ValidContract, ActiveBound
<1>6. Revoked(Current)' = Revoked(Current) /\ m \in Sound(Current) /\ m \in Fresh
    BY <1>1, <1>2, <1>5 DEF Revoked, Sound, Fresh
<1>7. InUse(staged) = {n \in InUse(Current) : Slot(n) # slot} \union {m}
  <2> HIDE DEF sel, m
  <2>1. SelectionsSound(Current) /\ Current \in Snapshots
      BY TipSound, CurrentType DEF BankInv, IndexSound
  <2> QED BY <2>1, <1>1, <1>2, <1>3, <1>4, <1>5, InUseAfter DEF sel
<1>8. InUse(Current)' = {n \in InUse(Current) : Slot(n) # Slot(m)} \union {m}
    BY <1>1, <1>5, <1>7 DEF InUse, Chosen
<1>9. Promise!Activate(m)
    BY <1>1, <1>2, <1>6, <1>8 DEF Promise!Activate, Promise!Sound, Promise!Slot,
       Slot, Sound, Fresh
<1> QED BY <1>3, <1>9 DEF Promise!Next

LEMMA CommitDeselects ==
    ASSUME TypeOK, BankInv, PersistRevisionCommit, Deselects(Current, staged)
    PROVE  Promise!Next
<1>1. Current' = staged /\ Fresh' = {} /\ staged \in Snapshots
    BY Committed, CommitSpendsPermits
<1>2. PICK slot \in Slots :
          /\ Chosen(Current, slot) # None
          /\ staged.entries = Current.entries
          /\ staged.revocations = Current.revocations
          /\ staged.active = [Current.active EXCEPT ![slot] = None]
    BY DEF Deselects
<1>3. PICK m \in Manifests :
          m = Chosen(Current, slot) /\ m \in InUse(Current) /\ Slot(m) = slot
    BY <1>2, CurrentType, ChosenType, TipSound DEF InUse, BankInv, IndexSound,
       SelectionsSound
<1>4. SelectionsSound(Current)
    BY TipSound DEF BankInv, IndexSound
<1>5. InUse(staged) = {n \in InUse(Current) : Slot(n) # slot}
    BY <1>1, <1>2, <1>4, CurrentType, InUseAfter
<1>6. \A n \in InUse(Current) : Slot(n) = slot => n = m
    BY <1>3, <1>4 DEF InUse, SelectionsSound
<1>7. InUse(Current)' = InUse(Current) \ {m}
    BY <1>1, <1>3, <1>5, <1>6 DEF InUse, Chosen
<1>8. Revoked(Current)' = Revoked(Current)
    BY <1>1, <1>2 DEF Revoked
<1>9. Promise!Withdraw(m)
    BY <1>1, <1>2, <1>3, <1>7, <1>8 DEF Promise!Withdraw, Fresh
<1> QED BY <1>3, <1>9 DEF Promise!Next

LEMMA CommitRevokes ==
    ASSUME TypeOK, BankInv, PersistRevisionCommit, Revokes(Current, staged)
    PROVE  Promise!Next
<1>1. Current' = staged /\ Fresh' = {}
    BY Committed, CommitSpendsPermits
<1>2. PICK m \in Sound(Current) :
          /\ staged.entries = Current.entries
          /\ Revoked(staged) = Revoked(Current) \union Affected(Current, m)
          /\ staged.active = [slot \in Slots |->
                 IF Chosen(Current, slot) \in Affected(Current, m) THEN None
                 ELSE Current.active[slot]]
    BY DEF Revokes
<1>3. m \in Manifests /\ m \in Current.entries
    BY CurrentType, SnapshotFields DEF Sound
<1>4. IndexSound(Current)
    BY TipSound DEF BankInv
<1>5. Affected(Current, m) = {n \in Current.entries : m \in Footing(n)}
    BY <1>3, <1>4, CurrentType, AffectedIsFooting DEF IndexSound
<1>6. Affected(Current, m) \subseteq Manifests
    BY CurrentType, SnapshotFields DEF Affected
<1>7. InUse(staged) = InUse(Current) \ Affected(Current, m)
  <2>1. ASSUME NEW slot \in Slots
        PROVE  Chosen(staged, slot) =
                   IF Chosen(Current, slot) \in Affected(Current, m) THEN None
                   ELSE Chosen(Current, slot)
      BY <1>2 DEF Chosen
  <2> QED BY <2>1 DEF InUse
<1>8. InUse(Current) \intersect Revoked(Current) = {}
    BY <1>4 DEF IndexSound, SelectionsSound, InUse, Sound
<1>9. Revoked(Current)' = Revoked(staged) /\ InUse(Current)' = InUse(staged)
    BY <1>1 DEF Revoked, InUse, Chosen
<1>10. InUse(Current)' = InUse(Current) \ Revoked(Current)'
    BY <1>2, <1>7, <1>8, <1>9
<1>11. Revoked(Current)' = Revoked(Current) \union
                               {n \in Current.entries : m \in Promise!Footing(n)}
    BY <1>2, <1>5, <1>9 DEF Footing, Promise!Footing, Terms, Promise!Terms
<1>12. Promise!Revoke(m)
    BY <1>1, <1>2, <1>10, <1>11 DEF Promise!Revoke, Promise!Sound, Sound, Fresh
<1> QED BY <1>3, <1>12 DEF Promise!Next

LEMMA StepKeepsPromise ==
    ASSUME TypeOK, BankInv, [Next]_vars
    PROVE  [Promise!Next]_Promise!vars
<1>1. CASE PersistRevisionCommit
  <2>1. Built(Current, staged)
      BY <1>1 DEF BankInv, StagedBuilt, PersistRevisionCommit
  <2> QED BY <1>1, <2>1, CommitRegisters, CommitSelects, CommitDeselects,
         CommitRevokes DEF Built
<1>2. ASSUME NEW m \in Manifests, AuthorizeGovernedPromotion(m)
      PROVE  Promise!Next
  <2>1. Current' = Current /\ Tip' = Tip /\ m \in Sound(Current)
      BY <1>2, Uncommitted DEF AuthorizeGovernedPromotion
  <2>2. permits' = permits \union {[manifest |-> m, against |-> Tip]}
      BY <1>2 DEF AuthorizeGovernedPromotion
  <2>3. {q \in permits' : q.against = Tip} =
            {q \in permits : q.against = Tip}
                \union {[manifest |-> m, against |-> Tip]}
      BY <2>2
  <2>4. Fresh' = Fresh \union {m}
    <3> DEFINE good == {q \in permits : q.against = Tip}
               new == [manifest |-> m, against |-> Tip]
    <3>1. new.manifest = m
        OBVIOUS
    <3> HIDE DEF good, new
    <3>2. {p.manifest : p \in good \union {new}} =
              {p.manifest : p \in good} \union {m}
        BY <3>1
    <3>3. Fresh = {p.manifest : p \in good} \intersect Sound(Current)
        BY DEF Fresh, good, IssuedAgainstCurrent
    <3>4. Fresh' = {p.manifest : p \in good \union {new}} \intersect Sound(Current)
        BY <2>1, <2>3 DEF Fresh, good, new, IssuedAgainstCurrent, Sound, Revoked
    <3> QED BY <2>1, <3>2, <3>3, <3>4
  <2>5. Promise!Authorize(m)
      BY <2>1, <2>4 DEF Promise!Authorize, Promise!Sound, Sound, Revoked, InUse,
         Chosen, Fresh
  <2> QED BY <2>5 DEF Promise!Next
<1>3. CASE UNCHANGED <<journal, permits>>
  <2>1. Current' = Current /\ Tip' = Tip /\ permits' = permits
      BY <1>3, Uncommitted
  <2> QED BY <2>1 DEF Promise!vars, Revoked, InUse, Chosen, Sound,
         IssuedAgainstCurrent
<1>4. \/ PersistRevisionCommit
      \/ \E m \in Manifests : AuthorizeGovernedPromotion(m)
      \/ UNCHANGED <<journal, permits>>
    BY DEF Next, vars, bank, Mutate, ImportLora, Revoke, RegisterComposition,
       Activate, Rollback, Publish, RefusePublication, ReplaceHead, Compose,
       ComposeExact, GiveUpComposition, Resolve, AuthenticateRevisionTip,
       AuthenticateHeadCache, ReturnFromResolve, Crash, LoseHead
<1> QED BY <1>1, <1>2, <1>3, <1>4

LEMMA InitKeepsPromise == ASSUME Init PROVE Promise!Init
<1>1. Current = Empty
    BY DEF Init, Current, SnapshotAt, Tip
<1> QED BY <1>1 DEF Init, Promise!Init, Empty, Revoked, InUse, Chosen

\* The bank keeps the promise of AdapterAuthority.
THEOREM BankKeepsPromise == Spec => KeepsPromise
<1>1. Init => Promise!Init
    BY InitKeepsPromise
<1>2. TypeOK /\ BankInv /\ [Next]_vars => [Promise!Next]_Promise!vars
    BY StepKeepsPromise
<1> QED BY <1>1, <1>2, TypeCorrect, BankInvariant, PTL
       DEF Spec, KeepsPromise, Promise!Spec
-----------------------------------------------------------------------------
(* What an operation builds is what readers accept, and generations have no  *)
(* gap.  The invariant says of every revision what ValidContract says of a   *)
(* new one.                                                                  *)

\* Every revision satisfies, as the revision it is, what readers demand of an
\* index.
RevisionsValid == \A n \in 1 .. Tip : ValidContract(SnapshotAt(n), n)

\* No entry is ever dropped.
EntriesStay == \A n \in 0 .. Tip : SnapshotAt(n).entries \subseteq Current.entries

JournalFits == Tip <= MaxRevisions

\* A composition has terms: it is registered as one.
DraftComposed == draft # None => Terms(draft.manifest) # {}

Accepted(parent, child, n) ==
    /\ ValidContract(child, n)
    /\ \/ ValidTransition(parent, child, n)
       \/ /\ child.operation.kind = "revoke"
          /\ child.operation.affected \intersect Revoked(parent) # {}

StagedAccepted == step = "publish" => Accepted(Current, staged, Tip + 1)

\* What is staged has the entries of the tip, or one more that was admitted.
StagedAdmitted ==
    step = "publish" =>
        \/ staged.entries = Current.entries
        \/ \E m \in Manifests :
               /\ Admissible(m)
               /\ staged.entries = Current.entries \union {m}

\* A generation is counted from the first, 1.
GenerationsCounted == \A m \in Current.entries : Content[m].generation \in Nat

AcceptInv ==
    /\ RevisionsValid
    /\ EntriesStay
    /\ JournalFits
    /\ DraftComposed
    /\ StagedAccepted
    /\ StagedAdmitted
    /\ GenerationsCounted
    /\ LineageUnbroken

-----------------------------------------------------------------------------
(* What each mutation stages is accepted. *)

\* A contract that held of a revision holds of the next if it has not changed.
LEMMA TipValid ==
    ASSUME TypeOK, RevisionsValid
    PROVE  /\ UniqueEntries(Current)
           /\ RevocationsInOrder(Current, Tip)
           /\ ClosureComplete(Current)
           /\ ActiveBound(Current, Tip)
<1>1. CASE Tip = 0
    BY <1>1 DEF Current, SnapshotAt, Empty, UniqueEntries, RevocationsInOrder,
       ClosureComplete, ActiveBound
<1>2. CASE Tip # 0
  <2>1. Tip \in 1 .. Tip
      BY <1>2, TipType
  <2> QED BY <2>1 DEF RevisionsValid, ValidContract, Current
<1> QED BY <1>1, <1>2

LEMMA RegistrationAccepted ==
    ASSUME TypeOK, AcceptInv, NEW m \in Manifests,
           NEW kind \in {"register", "compose"}, CommitRegistration(m, kind),
           Terms(m) \subseteq Sound(Current),
           (kind = "register") = (Terms(m) = {})
    PROVE  Accepted(Current, staged', Tip + 1)
<1> DEFINE n == Tip + 1
           child == staged'
<1>1. Admissible(m)
    BY DEF CommitRegistration
<1>2. child = [Current EXCEPT !.entries = @ \union {m},
                              !.operation = [kind |-> kind, manifest |-> m]]
    BY DEF CommitRegistration, Stage
<1>3. /\ child.entries = Current.entries \union {m}
      /\ child.active = Current.active
      /\ child.revocations = Current.revocations
      /\ child.operation = [kind |-> kind, manifest |-> m]
    BY <1>2, CurrentType, SnapshotFields
<1>4. /\ UniqueEntries(Current) /\ RevocationsInOrder(Current, Tip)
      /\ ClosureComplete(Current) /\ ActiveBound(Current, Tip)
    BY TipValid DEF AcceptInv
<1> HIDE DEF child
<1>5. UniqueEntries(child)
    BY <1>1, <1>3, <1>4 DEF UniqueEntries, Admissible
<1>6. RevocationsInOrder(child, n)
    BY <1>3, <1>4, TipType DEF RevocationsInOrder
<1>7. Revoked(child) = Revoked(Current)
    BY <1>3 DEF Revoked
<1>8. ClosureComplete(child)
    BY <1>3, <1>4, <1>7 DEF ClosureComplete, Sound
<1>9. ActiveBound(child, n)
    BY <1>3, <1>4, <1>7, TipType DEF ActiveBound, Sound
<1>10. RegistrationDelta(Current, child)
    BY <1>3 DEF RegistrationDelta
<1> QED BY <1>5, <1>6, <1>8, <1>9, <1>10 DEF Accepted, ValidContract,
       ValidTransition, child

\* A slot given a selection that is good now.
LEMMA ReselectionValid ==
    ASSUME TypeOK, AcceptInv, NEW child, NEW p \in permits, NEW slot \in Slots,
           child.entries = Current.entries,
           child.revocations = Current.revocations,
           child.active = [Current.active EXCEPT ![slot] = Selection(p, Tip + 1)],
           p.manifest \in Sound(Current), Slot(p.manifest) = slot
    PROVE  ValidContract(child, Tip + 1)
<1>1. /\ UniqueEntries(Current) /\ RevocationsInOrder(Current, Tip)
      /\ ClosureComplete(Current) /\ ActiveBound(Current, Tip)
    BY TipValid DEF AcceptInv
<1>2. UniqueEntries(child) /\ RevocationsInOrder(child, Tip + 1)
    BY <1>1, TipType DEF UniqueEntries, RevocationsInOrder
<1>3. Revoked(child) = Revoked(Current) /\ Sound(child) = Sound(Current)
    BY DEF Revoked, Sound
<1>4. ClosureComplete(child)
    BY <1>1, <1>3 DEF ClosureComplete
<1>5. ASSUME NEW other \in Slots, child.active[other] # None
      PROVE  LET sel == child.active[other]
             IN  /\ sel.manifest \in Sound(child)
                 /\ Slot(sel.manifest) = other
                 /\ sel.epoch \in 1 .. Tip + 1
                 /\ sel.permit \in permits
                 /\ sel.permit.manifest = sel.manifest
  <2>1. CASE other = slot
    <3>1. child.active[other] = Selection(p, Tip + 1)
        BY <2>1, CurrentType, SnapshotFields
    <3> QED BY <2>1, <3>1, <1>3, TipType DEF Selection
  <2>2. CASE other # slot
    <3>1. child.active[other] = Current.active[other]
        BY <2>2, CurrentType, SnapshotFields
    <3> QED BY <1>1, <1>3, <1>5, <3>1, TipType DEF ActiveBound
  <2> QED BY <2>1, <2>2
<1> QED BY <1>2, <1>4, <1>5 DEF ValidContract, ActiveBound

LEMMA ActivationAccepted ==
    ASSUME TypeOK, AcceptInv, NEW p \in permits, Activate(p)
    PROVE  Accepted(Current, staged', Tip + 1)
<1> DEFINE child == staged'
<1>1. p.manifest \in Manifests /\ Slot(p.manifest) \in Slots
    BY SlotType DEF TypeOK, Permits
<1>2. /\ child.entries = Current.entries
      /\ child.revocations = Current.revocations
      /\ child.active = [Current.active EXCEPT
                             ![Slot(p.manifest)] = Selection(p, Tip + 1)]
      /\ child.operation = [kind |-> "activate", permit |-> p]
    BY CurrentType, SnapshotFields DEF Activate, Stage
<1>3. p.manifest \in Sound(Current)
    BY DEF Activate
<1> HIDE DEF child
<1>4. ValidContract(child, Tip + 1)
    BY <1>1, <1>2, <1>3, ReselectionValid
<1>5. ActivationDelta(Current, child, Tip + 1)
    BY <1>2, <1>3 DEF ActivationDelta, Reselected, Sound
<1> QED BY <1>4, <1>5 DEF Accepted, ValidTransition, child

\* With each entry, what is composed of it is affected.
LEMMA AffectedClosed ==
    ASSUME NEW s, NEW m
    PROVE  /\ m \in s.entries => m \in Affected(s, m)
           /\ Affected(s, m) \subseteq s.entries
           /\ \A k \in s.entries :
                  Terms(k) \intersect Affected(s, m) # {} => k \in Affected(s, m)
BY DEF Affected

LEMMA RevocationAccepted ==
    ASSUME TypeOK, AcceptInv, NEW m \in Manifests, Revoke(m)
    PROVE  Accepted(Current, staged', Tip + 1)
<1> DEFINE n == Tip + 1
           child == staged'
           affected == Affected(Current, m)
           fresh == affected \ Revoked(Current)
           added == [manifest : fresh, at : {Tip + 1}, root : {m}]
<1>1. /\ child.entries = Current.entries
      /\ child.revocations = Current.revocations \union added
      /\ child.active = [slot \in Slots |->
             IF Chosen(Current, slot) \in affected THEN None
             ELSE Current.active[slot]]
      /\ child.operation = [kind |-> "revoke", root |-> m, affected |-> affected]
      /\ {r.manifest : r \in added} = fresh
      /\ Revoked(child) = Revoked(Current) \union affected
    BY RevokeStages
<1>2. /\ m \in affected /\ affected \subseteq Current.entries
      /\ \A k \in Current.entries :
             Terms(k) \intersect affected # {} => k \in affected
    BY AffectedClosed DEF Revoke, Sound
<1>3. \A r \in added : r.manifest \in fresh /\ r.at = n /\ r.root = m
    OBVIOUS
<1>4. \A r, q \in added : r.manifest = q.manifest => r = q
    OBVIOUS
<1>5. /\ UniqueEntries(Current) /\ RevocationsInOrder(Current, Tip)
      /\ ClosureComplete(Current) /\ ActiveBound(Current, Tip)
    BY TipValid DEF AcceptInv
<1> HIDE DEF child, affected, added
<1>6. UniqueEntries(child)
    BY <1>1, <1>5 DEF UniqueEntries
<1>7. RevocationsInOrder(child, n)
  <2>1. \A r \in Current.revocations :
            r.manifest \in Revoked(Current) /\ r.manifest \in Current.entries
                /\ r.at \in 1 .. Tip
      BY <1>5 DEF RevocationsInOrder, Revoked
  <2> QED BY <1>1, <1>2, <1>3, <1>4, <1>5, <2>1, TipType DEF RevocationsInOrder
<1>8. ClosureComplete(child)
    BY <1>1, <1>2, <1>5 DEF ClosureComplete
<1>9. ActiveBound(child, n)
  <2> SUFFICES ASSUME NEW slot \in Slots, child.active[slot] # None
               PROVE  LET sel == child.active[slot]
                      IN  /\ sel.manifest \in Sound(child)
                          /\ Slot(sel.manifest) = slot
                          /\ sel.epoch \in 1 .. n
                          /\ sel.permit \in permits
                          /\ sel.permit.manifest = sel.manifest
      BY DEF ActiveBound
  <2>1. child.active[slot] = Current.active[slot] /\ Chosen(Current, slot) \notin affected
      BY <1>1
  <2>2. Chosen(Current, slot) = Current.active[slot].manifest
      BY <2>1 DEF Chosen
  <2> QED BY <1>1, <1>5, <2>1, <2>2, TipType DEF ActiveBound, Sound
<1>10. fresh = affected => RevocationDelta(Current, child, n)
  <2>1. Current.revocations \intersect added = {}
      BY <1>3, <1>5, TipType DEF RevocationsInOrder
  <2>2. child.revocations \ Current.revocations = added
      BY <1>1, <2>1
  <2> QED BY <1>1, <1>2, <1>3, <2>2 DEF RevocationDelta
<1>11. \/ fresh = affected
       \/ child.operation.affected \intersect Revoked(Current) # {}
    BY <1>1
<1> QED BY <1>1, <1>6, <1>7, <1>8, <1>9, <1>10, <1>11 DEF Accepted, ValidContract,
       ValidTransition, child

LEMMA RollbackAccepted ==
    ASSUME TypeOK, AcceptInv, NEW slot \in Slots, NEW n \in 1 .. Tip,
           NEW p \in permits \union {None}, Rollback(slot, n, p)
    PROVE  Accepted(Current, staged', Tip + 1)
<1> DEFINE child == staged'
           to == Chosen(SnapshotAt(n), slot)
<1>1. /\ child.entries = Current.entries
      /\ child.revocations = Current.revocations
      /\ child.active = [Current.active EXCEPT ![slot] = Restored(slot, n, p)]
      /\ child.operation = [kind |-> "rollback", slot |-> slot, target |-> n,
                            from |-> Chosen(Current, slot), to |-> to, permit |-> p]
    BY CurrentType, SnapshotFields DEF Rollback, Stage
<1>2. /\ UniqueEntries(Current) /\ RevocationsInOrder(Current, Tip)
      /\ ClosureComplete(Current) /\ ActiveBound(Current, Tip)
    BY TipValid DEF AcceptInv
<1>3. n \in 1 .. (Tip + 1) - 2
    BY TipType DEF Rollback
<1>4. None \notin permits
    BY NoneAssumption DEF TypeOK
<1> HIDE DEF child
<1>5. CASE p = None
  <2>1. to = None /\ child.active = [Current.active EXCEPT ![slot] = None]
      BY <1>1, <1>4, <1>5 DEF Rollback, Restored
  <2>2. RollbackDelta(Current, child, Tip + 1)
      BY <1>1, <1>3, <1>5, <2>1 DEF RollbackDelta
  <2>3. UniqueEntries(child) /\ RevocationsInOrder(child, Tip + 1)
      BY <1>1, <1>2, TipType DEF UniqueEntries, RevocationsInOrder
  <2>4. Revoked(child) = Revoked(Current) /\ Sound(child) = Sound(Current)
      BY <1>1 DEF Revoked, Sound
  <2>5. ClosureComplete(child)
      BY <1>1, <1>2, <2>4 DEF ClosureComplete
  <2>6. \A other \in Slots :
            child.active[other] # None => child.active[other] = Current.active[other]
      BY <2>1, CurrentType, SnapshotFields
  <2>7. ActiveBound(child, Tip + 1)
      BY <1>2, <2>4, <2>6, TipType DEF ActiveBound
  <2> QED BY <2>2, <2>3, <2>5, <2>7 DEF Accepted, ValidContract, ValidTransition, child
<1>6. CASE p # None
  <2>1. /\ p \in permits /\ to # None /\ to \notin Revoked(Current)
        /\ p.manifest = to
      BY <1>6 DEF Rollback
  <2>2. to \in SnapshotAt(n).entries /\ Slot(to) = slot
    <3>1. ActiveBound(SnapshotAt(n), n)
        BY DEF AcceptInv, RevisionsValid, ValidContract
    <3> QED BY <2>1, <3>1 DEF ActiveBound, Chosen, Sound
  <2>3. to \in Sound(Current)
    <3>1. n \in 0 .. Tip
        OBVIOUS
    <3> QED BY <2>1, <2>2, <3>1 DEF AcceptInv, EntriesStay, Sound
  <2>4. child.active = [Current.active EXCEPT ![slot] = Selection(p, Tip + 1)]
      BY <1>1, <1>6 DEF Restored
  <2> HIDE DEF to
  <2>5. RollbackDelta(Current, child, Tip + 1)
      BY <1>1, <1>3, <1>6, <2>1, <2>4 DEF RollbackDelta, Reselected, to
  <2>6. ValidContract(child, Tip + 1)
      BY <1>1, <2>1, <2>2, <2>3, <2>4, ReselectionValid
  <2> QED BY <2>5, <2>6 DEF Accepted, ValidTransition, child
<1> QED BY <1>5, <1>6

-----------------------------------------------------------------------------
(* The steps keep it. *)

\* What is staged, and what every mutation adds to it.
Staged == Accepted(Current, staged, Tip + 1)

Admitted ==
    \/ staged.entries = Current.entries
    \/ \E m \in Manifests :
           /\ Admissible(m)
           /\ staged.entries = Current.entries \union {m}

\* What is said of the files stays true while they stay.
LEMMA FilesKept ==
    ASSUME AcceptInv, UNCHANGED <<journal, permits>>
    PROVE  /\ RevisionsValid' /\ EntriesStay' /\ JournalFits'
           /\ GenerationsCounted' /\ LineageUnbroken'
<1>1. /\ Tip' = Tip /\ Current' = Current
      /\ \A n : SnapshotAt(n)' = SnapshotAt(n)
    BY Uncommitted
<1>2. RevisionsValid'
    BY <1>1 DEF AcceptInv, RevisionsValid, ValidContract, UniqueEntries,
       RevocationsInOrder, ClosureComplete, ActiveBound, Sound, Revoked
<1>3. EntriesStay' /\ JournalFits' /\ GenerationsCounted' /\ LineageUnbroken'
    BY <1>1 DEF AcceptInv, EntriesStay, JournalFits, GenerationsCounted,
       LineageUnbroken
<1> QED BY <1>2, <1>3

LEMMA StagedStays ==
    ASSUME Staged, Admitted, UNCHANGED <<journal, permits, staged>>
    PROVE  Staged' /\ Admitted'
<1>1. /\ Tip' = Tip /\ Current' = Current
      /\ \A n : SnapshotAt(n)' = SnapshotAt(n)
    BY Uncommitted
<1>2. Admitted'
    BY <1>1 DEF Admitted, Admissible, Continues
<1>3. ValidContract(staged, Tip + 1)'
    BY <1>1 DEF Staged, Accepted, ValidContract, UniqueEntries,
       RevocationsInOrder, ClosureComplete, ActiveBound, Sound, Revoked
<1>4. ValidTransition(Current, staged, Tip + 1) =>
          ValidTransition(Current, staged, Tip + 1)'
    BY <1>1 DEF ValidTransition, RegistrationDelta, ActivationDelta,
       RevocationDelta, RollbackDelta, Reselected, Chosen
<1>5. Staged'
    BY <1>1, <1>3, <1>4 DEF Staged, Accepted, Revoked
<1> QED BY <1>2, <1>5

LEMMA StageAccepted ==
    ASSUME AcceptInv, Accepted(Current, staged', Tip + 1), UNCHANGED bank,
           draft' \in {draft, None},
           \/ staged'.entries = Current.entries
           \/ \E m \in Manifests :
                  /\ Admissible(m)
                  /\ staged'.entries = Current.entries \union {m}
    PROVE  AcceptInv'
<1>1. /\ Tip' = Tip /\ Current' = Current
      /\ \A n : SnapshotAt(n)' = SnapshotAt(n)
    BY Uncommitted DEF bank
<1>2. /\ RevisionsValid' /\ EntriesStay' /\ JournalFits'
      /\ GenerationsCounted' /\ LineageUnbroken'
    BY FilesKept DEF bank
<1>3. DraftComposed'
    BY DEF AcceptInv, DraftComposed
<1>4. StagedAdmitted'
    BY <1>1 DEF StagedAdmitted, Admissible, Continues
<1>5. ValidContract(staged, Tip + 1)'
    BY <1>1 DEF Accepted, ValidContract, UniqueEntries, RevocationsInOrder,
       ClosureComplete, ActiveBound, Sound, Revoked, bank
<1>6. ValidTransition(Current, staged', Tip + 1) =>
          ValidTransition(Current, staged, Tip + 1)'
    BY <1>1 DEF ValidTransition, RegistrationDelta, ActivationDelta,
       RevocationDelta, RollbackDelta, Reselected, Chosen
<1>7. StagedAccepted'
    BY <1>1, <1>5, <1>6 DEF StagedAccepted, Accepted, Revoked
<1> QED BY <1>2, <1>3, <1>4, <1>7 DEF AcceptInv

\* Steps that publish nothing and stage nothing new.
LEMMA UnstagedKept ==
    ASSUME AcceptInv, UNCHANGED journal,
           \/ step' = "free" \/ step' = "head"
           \/ step' = step /\ UNCHANGED <<permits, staged>>,
           permits \subseteq permits',
           draft' \in {draft, None} \/ Terms(draft'.manifest) # {}
    PROVE  AcceptInv'
<1>1. /\ Tip' = Tip /\ Current' = Current
      /\ \A n : SnapshotAt(n)' = SnapshotAt(n)
    BY Uncommitted
<1>2. RevisionsValid'
    BY <1>1 DEF AcceptInv, RevisionsValid, ValidContract, UniqueEntries,
       RevocationsInOrder, ClosureComplete, ActiveBound, Sound, Revoked
<1>3. EntriesStay' /\ JournalFits' /\ GenerationsCounted' /\ LineageUnbroken'
    BY <1>1 DEF AcceptInv, EntriesStay, JournalFits, GenerationsCounted,
       LineageUnbroken
<1>4. DraftComposed'
    BY DEF AcceptInv, DraftComposed
<1>5. StagedAccepted' /\ StagedAdmitted'
    BY StagedStays DEF AcceptInv, StagedAccepted, StagedAdmitted, Staged, Admitted
<1> QED BY <1>2, <1>3, <1>4, <1>5 DEF AcceptInv

LEMMA RegistrationKeeps ==
    ASSUME TypeOK, AcceptInv, NEW m \in Manifests,
           NEW kind \in {"register", "compose"}, CommitRegistration(m, kind),
           Terms(m) \subseteq Sound(Current),
           (kind = "register") = (Terms(m) = {}), UNCHANGED bank,
           draft' \in {draft, None}
    PROVE  AcceptInv'
<1>1. Accepted(Current, staged', Tip + 1)
    BY RegistrationAccepted
<1>2. staged'.entries = Current.entries \union {m} /\ Admissible(m)
    BY CurrentType, SnapshotFields DEF CommitRegistration, Stage
<1> QED BY <1>1, <1>2, StageAccepted

LEMMA MutateKeeps ==
    ASSUME TypeOK, BankInv, AcceptInv, Mutate
    PROVE  AcceptInv'
<1>1. ASSUME NEW m \in Manifests, ImportLora(m) PROVE AcceptInv'
    BY <1>1, RegistrationKeeps DEF ImportLora
<1>2. ASSUME NEW m \in Manifests, AuthorizeGovernedPromotion(m) PROVE AcceptInv'
    BY <1>2, UnstagedKept DEF AuthorizeGovernedPromotion, writer
<1>3. ASSUME NEW m \in Manifests, Revoke(m) PROVE AcceptInv'
  <2>1. staged'.entries = Current.entries
      BY <1>3, RevokeStages
  <2> QED BY <1>3, <2>1, RevocationAccepted, StageAccepted DEF Revoke
<1>4. CASE RegisterComposition
  <2>1. /\ draft.manifest \in Manifests
        /\ Terms(draft.manifest) \subseteq Sound(Current)
        /\ Terms(draft.manifest) # {}
      BY <1>4 DEF RegisterComposition, TypeOK, Drafts, BankInv, DraftSound,
         AcceptInv, DraftComposed
  <2> QED BY <1>4, <2>1, RegistrationKeeps DEF RegisterComposition
<1>5. ASSUME NEW p \in permits, Activate(p) PROVE AcceptInv'
  <2>1. staged'.entries = Current.entries
      BY <1>5, CurrentType, SnapshotFields DEF Activate, Stage
  <2> QED BY <1>5, <2>1, ActivationAccepted, StageAccepted DEF Activate
<1>6. ASSUME NEW slot \in Slots, NEW n \in 1 .. Tip,
             NEW p \in permits \union {None}, Rollback(slot, n, p)
      PROVE  AcceptInv'
  <2>1. staged'.entries = Current.entries
      BY <1>6, CurrentType, SnapshotFields DEF Rollback, Stage
  <2> QED BY <1>6, <2>1, RollbackAccepted, StageAccepted DEF Rollback
<1> QED BY <1>1, <1>2, <1>3, <1>4, <1>5, <1>6 DEF Mutate

\* The adapter that a registration adds follows the last generation.
LEMMA LineageExtended ==
    ASSUME TypeOK, AcceptInv, NEW m \in Manifests, Admissible(m),
           Current'.entries = Current.entries \union {m}
    PROVE  GenerationsCounted' /\ LineageUnbroken'
<1>1. Current.entries \subseteq Manifests
    BY CurrentType, SnapshotFields
<1>2. \/ Content[m].generation = 1
      \/ \E k \in Current.entries :
             /\ Content[k].generation \in Nat
             /\ Content[k].id = Content[m].id
             /\ Content[m].generation = Content[k].generation + 1
             /\ Content[m].lineage = Content[k].lineage
             /\ Slot(m) = Slot(k)
    BY DEF Admissible, Continues, AcceptInv, GenerationsCounted
<1>3. GenerationsCounted'
    BY <1>2 DEF AcceptInv, GenerationsCounted
<1>4. Content[m].generation > 1 =>
          \E k \in Current.entries :
              /\ Version(k) = <<Content[m].id, Content[m].generation - 1>>
              /\ Content[k].lineage = Content[m].lineage
              /\ Slot(k) = Slot(m)
  <2> SUFFICES ASSUME Content[m].generation > 1
               PROVE  \E k \in Current.entries :
                          /\ Version(k) = <<Content[m].id, Content[m].generation - 1>>
                          /\ Content[k].lineage = Content[m].lineage
                          /\ Slot(k) = Slot(m)
      OBVIOUS
  <2>1. PICK k \in Current.entries :
             /\ Content[k].generation \in Nat
             /\ Content[k].id = Content[m].id
             /\ Content[m].generation = Content[k].generation + 1
             /\ Content[m].lineage = Content[k].lineage
             /\ Slot(m) = Slot(k)
      BY <1>2
  <2>2. Content[k].generation = Content[m].generation - 1
      BY <2>1
  <2> QED BY <2>1, <2>2 DEF Version
<1>5. LineageUnbroken'
    BY <1>4 DEF AcceptInv, LineageUnbroken, Admissible
<1> QED BY <1>3, <1>5

LEMMA CommitKeeps ==
    ASSUME TypeOK, AcceptInv, PersistRevisionCommit
    PROVE  AcceptInv'
<1>1. /\ staged \in Snapshots /\ Tip' = Tip + 1 /\ Current' = staged
      /\ \A n \in 0 .. Tip : SnapshotAt(n)' = SnapshotAt(n)
    BY Committed
<1>2. /\ step = "publish" /\ step' = "head" /\ UNCHANGED <<permits, draft>>
      /\ Tip < MaxRevisions /\ ValidContract(staged, Tip + 1)
    BY DEF PersistRevisionCommit, Publishable
<1>3. RevisionsValid'
  <2>1. ASSUME NEW n \in 1 .. Tip + 1 PROVE ValidContract(SnapshotAt(n)', n)
    <3>1. CASE n = Tip + 1
        BY <3>1, <1>1, <1>2 DEF Current
    <3>2. CASE n \in 1 .. Tip
        BY <3>2, <1>1 DEF AcceptInv, RevisionsValid
    <3> QED BY <3>1, <3>2, TipType
  <2> QED BY <2>1, <1>1, <1>2 DEF RevisionsValid, ValidContract, UniqueEntries,
         RevocationsInOrder, ClosureComplete, ActiveBound, Sound, Revoked
<1>4. Admitted
    BY <1>2 DEF AcceptInv, StagedAdmitted, Admitted
<1>5. EntriesStay'
  <2>1. Current.entries \subseteq staged.entries
      BY <1>4 DEF Admitted
  <2>2. ASSUME NEW n \in 0 .. Tip + 1
        PROVE  SnapshotAt(n)'.entries \subseteq staged.entries
    <3>1. CASE n = Tip + 1
        BY <3>1, <1>1 DEF Current
    <3>2. CASE n \in 0 .. Tip
        BY <3>2, <1>1, <2>1 DEF AcceptInv, EntriesStay
    <3> QED BY <3>1, <3>2, TipType
  <2> QED BY <1>1, <2>2 DEF EntriesStay
<1>6. JournalFits'
    BY <1>1, <1>2, TipType, LimitAssumption DEF JournalFits
<1>7. GenerationsCounted' /\ LineageUnbroken'
  <2>1. CASE staged.entries = Current.entries
      BY <1>1, <2>1 DEF AcceptInv, GenerationsCounted, LineageUnbroken
  <2>2. CASE \E m \in Manifests :
                 Admissible(m) /\ staged.entries = Current.entries \union {m}
      BY <1>1, <2>2, LineageExtended
  <2> QED BY <1>4, <2>1, <2>2 DEF Admitted
<1> QED BY <1>2, <1>3, <1>5, <1>6, <1>7 DEF AcceptInv, DraftComposed,
       StagedAccepted, StagedAdmitted

LEMMA NextAccepts ==
    ASSUME TypeOK, BankInv, AcceptInv, [Next]_vars
    PROVE  AcceptInv'
<1>1. CASE Mutate
    BY <1>1, MutateKeeps
<1>2. CASE PersistRevisionCommit
    BY <1>2, CommitKeeps
<1>3. CASE RefusePublication \/ ReplaceHead \/ Crash
    BY <1>3, UnstagedKept DEF RefusePublication, ReplaceHead, Crash, Release, bank
<1>4. ASSUME NEW m \in Manifests, ComposeExact(m) PROVE AcceptInv'
  <2>1. Terms(m) # {}
      BY <1>4, FS_EmptySet DEF ComposeExact
  <2> QED BY <1>4, <2>1, UnstagedKept DEF ComposeExact, bank, writer
<1>5. CASE GiveUpComposition
    BY <1>5, UnstagedKept DEF GiveUpComposition, bank, writer
<1>6. CASE Resolve \/ LoseHead \/ UNCHANGED vars
    BY <1>6, UnstagedKept DEF Resolve, AuthenticateRevisionTip,
       AuthenticateHeadCache, ReturnFromResolve, LoseHead, vars, bank, writer
<1> QED BY <1>1, <1>2, <1>3, <1>4, <1>5, <1>6 DEF Next, Publish, Compose

LEMMA InitAccepts == Init => AcceptInv
<1> SUFFICES ASSUME Init PROVE AcceptInv
    OBVIOUS
<1>1. Tip = 0 /\ Current = Empty /\ SnapshotAt(0) = Empty
    BY DEF Init, Tip, Current, SnapshotAt
<1> QED BY <1>1, LimitAssumption DEF Init, AcceptInv, RevisionsValid, EntriesStay,
       JournalFits, DraftComposed, StagedAccepted, StagedAdmitted,
       GenerationsCounted, LineageUnbroken, Empty

THEOREM AcceptInvariant == Spec => []AcceptInv
<1>1. TypeOK /\ BankInv /\ AcceptInv /\ [Next]_vars => AcceptInv'
    BY NextAccepts
<1> QED BY InitAccepts, <1>1, TypeCorrect, BankInvariant, PTL DEF Spec

\* What import, composition, activation, revocation and rollback build, readers
\* accept as the next revision, unless the journal is full or a revocation
\* reaches what is revoked already.
THEOREM MutationsAreAccepted == Spec => []BuiltIsAccepted
<1>1. TypeOK /\ AcceptInv => BuiltIsAccepted
    BY TipType, LimitAssumption DEF AcceptInv, StagedAccepted, Accepted,
       JournalFits, BuiltIsAccepted, Publishable
<1> QED BY <1>1, TypeCorrect, AcceptInvariant, PTL

\* Every generation in the bank follows the one before it, in one lineage and
\* one slot, and no slot holds one delta twice.
THEOREM GenerationsFollow == Spec => []LineageUnbroken
<1>1. AcceptInv => LineageUnbroken
    BY DEF AcceptInv
<1> QED BY <1>1, AcceptInvariant, PTL
=============================================================================
