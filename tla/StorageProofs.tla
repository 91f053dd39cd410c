---------------------------- MODULE StorageProofs ----------------------------
(***************************************************************************)
(* What the storage layers keep, for every choice of the constants.         *)
(***************************************************************************)
EXTENDS MCStorage, FiniteSetTheorems, WellFoundedInduction, TLAPS

-----------------------------------------------------------------------------
(* Numbers.  That a set of numbers has a least one follows from the finite    *)
(* subsets of Nat being well founded under inclusion.                        *)

LEMMA LeastNumber ==
    ASSUME NEW S \in SUBSET Nat, S # {}
    PROVE  \E n \in S : \A m \in S : n <= m
<1> DEFINE T == {0 .. n : n \in S}
           R0 == StrictSubsetOrdering(Nat)
<1>1. T \subseteq FiniteSubsetsOf(Nat) /\ T # {}
  <2>1. ASSUME NEW n \in S PROVE 0 .. n \in FiniteSubsetsOf(Nat)
    <3>1. IsFiniteSet(0 .. n) /\ 0 .. n \in SUBSET Nat
        BY FS_Interval
    <3> QED BY <3>1 DEF FiniteSubsetsOf
  <2> QED BY <2>1
<1>2. IsWellFoundedOn(R0, FiniteSubsetsOf(Nat))
    BY FS_StrictSubsetOrderingWellFounded
<1> HIDE DEF R0
<1>3. PICK x \in T : \A y \in T : <<y, x>> \notin R0
  <2> HIDE DEF T
  <2> QED BY <1>1, <1>2, WFMin
<1>4. PICK n \in S : x = 0 .. n
    BY <1>3
<1>5. ASSUME NEW m \in S, m < n PROVE FALSE
  <2>1. 0 .. m \subseteq 0 .. n /\ n \in 0 .. n /\ n \notin 0 .. m
      BY <1>5
  <2>2. 0 .. m \in SUBSET Nat /\ 0 .. n \in SUBSET Nat
      OBVIOUS
  <2>3. <<0 .. m, 0 .. n>> \in R0
      BY <2>1, <2>2 DEF R0, StrictSubsetOrdering
  <2> QED BY <2>3, <1>3, <1>4
<1> QED BY <1>5

LEMMA MinIsIn ==
    ASSUME NEW S \in SUBSET Nat, S # {}
    PROVE  Min(S) \in S /\ \A m \in S : Min(S) <= m
BY LeastNumber DEF Min

LEMMA VaultMinIsIn ==
    ASSUME NEW S \in SUBSET Nat, S # {}
    PROVE  V!Min(S) \in S /\ \A m \in S : V!Min(S) <= m
BY LeastNumber DEF V!Min

-----------------------------------------------------------------------------
(* Installed releases.  A command that is past its repair finds the symlink  *)
(* at what is active; one that removes a release removes no way back.        *)

Installs == {"initialize", "inactive", "clean", "stage", "publish", "leave"}
Changes == {"activate", "rollback", "uninstall"}

\* The steps of a command are its own.
StepsFollow ==
    command # None =>
        /\ command.name = "install" <=> command.step \in Installs
        /\ command.step \in Changes => command.step = command.name
        /\ command.name # "rollback" => command.release # None
        /\ command.step = "remove" => command.name = "uninstall"

LinkFollows == activation = None => current = None

ChangesKnown ==
    \A step \in {"repair", "activate", "rollback", "point", "uninstall", "remove"} :
        R!At(step) => activation # None

Repaired ==
    \A step \in {"activate", "rollback", "uninstall", "remove"} :
        R!At(step) => current = activation.active

RemovesNoWayBack ==
    R!At("remove") => command.release \notin {activation.active, activation.previous}

ReleasesInv ==
    /\ R!ReleasesTypeOK
    /\ R!AlwaysRunnable
    /\ StepsFollow
    /\ LinkFollows
    /\ ChangesKnown
    /\ Repaired
    /\ RemovesNoWayBack

LEMMA ReleasesStart == R!ReleasesInit => ReleasesInv
BY Instances
   DEF R!ReleasesAssumption, R!ReleasesInit, ReleasesInv, R!ReleasesTypeOK,
       R!AlwaysRunnable, StepsFollow, LinkFollows, ChangesKnown, Repaired, RemovesNoWayBack, R!At

LEMMA ReleasesStep ==
    ASSUME ReleasesInv, R!ReleasesNext
    PROVE  ReleasesInv'
<1> USE Instances DEF R!ReleasesAssumption, ReleasesInv, R!ReleasesTypeOK,
        R!AlwaysRunnable, StepsFollow, LinkFollows, ChangesKnown, Repaired, RemovesNoWayBack,
        R!Activations, R!Commands,
        R!At, R!Goto, R!Exit, R!Inactive, Installs, Changes
<1>1. ASSUME NEW r \in Releases, R!StartInstall(r) PROVE ReleasesInv'
    BY <1>1 DEF R!StartInstall
<1>2. ASSUME NEW name \in {"activate", "rollback", "uninstall"},
             NEW r \in Releases \union {None}, r # None \/ name = "rollback",
             R!StartChange(name, r)
      PROVE  ReleasesInv'
    BY <1>2 DEF R!StartChange
<1>3. CASE R!WriteAuthority
    BY <1>3 DEF R!WriteAuthority
<1>4. CASE R!WriteInactive
  <2>1. R!ReleasesTypeOK'
      BY <1>4 DEF R!WriteInactive
  <2>2. R!AlwaysRunnable'
      BY <1>4 DEF R!WriteInactive
  <2>3. StepsFollow' /\ LinkFollows'
      BY <1>4 DEF R!WriteInactive
  <2>4. ChangesKnown' /\ Repaired' /\ RemovesNoWayBack'
      BY <1>4 DEF R!WriteInactive
  <2> QED BY <2>1, <2>2, <2>3, <2>4
<1>5. CASE R!CleanStages
  <2>1. R!ReleasesTypeOK'
      BY ZenonT(60), <1>5 DEF R!CleanStages
  <2>2. R!AlwaysRunnable'
      BY <1>5 DEF R!CleanStages
  <2>3. StepsFollow' /\ LinkFollows'
      BY <1>5 DEF R!CleanStages
  <2>4. ChangesKnown' /\ Repaired' /\ RemovesNoWayBack'
      BY <1>5 DEF R!CleanStages
  <2> QED BY <2>1, <2>2, <2>3, <2>4
<1>6. CASE R!CopyRelease
  <2>1. R!ReleasesTypeOK'
      BY <1>6 DEF R!CopyRelease
  <2>2. R!AlwaysRunnable'
      BY <1>6 DEF R!CopyRelease
  <2>3. StepsFollow' /\ LinkFollows'
      BY <1>6 DEF R!CopyRelease
  <2>4. ChangesKnown' /\ Repaired' /\ RemovesNoWayBack'
      BY <1>6 DEF R!CopyRelease
  <2> QED BY <2>1, <2>2, <2>3, <2>4
<1>7. CASE R!PublishRelease
  <2>1. R!ReleasesTypeOK'
      BY <1>7 DEF R!PublishRelease
  <2>2. R!AlwaysRunnable'
      BY <1>7 DEF R!PublishRelease
  <2>3. StepsFollow' /\ LinkFollows'
      BY <1>7 DEF R!PublishRelease
  <2>4. ChangesKnown' /\ Repaired' /\ RemovesNoWayBack'
      BY <1>7 DEF R!PublishRelease
  <2> QED BY <2>1, <2>2, <2>3, <2>4
<1>8. CASE R!LeaveStage
    BY <1>8 DEF R!LeaveStage
<1>9. CASE R!RepairCurrent
  <2>1. R!ReleasesTypeOK'
      BY <1>9 DEF R!RepairCurrent
  <2>2. R!AlwaysRunnable'
      BY <1>9 DEF R!RepairCurrent
  <2>3. StepsFollow' /\ LinkFollows'
      BY <1>9 DEF R!RepairCurrent
  <2>4. ChangesKnown' /\ Repaired' /\ RemovesNoWayBack'
      BY <1>9 DEF R!RepairCurrent
  <2> QED BY <2>1, <2>2, <2>3, <2>4
<1>10. CASE R!Activate
  <2>1. R!ReleasesTypeOK'
      BY <1>10 DEF R!Activate, R!Activated
  <2>2. R!AlwaysRunnable'
      BY <1>10 DEF R!Activate, R!Activated
  <2>3. StepsFollow' /\ LinkFollows'
      BY <1>10 DEF R!Activate, R!Activated
  <2>4. ChangesKnown' /\ Repaired' /\ RemovesNoWayBack'
      BY <1>10 DEF R!Activate, R!Activated
  <2> QED BY <2>1, <2>2, <2>3, <2>4
<1>11. CASE R!RollBack
  <2>1. command \in R!Commands /\ activation \in R!Activations
      BY <1>11 DEF R!RollBack
  <2>2. CASE activation.previous # None /\ store[activation.previous] = "whole"
    <3> DEFINE next == [active |-> activation.previous, previous |-> activation.active,
                        revision |-> activation.revision + 1]
    <3>1. /\ activation' = next
          /\ command' = [command EXCEPT !.step = "point"]
          /\ UNCHANGED <<authority, current, store, stage, kills>>
        BY <1>11, <2>2 DEF R!RollBack, R!Activated
    <3>2. /\ next \in R!Activations /\ next # None
          /\ command' \in R!Commands /\ command' # None /\ command'.step = "point"
        BY <1>11, <2>1, <2>2, <3>1 DEF R!RollBack
    <3>3. R!AlwaysRunnable'
        BY <1>11, <2>1, <2>2, <3>1, <3>2 DEF R!RollBack
    <3> QED BY <1>11, <2>1, <3>1, <3>2, <3>3 DEF R!RollBack
  <2>3. CASE ~(activation.previous # None /\ store[activation.previous] = "whole")
      BY <1>11, <2>3 DEF R!RollBack
  <2> QED BY <2>2, <2>3
<1>12. CASE R!PointCurrent
    BY <1>12 DEF R!PointCurrent
<1>13. CASE R!Uninstall
  <2> DEFINE r == command.release
  <2>1. command \in R!Commands /\ activation \in R!Activations
      BY <1>13 DEF R!Uninstall
  <2>2. CASE r = activation.active \/ store[r] = "absent"
      BY <1>13, <2>2 DEF R!Uninstall
  <2>3. CASE r # activation.active /\ store[r] # "absent" /\ r # activation.previous
      BY <1>13, <2>1, <2>3 DEF R!Uninstall
  <2>4. CASE r # activation.active /\ r = activation.previous
    <3> DEFINE next == [active |-> activation.active, previous |-> None,
                        revision |-> activation.revision + 1]
    <3>1. /\ activation' = next
          /\ command' = [command EXCEPT !.step = "remove"]
          /\ UNCHANGED <<authority, current, store, stage, kills>>
        BY ZenonT(60), <1>13, <2>1, <2>4 DEF R!Uninstall
    <3>2. /\ next \in R!Activations /\ next # None
          /\ command' \in R!Commands /\ command' # None /\ command'.step = "remove"
        BY <1>13, <2>1, <2>4, <3>1 DEF R!Uninstall
    <3> QED BY <1>13, <2>1, <2>4, <3>1, <3>2 DEF R!Uninstall
  <2> QED BY <2>2, <2>3, <2>4
<1>14. CASE R!RemoveRelease
  <2>1. R!ReleasesTypeOK'
      BY <1>14 DEF R!RemoveRelease
  <2>2. R!AlwaysRunnable'
      BY <1>14 DEF R!RemoveRelease
  <2>3. StepsFollow' /\ LinkFollows'
      BY <1>14 DEF R!RemoveRelease
  <2>4. ChangesKnown' /\ Repaired' /\ RemovesNoWayBack'
      BY <1>14 DEF R!RemoveRelease
  <2> QED BY <2>1, <2>2, <2>3, <2>4
<1>15. CASE R!Kill
    BY <1>15 DEF R!Kill
<1> QED
    BY <1>1, <1>2, <1>3, <1>4, <1>5, <1>6, <1>7, <1>8, <1>9, <1>10, <1>11, <1>12,
       <1>13, <1>14, <1>15 DEF R!ReleasesNext

-----------------------------------------------------------------------------
(* The content vault. *)

\* What a capture has read, staged and installed of its envelope.
CaptureFollows ==
    capture # None =>
        /\ capture.step = "observe" => DOMAIN capture.staged = {}
        /\ capture.step # "observe" => capture.envelope \in V!Envelopes
        /\ capture.step # "observe" =>
               /\ DOMAIN capture.staged \subseteq DOMAIN capture.envelope
               /\ \A f \in DOMAIN capture.staged : capture.staged[f] = capture.envelope[f]
        /\ capture.step \in {"recheck", "install", "confirm", "seal"} =>
               DOMAIN capture.staged = DOMAIN capture.envelope
        /\ capture.installed \subseteq DOMAIN capture.staged
        /\ capture.step \in {"confirm", "seal"} =>
               capture.installed = DOMAIN capture.staged
        /\ capture.step \in {"install", "confirm", "seal", "verify", "returned", "persist"} =>
               capture.envelope \in attested
        /\ IF capture.listed = None THEN DOMAIN capture.read = {}
           ELSE DOMAIN capture.read \subseteq capture.listed

\* What the last scan saw, the files held since the store was written.
SeenWasHeld ==
    /\ capture # None => \A f \in Files : donor[f] \in held[f]
    /\ V!Runs("confirm") =>
           /\ \A f \in DOMAIN capture.read : capture.read[f] \in held[f]
           /\ capture.listed # None =>
                  \A f \in Files \ capture.listed : None \in held[f]

\* What persist has verified is in the root it writes to, unless the path moved.
CheckedIsThere ==
    V!Runs("persist") =>
        /\ capture.swaps <= events.swaps
        /\ capture.swaps = events.swaps =>
               \A f \in capture.checked : capture.envelope[f] \in cas[root]

HistoryTyped == held \in [Files -> SUBSET (Contents \union {None})]

VaultInv ==
    /\ V!VaultTypeOK
    /\ HistoryTyped
    /\ CaptureFollows
    /\ SeenWasHeld
    /\ CheckedIsThere
    /\ V!NothingShownEarly
    /\ V!SealsWhatWasThere
    /\ V!HandedOutStaysWhole

LEMMA NoFilesIsEmpty ==
    /\ V!NoFiles \in V!Envelopes
    /\ DOMAIN V!NoFiles = {}
<1>1. V!NoFiles \in [{} -> Contents]
    BY DEF V!NoFiles
<1>2. {} \in SUBSET Files
    OBVIOUS
<1> QED BY <1>1, <1>2 DEF V!Envelopes

LEMMA PutIsIn ==
    ASSUME NEW g, NEW x, NEW v
    PROVE  /\ DOMAIN V!Put(g, x, v) = DOMAIN g \union {x}
           /\ V!Put(g, x, v)[x] = v
           /\ \A y \in DOMAIN g \ {x} : V!Put(g, x, v)[y] = g[y]
BY DEF V!Put

\* A tree with one more file.
LEMMA EnvelopeExtended ==
    ASSUME NEW g \in V!Envelopes, NEW x \in Files, NEW c \in Contents
    PROVE  V!Put(g, x, c) \in V!Envelopes
<1>1. PICK S \in SUBSET Files : g \in [S -> Contents]
    BY DEF V!Envelopes
<1> DEFINE grown == V!Put(g, x, c)
<1>2. grown \in [S \union {x} -> Contents]
    BY <1>1 DEF V!Put
<1>3. S \union {x} \in SUBSET Files
    OBVIOUS
<1> QED BY <1>2, <1>3 DEF V!Envelopes

LEMMA EnvelopeType ==
    ASSUME NEW g \in V!Envelopes
    PROVE  /\ DOMAIN g \in SUBSET Files
           /\ \A f \in DOMAIN g : g[f] \in Contents
BY DEF V!Envelopes

LEMMA VaultStarts == V!VaultInit => VaultInv
BY Instances, NoFilesIsEmpty
   DEF V!VaultAssumption, V!VaultInit, VaultInv, V!VaultTypeOK, HistoryTyped,
       CaptureFollows, SeenWasHeld, CheckedIsThere, V!NothingShownEarly,
       V!SealsWhatWasThere, V!HandedOutStaysWhole, V!Runs, V!Captures, V!Materializations

LEMMA OpenCaptureKeeps == VaultInv /\ V!OpenCapture => VaultInv'
<1> SUFFICES ASSUME VaultInv, V!OpenCapture PROVE VaultInv'
    OBVIOUS
<1> USE Instances, NoFilesIsEmpty DEF VaultInv, V!VaultAssumption, V!OpenCapture
<1>1. V!VaultTypeOK'
  <2>1. capture' \in V!Captures
    <3>1. root \in Roots
        BY DEF V!VaultTypeOK
    <3> QED BY <3>1 DEF V!Captures
  <2>2. events' \in [changes : Nat, swaps : Nat, kills : Nat, captures : Nat]
    <3>1. /\ events \in [changes : Nat, swaps : Nat, kills : Nat, captures : Nat]
          /\ events' = [events EXCEPT !.captures = @ + 1]
        BY DEF V!VaultTypeOK
    <3> HIDE DEF VaultInv, V!VaultAssumption, V!OpenCapture
    <3> QED BY <3>1
  <2> QED BY <2>1, <2>2 DEF V!VaultTypeOK
<1>2. HistoryTyped' /\ CaptureFollows' /\ SeenWasHeld' /\ CheckedIsThere'
    BY DEF HistoryTyped, CaptureFollows, SeenWasHeld, CheckedIsThere, V!VaultTypeOK, V!Runs
<1>3. V!NothingShownEarly' /\ V!SealsWhatWasThere' /\ V!HandedOutStaysWhole'
    BY DEF V!NothingShownEarly, V!SealsWhatWasThere, V!HandedOutStaysWhole, V!Runs
<1> QED BY <1>1, <1>2, <1>3

\* The capture goes on, and nothing else moves but what was attested.
LEMMA CaptureMoves ==
    ASSUME VaultInv, capture \in V!Captures, capture' \in V!Captures, V!Untouched,
           UNCHANGED <<cas, held>>,
           attested' = attested \/ attested' = attested \union {capture.envelope},
           attested' # attested => capture.envelope \in V!Envelopes,
           CaptureFollows', SeenWasHeld', V!SealsWhatWasThere',
           capture'.step # "persist" \/ CheckedIsThere'
    PROVE  VaultInv'
<1> USE DEF VaultInv, V!Untouched, V!Elsewhere
<1>1. V!VaultTypeOK'
    BY DEF V!VaultTypeOK
<1>2. V!NothingShownEarly'
    BY DEF V!NothingShownEarly
<1>3. HistoryTyped' /\ V!HandedOutStaysWhole'
    BY DEF HistoryTyped, V!HandedOutStaysWhole
<1>4. CheckedIsThere'
    BY DEF CheckedIsThere, V!Runs
<1> QED BY <1>1, <1>2, <1>3, <1>4

\* A capture that fails leaves what is kept as it is.
LEMMA CaptureEnds ==
    ASSUME VaultInv, capture' = None, UNCHANGED <<donor, stamp, root, cas, receipts,
           projection, reader, held, attested, astray, handed, disputed>>,
           events' \in [changes : Nat, swaps : Nat, kills : Nat, captures : Nat]
    PROVE  VaultInv'
BY DEF VaultInv, V!VaultTypeOK, HistoryTyped, CaptureFollows, SeenWasHeld, CheckedIsThere,
   V!NothingShownEarly, V!SealsWhatWasThere, V!HandedOutStaysWhole, V!Runs

LEMMA CaptureFails ==
    ASSUME VaultInv, capture' = None, V!Untouched, UNCHANGED <<cas, held, attested>>
    PROVE  VaultInv'
BY CaptureEnds DEF V!Untouched, V!Elsewhere, VaultInv, V!VaultTypeOK

LEMMA ListDirectoryKeeps == VaultInv /\ V!ListDirectory => VaultInv'
<1> SUFFICES ASSUME VaultInv, V!ListDirectory PROVE VaultInv'
    OBVIOUS
<1> USE DEF V!ListDirectory, V!Scanning
<1>1. /\ capture # None /\ capture \in V!Captures
      /\ donor \in [Files -> Contents \union {None}] /\ stamp \in Nat
      /\ V!Listed \in SUBSET Files
    BY DEF VaultInv, V!VaultTypeOK, V!Listed
<1>2. capture' \in V!Captures
    BY <1>1 DEF V!Captures
<1>3. CaptureFollows'
    BY <1>1, Instances DEF VaultInv, V!VaultAssumption, CaptureFollows, V!Captures
<1>4. SeenWasHeld'
    BY <1>1 DEF VaultInv, SeenWasHeld, V!Runs, V!Listed, V!Captures, CaptureFollows,
       V!Untouched, V!Elsewhere
<1>5. V!SealsWhatWasThere' /\ capture'.step # "persist"
    BY <1>1 DEF V!SealsWhatWasThere, V!Runs, V!Captures
<1> QED BY <1>1, <1>2, <1>3, <1>4, <1>5, CaptureMoves

LEMMA ReadFileKeeps == VaultInv /\ V!ReadFile => VaultInv'
<1> SUFFICES ASSUME VaultInv, V!ReadFile PROVE VaultInv'
    OBVIOUS
<1> USE DEF V!ReadFile, V!Scanning
<1>1. CASE capture' = None
    BY <1>1, CaptureFails
<1>2. CASE capture' # None
  <2> DEFINE f == V!Min(V!Unread)
             read == V!Put(capture.read, f, donor[f])
  <2>1. /\ capture # None /\ capture \in V!Captures
        /\ capture.read \in V!Envelopes
        /\ donor \in [Files -> Contents \union {None}]
      BY DEF VaultInv, V!VaultTypeOK, V!Captures
  <2>2. V!Unread \in SUBSET Nat /\ V!Unread \subseteq Files
      BY <2>1, Instances DEF V!VaultAssumption, V!Unread, V!Captures
  <2>3. f \in V!Unread
      BY <2>2, VaultMinIsIn
  <2>4. f \in Files /\ capture.listed # None /\ f \in capture.listed
      BY <2>1, <2>3, <2>2 DEF V!Unread
  <2>5. capture' = [capture EXCEPT !.read = read] /\ donor[f] # None
    <3>1. /\ donor[f] # None
          /\ capture' = [capture EXCEPT !.read = read]
        BY <1>2 DEF V!Fail
    <3> QED BY <3>1
  <2> HIDE DEF f
  <2>6. read \in V!Envelopes /\ DOMAIN read = DOMAIN capture.read \union {f}
        /\ \A y \in DOMAIN read : read[y] = IF y = f THEN donor[f] ELSE capture.read[y]
    <3>1. donor[f] \in Contents
        BY <2>1, <2>4, <2>5
    <3>2. read \in V!Envelopes
        BY <2>1, <2>4, <3>1, EnvelopeExtended
    <3> QED BY <3>2, PutIsIn DEF V!Put
  <2> HIDE DEF read
  <2>7. capture' \in V!Captures
      BY <2>1, <2>5, <2>6 DEF V!Captures
  <2>8. CaptureFollows'
      BY <2>1, <2>4, <2>5, <2>6 DEF VaultInv, CaptureFollows, V!Captures
  <2>9. SeenWasHeld'
      BY <2>1, <2>4, <2>5, <2>6 DEF VaultInv, SeenWasHeld, V!Runs, V!Captures, V!Untouched,
         V!Elsewhere
  <2>10. V!SealsWhatWasThere' /\ capture'.step # "persist"
      BY <2>1, <2>5 DEF V!SealsWhatWasThere, V!Runs, V!Captures
  <2> QED BY <2>1, <2>7, <2>8, <2>9, <2>10, CaptureMoves
<1> QED BY <1>1, <1>2

LEMMA EndScanKeeps == VaultInv /\ V!EndScan => VaultInv'
<1> SUFFICES ASSUME VaultInv, V!EndScan PROVE VaultInv'
    OBVIOUS
<1>1. CASE ~V!ScanAgrees \/ (root # capture.pinned /\ capture.step # "confirm")
    BY <1>1, CaptureFails DEF V!EndScan, V!Fail
<1>2. CASE V!ScanAgrees /\ (root = capture.pinned \/ capture.step = "confirm")
  <2>1. /\ capture # None /\ capture \in V!Captures /\ capture.read \in V!Envelopes
        /\ capture.step \in {"observe", "recheck", "confirm"}
        /\ capture.listed # None /\ capture.listed \in SUBSET Files
        /\ DOMAIN capture.read = capture.listed
      BY DEF VaultInv, V!VaultTypeOK, V!Captures, V!EndScan, V!Scanned, V!Scanning,
             V!Unread, CaptureFollows
  <2>2. CaptureFollows
      BY DEF VaultInv
  <2>3. CASE capture.step = "observe"
    <3>1. capture' = [capture EXCEPT !.step = "stage", !.envelope = capture.read]
          /\ attested' = attested
        BY <1>2, <2>3 DEF V!EndScan
    <3>2. capture' \in V!Captures
        BY <2>1, <3>1 DEF V!Captures
    <3>3. CaptureFollows'
        BY <2>1, <2>2, <2>3, <3>1 DEF CaptureFollows, V!Captures
    <3>4. SeenWasHeld' /\ V!SealsWhatWasThere'
        BY <2>1, <3>1 DEF VaultInv, V!EndScan, V!Untouched, V!Elsewhere, SeenWasHeld,
           V!SealsWhatWasThere, V!Runs, V!Captures
    <3> QED BY <2>1, <3>1, <3>2, <3>3, <3>4, CaptureMoves DEF V!EndScan, V!Captures
  <2>4. CASE capture.step = "recheck"
    <3>1. capture' = [capture EXCEPT !.step = "install"]
          /\ attested' = attested \union {capture.envelope}
        BY <1>2, <2>4 DEF V!EndScan
    <3>2. capture' \in V!Captures /\ capture.envelope \in V!Envelopes
        BY <2>1, <2>2, <2>4, <3>1 DEF V!Captures, CaptureFollows
    <3>3. CaptureFollows'
        BY <2>1, <2>2, <2>4, <3>1 DEF CaptureFollows, V!Captures
    <3>4. SeenWasHeld' /\ V!SealsWhatWasThere'
        BY <2>1, <3>1 DEF VaultInv, V!EndScan, V!Untouched, V!Elsewhere, SeenWasHeld,
           V!SealsWhatWasThere, V!Runs, V!Captures
    <3> QED BY <2>1, <3>1, <3>2, <3>3, <3>4, CaptureMoves DEF V!EndScan, V!Captures
  <2>5. CASE capture.step = "confirm"
    <3>1. capture' = [capture EXCEPT !.step = "seal"]
          /\ attested' = attested /\ capture.read = capture.envelope
        BY <1>2, <2>5 DEF V!EndScan, V!ScanAgrees
    <3>2. capture' \in V!Captures
        BY <2>1, <3>1 DEF V!Captures
    <3>3. CaptureFollows'
        BY <2>1, <2>2, <2>5, <3>1 DEF CaptureFollows, V!Captures
    <3>4. SeenWasHeld'
        BY <2>1, <3>1 DEF VaultInv, V!EndScan, V!Untouched, V!Elsewhere, SeenWasHeld,
           V!Runs, V!Captures
    <3>5. V!SealsWhatWasThere'
      <4>1. \A f \in DOMAIN capture.read : capture.read[f] \in held[f]
          BY <2>1, <2>5 DEF VaultInv, SeenWasHeld, V!Runs
      <4>2. \A f \in Files \ DOMAIN capture.read : None \in held[f]
          BY <2>1, <2>5 DEF VaultInv, SeenWasHeld, V!Runs
      <4>3. capture.installed = DOMAIN capture.envelope
          BY <2>1, <2>2, <2>5 DEF CaptureFollows
      <4> QED BY <2>1, <3>1, <4>1, <4>2, <4>3
              DEF V!EndScan, V!SealsWhatWasThere, V!Runs, V!Captures
    <3> QED BY <2>1, <3>1, <3>2, <3>3, <3>4, <3>5, CaptureMoves
            DEF V!EndScan, V!Captures
  <2> QED BY <2>1, <2>3, <2>4, <2>5
<1> QED BY <1>1, <1>2

LEMMA RescanKeeps ==
    ASSUME VaultInv, capture # None, V!Untouched, UNCHANGED <<cas, held, attested>>,
           NEW step \in {"recheck", "confirm"}, capture' = V!Rescan(step),
           capture.envelope \in V!Envelopes, DOMAIN capture.staged = DOMAIN capture.envelope,
           capture.step # "observe",
           step = "confirm" => /\ capture.step = "install"
                               /\ capture.installed = DOMAIN capture.staged
    PROVE  VaultInv'
<1>1. capture \in V!Captures
    BY DEF VaultInv, V!VaultTypeOK
<1>2. capture' \in V!Captures
    BY <1>1, NoFilesIsEmpty DEF V!Captures, V!Rescan
<1>3. CaptureFollows'
    BY <1>1, NoFilesIsEmpty DEF VaultInv, CaptureFollows, V!Captures, V!Rescan
<1>4. SeenWasHeld'
    BY <1>1, NoFilesIsEmpty DEF VaultInv, SeenWasHeld, V!Runs, V!Captures, V!Rescan,
       V!Untouched, V!Elsewhere
<1>5. V!SealsWhatWasThere' /\ capture'.step # "persist"
    BY <1>1 DEF V!SealsWhatWasThere, V!Runs, V!Captures, V!Rescan
<1> QED BY <1>1, <1>2, <1>3, <1>4, <1>5, CaptureMoves

LEMMA StageFileKeeps == VaultInv /\ V!StageFile => VaultInv'
<1> SUFFICES ASSUME VaultInv, V!StageFile PROVE VaultInv'
    OBVIOUS
<1> DEFINE rest == DOMAIN capture.envelope \ DOMAIN capture.staged
           f == V!Min(rest)
           staged == V!Put(capture.staged, f, donor[f])
<1> USE DEF V!StageFile, V!Runs
<1>1. /\ capture # None /\ capture \in V!Captures /\ capture.step = "stage"
      /\ capture.envelope \in V!Envelopes /\ capture.staged \in V!Envelopes
      /\ CaptureFollows
    BY DEF VaultInv, V!VaultTypeOK, V!Captures, CaptureFollows
<1>2. CASE rest = {}
  <2>1. capture' = V!Rescan("recheck") /\ V!Untouched
        /\ UNCHANGED <<cas, held, attested>>
      BY <1>2
  <2>2. DOMAIN capture.staged = DOMAIN capture.envelope
      BY <1>1, <1>2 DEF CaptureFollows
  <2> QED BY <1>1, <2>1, <2>2, RescanKeeps
<1>3. CASE rest # {} /\ root = capture.pinned /\ V!CopyAgrees(f)
  <2>1. /\ capture' = [capture EXCEPT !.staged = staged]
        /\ donor[f] = capture.envelope[f]
      BY <1>3 DEF V!CopyAgrees
  <2>2. f \in rest
    <3>1. rest \in SUBSET Nat
        BY <1>1, EnvelopeType, Instances DEF V!VaultAssumption
    <3> QED BY <3>1, <1>3, VaultMinIsIn
  <2> HIDE DEF f
  <2>3. f \in DOMAIN capture.envelope /\ f \in Files /\ donor[f] \in Contents
      BY <1>1, <2>1, <2>2, EnvelopeType
  <2>4. /\ staged \in V!Envelopes
        /\ DOMAIN staged = DOMAIN capture.staged \union {f}
        /\ \A y \in DOMAIN staged : staged[y] = IF y = f THEN donor[f] ELSE capture.staged[y]
    <3>1. staged \in V!Envelopes
        BY <1>1, <2>3, EnvelopeExtended
    <3> QED BY <3>1 DEF V!Put
  <2> HIDE DEF staged, rest
  <2>5. capture' \in V!Captures
      BY <1>1, <2>1, <2>4 DEF V!Captures
  <2>6. CaptureFollows'
      BY <1>1, <2>1, <2>3, <2>4 DEF CaptureFollows, V!Captures
  <2>7. SeenWasHeld' /\ V!SealsWhatWasThere' /\ capture'.step # "persist"
      BY <1>1, <2>1 DEF VaultInv, SeenWasHeld, V!SealsWhatWasThere, V!Captures, V!Untouched,
         V!Elsewhere
  <2> QED BY <1>1, <2>5, <2>6, <2>7, CaptureMoves
<1>4. CASE rest # {} /\ ~(root = capture.pinned /\ V!CopyAgrees(f))
    BY <1>4, CaptureFails DEF V!Fail
<1> QED BY <1>2, <1>3, <1>4

LEMMA InstallFileKeeps == VaultInv /\ V!InstallFile => VaultInv'
<1> SUFFICES ASSUME VaultInv, V!InstallFile PROVE VaultInv'
    OBVIOUS
<1> DEFINE rest == DOMAIN capture.staged \ capture.installed
           f == V!Min(rest)
<1> USE DEF V!InstallFile, V!Runs
<1>1. /\ capture # None /\ capture \in V!Captures /\ capture.step = "install"
      /\ capture.envelope \in V!Envelopes /\ capture.staged \in V!Envelopes
      /\ CaptureFollows
      /\ DOMAIN capture.staged = DOMAIN capture.envelope
    BY DEF VaultInv, V!VaultTypeOK, V!Captures, CaptureFollows
<1>2. CASE rest = {} /\ root = capture.pinned
  <2>1. /\ capture' = V!Rescan("confirm") /\ V!Untouched
        /\ UNCHANGED <<cas, held, attested>>
      BY <1>2
  <2>2. capture.installed = DOMAIN capture.staged
      BY <1>1, <1>2 DEF CaptureFollows
  <2> QED BY <1>1, <2>1, <2>2, RescanKeeps
<1>3. CASE rest # {} /\ root = capture.pinned
  <2>1. /\ cas' = [cas EXCEPT ![root] = @ \union {capture.staged[f]}]
        /\ capture' = [capture EXCEPT !.installed = @ \union {f}]
        /\ held' = [x \in Files |-> {donor[x]}]
        /\ UNCHANGED <<donor, stamp, root, projection, reader, events, handed, disputed,
                       receipts, attested, astray>>
      BY <1>3 DEF V!Untouched, V!Elsewhere
  <2>2. f \in rest
    <3>1. rest \in SUBSET Nat
        BY <1>1, EnvelopeType, Instances DEF V!VaultAssumption
    <3> QED BY <3>1, <1>3, VaultMinIsIn
  <2> HIDE DEF f
  <2>3. /\ f \in DOMAIN capture.staged /\ f \in Files /\ capture.staged[f] \in Contents
        /\ f \in DOMAIN capture.envelope /\ capture.staged[f] = capture.envelope[f]
        /\ capture.envelope \in attested
      BY <1>1, <2>2, EnvelopeType DEF CaptureFollows
  <2>4. capture' \in V!Captures
      BY <1>1, <2>1, <2>3 DEF V!Captures
  <2>5. V!VaultTypeOK' /\ HistoryTyped'
      BY <2>1, <2>3, <2>4 DEF VaultInv, V!VaultTypeOK, HistoryTyped
  <2>6. CaptureFollows'
      BY <1>1, <2>1, <2>3 DEF CaptureFollows, V!Captures
  <2>7. SeenWasHeld' /\ CheckedIsThere' /\ V!SealsWhatWasThere' /\ V!HandedOutStaysWhole'
      BY <1>1, <2>1 DEF VaultInv, SeenWasHeld, CheckedIsThere, V!SealsWhatWasThere,
         V!Captures, V!HandedOutStaysWhole
  <2>8. V!NothingShownEarly'
    <3>1. cas \in [Roots -> SUBSET Contents] /\ root \in Roots
        BY DEF VaultInv, V!VaultTypeOK
    <3> QED BY <2>1, <2>3, <3>1 DEF VaultInv, V!NothingShownEarly
  <2> QED BY <2>5, <2>6, <2>7, <2>8 DEF VaultInv
<1>4. CASE root # capture.pinned
    BY <1>4, CaptureFails DEF V!Fail
<1> QED BY <1>2, <1>3, <1>4

\* The steps from the seal on move the capture alone.
LEMMA ReceiptMoves ==
    ASSUME VaultInv, capture # None,
           capture.step \in {"seal", "verify", "returned", "persist"},
           V!Untouched, UNCHANGED <<cas, held, attested>>,
           NEW next, capture' = next,
           next.step \in {"verify", "returned", "persist"}, next \in V!Captures,
           next.envelope = capture.envelope, next.staged = capture.staged,
           next.installed = capture.installed, next.listed = capture.listed,
           next.read = capture.read,
           next.step # "persist" \/ CheckedIsThere'
    PROVE  VaultInv'
<1>1. capture \in V!Captures /\ CaptureFollows
    BY DEF VaultInv, V!VaultTypeOK
<1>2. CaptureFollows'
    BY <1>1 DEF CaptureFollows, V!Untouched
<1>3. SeenWasHeld' /\ V!SealsWhatWasThere'
    BY DEF VaultInv, SeenWasHeld, V!SealsWhatWasThere, V!Runs, V!Untouched, V!Elsewhere
<1> QED BY <1>1, <1>2, <1>3, CaptureMoves

LEMMA SealReceiptKeeps == VaultInv /\ V!SealReceipt => VaultInv'
<1> SUFFICES ASSUME VaultInv, V!SealReceipt PROVE VaultInv'
    OBVIOUS
<1> USE DEF V!SealReceipt, V!Runs
<1>1. CASE root = capture.pinned
  <2> DEFINE next == [capture EXCEPT !.step = "verify"]
  <2>1. capture \in V!Captures
      BY DEF VaultInv, V!VaultTypeOK
  <2> QED BY <1>1, <2>1, ReceiptMoves DEF V!Captures
<1>2. CASE root # capture.pinned
    BY <1>2, CaptureFails
<1> QED BY <1>1, <1>2

LEMMA CheckObjectKeeps == VaultInv /\ V!CheckObject => VaultInv'
<1> SUFFICES ASSUME VaultInv, V!CheckObject PROVE VaultInv'
    OBVIOUS
<1> DEFINE f == V!Min(V!Unchecked)
           next == [capture EXCEPT !.checked = @ \union {f}]
<1> USE DEF V!CheckObject, V!Runs
<1>1. /\ capture # None /\ capture \in V!Captures
      /\ capture.step \in {"verify", "persist"}
      /\ capture.envelope \in V!Envelopes
    BY DEF VaultInv, V!VaultTypeOK, CaptureFollows
<1>2. CASE capture.envelope[f] \notin cas[root]
    BY <1>2, CaptureFails
<1>3. CASE capture.envelope[f] \in cas[root]
  <2>1. capture' = next
      BY <1>3
  <2>2. f \in Files
    <3>1. V!Unchecked \in SUBSET Nat /\ V!Unchecked \subseteq Files
        BY <1>1, EnvelopeType, Instances DEF V!VaultAssumption, V!Unchecked
    <3> QED BY <3>1, VaultMinIsIn
  <2> HIDE DEF f
  <2>3. next \in V!Captures
      BY <1>1, <2>2 DEF V!Captures
  <2>4. CheckedIsThere'
    <3>1. UNCHANGED <<cas, root, events>>
        BY DEF V!Untouched, V!Elsewhere
    <3> QED BY <1>1, <1>3, <2>1, <3>1 DEF VaultInv, CheckedIsThere, V!Captures
  <2>5. /\ next.step = capture.step /\ next.envelope = capture.envelope
        /\ next.staged = capture.staged /\ next.installed = capture.installed
        /\ next.listed = capture.listed /\ next.read = capture.read
      BY <1>1 DEF V!Captures
  <2> HIDE DEF next
  <2> QED BY <1>1, <2>1, <2>3, <2>4, <2>5, ReceiptMoves
<1> QED BY <1>2, <1>3

LEMMA ReturnReceiptKeeps == VaultInv /\ V!ReturnReceipt => VaultInv'
<1> SUFFICES ASSUME VaultInv, V!ReturnReceipt PROVE VaultInv'
    OBVIOUS
<1> DEFINE next == [capture EXCEPT !.step = "returned"]
<1>1. capture \in V!Captures
    BY DEF VaultInv, V!VaultTypeOK, V!ReturnReceipt, V!Runs
<1> QED BY <1>1, ReceiptMoves DEF V!ReturnReceipt, V!Runs, V!Captures

LEMMA PersistKeeps == VaultInv /\ V!Persist => VaultInv'
<1> SUFFICES ASSUME VaultInv, V!Persist PROVE VaultInv'
    OBVIOUS
<1> DEFINE next == [capture EXCEPT !.step = "persist", !.checked = {},
                                   !.swaps = events.swaps]
<1>1. /\ capture \in V!Captures /\ capture # None /\ capture.step = "returned"
      /\ events.swaps \in Nat
    BY DEF VaultInv, V!VaultTypeOK, V!Persist, V!Runs
<1>2. next \in V!Captures
    BY <1>1 DEF V!Captures
<1>3. /\ next.step = "persist" /\ next.envelope = capture.envelope
      /\ next.staged = capture.staged /\ next.installed = capture.installed
      /\ next.listed = capture.listed /\ next.read = capture.read
      /\ next.checked = {} /\ next.swaps = events.swaps
    BY <1>1 DEF V!Captures
<1>4. capture' = next /\ V!Untouched /\ UNCHANGED <<cas, held, attested>>
    BY DEF V!Persist
<1> HIDE DEF next
<1>5. CheckedIsThere'
    BY <1>1, <1>3, <1>4 DEF CheckedIsThere, V!Untouched, V!Elsewhere
<1> QED BY <1>1, <1>2, <1>3, <1>4, <1>5, ReceiptMoves

LEMMA WriteReceiptKeeps == VaultInv /\ V!WriteReceipt => VaultInv'
<1> SUFFICES ASSUME VaultInv, V!WriteReceipt PROVE VaultInv'
    OBVIOUS
<1> USE DEF V!WriteReceipt, V!Runs, V!Fail, V!Elsewhere
<1> DEFINE x == capture.envelope
<1>1. /\ capture # None /\ capture \in V!Captures /\ capture.step = "persist"
      /\ x \in V!Envelopes /\ x \in attested /\ root \in Roots
    BY DEF VaultInv, V!VaultTypeOK, CaptureFollows
<1>2. /\ receipts' = [receipts EXCEPT ![root] = @ \union {x}]
      /\ capture' = None
      /\ astray \subseteq astray' /\ astray' \subseteq astray \union {<<root, x>>}
      /\ UNCHANGED <<donor, stamp, root, projection, reader, events, handed, disputed,
                     cas, held, attested>>
    OBVIOUS
<1>3. <<root, x>> \notin astray' => \A f \in DOMAIN x : x[f] \in cas[root]
    BY <1>1 DEF VaultInv, CheckedIsThere, V!Unchecked
<1>4. V!VaultTypeOK'
    BY <1>1, <1>2 DEF VaultInv, V!VaultTypeOK
<1> HIDE DEF V!WriteReceipt, x
<1>5. V!NothingShownEarly'
  <2>1. receipts \in [Roots -> SUBSET V!Envelopes]
      BY DEF VaultInv, V!VaultTypeOK
  <2> QED BY <1>1, <1>2, <1>3, <2>1 DEF VaultInv, V!NothingShownEarly
<1> QED BY <1>2, <1>4, <1>5
        DEF VaultInv, HistoryTyped, CaptureFollows, SeenWasHeld, CheckedIsThere,
            V!SealsWhatWasThere, V!HandedOutStaysWhole

LEMMA KillCaptureKeeps == VaultInv /\ V!KillCapture => VaultInv'
BY CaptureEnds DEF V!KillCapture, V!Fail, VaultInv, V!VaultTypeOK

LEMMA DonorChangesKeeps ==
    ASSUME VaultInv, NEW f \in Files, NEW c \in Contents \union {None}, V!DonorChanges(f, c)
    PROVE  VaultInv'
<1> USE DEF V!DonorChanges
<1>1. V!VaultTypeOK' /\ HistoryTyped'
    BY DEF VaultInv, V!VaultTypeOK, HistoryTyped
<1>2. \A x \in Files : held[x] \subseteq held'[x]
    BY DEF VaultInv, HistoryTyped
<1>3. /\ CaptureFollows' /\ CheckedIsThere'
      /\ V!NothingShownEarly' /\ V!HandedOutStaysWhole'
    BY DEF VaultInv, CaptureFollows, CheckedIsThere, V!NothingShownEarly,
       V!HandedOutStaysWhole, V!VaultTypeOK, V!Runs
<1>4. SeenWasHeld'
  <2>1. capture # None => \A x \in Files : donor'[x] \in held'[x]
      BY <1>2 DEF VaultInv, HistoryTyped, V!VaultTypeOK, SeenWasHeld
  <2>2. capture # None => DOMAIN capture.read \subseteq Files
      BY EnvelopeType DEF VaultInv, V!VaultTypeOK, V!Captures
  <2> QED BY <1>2, <2>1, <2>2 DEF VaultInv, SeenWasHeld, V!Runs
<1>5. V!SealsWhatWasThere'
  <2>1. V!Runs("seal") => DOMAIN capture.envelope \subseteq Files
      BY EnvelopeType DEF VaultInv, CaptureFollows, V!Runs
  <2> QED BY <1>2, <2>1 DEF VaultInv, V!SealsWhatWasThere, V!Runs
<1> QED BY <1>1, <1>3, <1>4, <1>5 DEF VaultInv

LEMMA SwapRootKeeps ==
    ASSUME VaultInv, NEW d \in Roots, V!SwapRoot(d)
    PROVE  VaultInv'
<1> USE DEF V!SwapRoot, VaultInv
<1>1. events'.swaps = events.swaps + 1 /\ events.swaps \in Nat
    BY DEF V!VaultTypeOK
<1>2. V!VaultTypeOK' /\ HistoryTyped' /\ V!NothingShownEarly'
    BY DEF V!VaultTypeOK, HistoryTyped, V!NothingShownEarly
<1>3. CaptureFollows' /\ SeenWasHeld' /\ V!SealsWhatWasThere' /\ V!HandedOutStaysWhole'
    BY DEF CaptureFollows, SeenWasHeld, V!SealsWhatWasThere, V!HandedOutStaysWhole, V!Runs
<1>4. CheckedIsThere'
    BY <1>1 DEF CheckedIsThere, V!Runs, V!VaultTypeOK, V!Captures
<1> QED BY <1>2, <1>3, <1>4

\* What a reader does touches projections alone.
LEMMA ReaderMoves ==
    ASSUME VaultInv, UNCHANGED <<donor, stamp, root, cas, capture, receipts, held, attested,
                                 astray>>,
           events' \in [changes : Nat, swaps : Nat, kills : Nat, captures : Nat],
           events'.swaps = events.swaps,
           reader' \in [Readers -> {None} \union V!Materializations],
           DOMAIN projection' \subseteq Roots \X V!Envelopes,
           handed' \subseteq Roots \X V!Envelopes, disputed' \subseteq Roots \X V!Envelopes,
           V!HandedOutStaysWhole'
    PROVE  VaultInv'
BY DEF VaultInv, V!VaultTypeOK, HistoryTyped, CaptureFollows, SeenWasHeld, CheckedIsThere,
   V!NothingShownEarly, V!SealsWhatWasThere, V!Runs

LEMMA OpenProjectionKeeps ==
    ASSUME VaultInv, NEW r \in Readers, NEW x \in receipts[root], V!OpenProjection(r, x)
    PROVE  VaultInv'
<1> USE DEF V!OpenProjection, V!VaultKept
<1>1. x \in V!Envelopes /\ root \in Roots /\ V!VaultTypeOK
    BY DEF VaultInv, V!VaultTypeOK
<1>2. V!Key(x) \in Roots \X V!Envelopes /\ V!Key(x)[2] = x
    BY <1>1 DEF V!Key
<1>3. CASE V!Key(x) \in DOMAIN projection
  <2>1. V!HandedOutStaysWhole'
      BY <1>2, <1>3 DEF VaultInv, V!HandedOutStaysWhole
  <2> QED BY <1>1, <1>2, <1>3, <2>1, ReaderMoves DEF V!VaultTypeOK
<1>4. CASE V!Key(x) \notin DOMAIN projection
  <2>1. [receipt |-> x, placed |-> {}, step |-> "make"] \in V!Materializations
      BY <1>1 DEF V!Materializations
  <2>2. reader' \in [Readers -> {None} \union V!Materializations]
      BY <1>1, <1>4, <2>1 DEF V!VaultTypeOK
  <2>3. V!HandedOutStaysWhole'
      BY <1>4 DEF VaultInv, V!HandedOutStaysWhole
  <2> QED BY <1>1, <1>4, <2>2, <2>3, ReaderMoves DEF V!VaultTypeOK
<1> QED BY <1>3, <1>4

LEMMA ReaderTyped ==
    ASSUME VaultInv, NEW r \in Readers, reader[r] # None
    PROVE  /\ reader[r] \in V!Materializations /\ reader[r].receipt \in V!Envelopes
           /\ V!Key(reader[r].receipt) \in Roots \X V!Envelopes
           /\ V!Key(reader[r].receipt)[2] = reader[r].receipt
           /\ reader \in [Readers -> {None} \union V!Materializations]
           /\ [reader EXCEPT ![r] = None] \in [Readers -> {None} \union V!Materializations]
           /\ \A step \in {"make", "fill", "check", "remove"} :
                  [reader EXCEPT ![r].step = step]
                      \in [Readers -> {None} \union V!Materializations]
BY DEF VaultInv, V!VaultTypeOK, V!Materializations, V!Key

LEMMA MakeProjectionKeeps ==
    ASSUME VaultInv, NEW r \in Readers, V!MakeProjection(r)
    PROVE  VaultInv'
<1> USE DEF V!MakeProjection, V!VaultKept, V!ReaderAt, V!ReaderRuns
<1> DEFINE key == V!Key(reader[r].receipt)
<1>1. /\ key \in Roots \X V!Envelopes
      /\ reader' \in [Readers -> {None} \union V!Materializations]
    BY ReaderTyped
<1>2. /\ DOMAIN projection' = DOMAIN projection \union {key}
      /\ \A k \in DOMAIN projection : projection'[k] = projection[k]
      /\ key \notin DOMAIN projection => projection'[key] = V!NoFiles
    BY DEF V!Put
<1>3. V!HandedOutStaysWhole'
    BY <1>2, NoFilesIsEmpty DEF VaultInv, V!HandedOutStaysWhole
<1> QED BY <1>1, <1>2, <1>3, ReaderMoves DEF VaultInv, V!VaultTypeOK

LEMMA PlaceFileKeeps ==
    ASSUME VaultInv, NEW r \in Readers, V!PlaceFile(r)
    PROVE  VaultInv'
<1> USE DEF V!PlaceFile, V!VaultKept, V!ReaderAt, V!ReaderRuns
<1> DEFINE key == V!Key(reader[r].receipt)
           x == reader[r].receipt
           rest == DOMAIN x \ reader[r].placed
           f == V!Min(rest)
           there == IF key \in DOMAIN projection THEN projection[key] ELSE V!NoFiles
<1>1. /\ key \in Roots \X V!Envelopes /\ key[2] = x /\ x \in V!Envelopes
      /\ reader[r] \in V!Materializations
      /\ reader \in [Readers -> {None} \union V!Materializations]
    BY ReaderTyped
<1>4. UNCHANGED <<handed, disputed>>
    OBVIOUS
<1>2. CASE UNCHANGED projection /\ \E step \in {"check", "remove"} : V!ReaderAt(r, step)
  <2> HIDE DEF V!PlaceFile
  <2>1. reader' \in [Readers -> {None} \union V!Materializations]
    <3>1. PICK step \in {"check", "remove"} : reader' = [reader EXCEPT ![r].step = step]
        BY <1>2
    <3>2. reader[r] # None
        BY DEF V!PlaceFile
    <3> QED BY <3>1, <3>2, ReaderTyped
  <2> USE DEF V!PlaceFile
  <2>2. V!HandedOutStaysWhole'
      BY <1>2 DEF VaultInv, V!HandedOutStaysWhole
  <2> QED BY <1>2, <2>1, <2>2, ReaderMoves DEF VaultInv, V!VaultTypeOK
<1>3. CASE rest # {} /\ x[f] \in cas[root] /\ f \notin DOMAIN there
  <2>1. /\ projection' = V!Put(projection, key, V!Put(there, f, x[f]))
        /\ reader' = [reader EXCEPT ![r].placed = @ \union {f}]
      BY <1>3
  <2>2. f \in rest /\ f \in Files
    <3>1. rest \in SUBSET Nat /\ rest \subseteq Files
        BY <1>1, EnvelopeType, Instances DEF V!VaultAssumption
    <3> QED BY <3>1, <1>3, VaultMinIsIn
  <2> HIDE DEF f
  <2>3. reader' \in [Readers -> {None} \union V!Materializations]
    <3>1. [reader[r] EXCEPT !.placed = @ \union {f}] \in V!Materializations
        BY <1>1, <2>2 DEF V!Materializations
    <3>2. reader' = [reader EXCEPT ![r] = [reader[r] EXCEPT !.placed = @ \union {f}]]
        BY <1>1, <2>1
    <3> QED BY <1>1, <3>1, <3>2
  <2>4. /\ DOMAIN projection' = DOMAIN projection \union {key}
        /\ \A k \in DOMAIN projection \ {key} : projection'[k] = projection[k]
        /\ projection'[key] = V!Put(there, f, x[f])
      BY <2>1 DEF V!Put
  <2>5. key \notin handed \ disputed
      BY <1>1, <1>3, <2>2 DEF VaultInv, V!HandedOutStaysWhole
  <2>6. \A y \in DOMAIN projection'[key] : y \in DOMAIN x /\ projection'[key][y] = x[y]
    <3>1. \A y \in DOMAIN there : y \in DOMAIN x /\ there[y] = x[y]
        BY <1>1, NoFilesIsEmpty DEF VaultInv, V!HandedOutStaysWhole
    <3> QED BY <2>2, <2>4, <3>1 DEF V!Put
  <2>7. V!HandedOutStaysWhole'
    <3> HIDE DEF key, x, there, V!PlaceFile
    <3> QED BY <1>1, <1>4, <2>4, <2>5, <2>6 DEF VaultInv, V!HandedOutStaysWhole
  <2> QED BY <1>1, <2>3, <2>4, <2>7, ReaderMoves DEF VaultInv, V!VaultTypeOK
<1> QED BY <1>2, <1>3

LEMMA CheckProjectionKeeps ==
    ASSUME VaultInv, NEW r \in Readers, V!CheckProjection(r)
    PROVE  VaultInv'
<1> USE DEF V!CheckProjection, V!VaultKept, V!ReaderAt, V!ReaderRuns
<1> DEFINE key == V!Key(reader[r].receipt)
<1>1. /\ key \in Roots \X V!Envelopes /\ key[2] = reader[r].receipt
      /\ reader' \in [Readers -> {None} \union V!Materializations]
    BY ZenonT(60), ReaderTyped
<1>2. V!HandedOutStaysWhole'
    BY <1>1 DEF VaultInv, V!HandedOutStaysWhole
<1> QED BY <1>1, <1>2, ReaderMoves DEF VaultInv, V!VaultTypeOK

LEMMA RemoveProjectionKeeps ==
    ASSUME VaultInv, NEW r \in Readers, V!RemoveProjection(r)
    PROVE  VaultInv'
<1> USE DEF V!RemoveProjection, V!VaultKept, V!ReaderRuns
<1> DEFINE key == V!Key(reader[r].receipt)
<1>1. /\ key \in Roots \X V!Envelopes
      /\ reader' \in [Readers -> {None} \union V!Materializations]
    BY ReaderTyped
<1>2. V!HandedOutStaysWhole'
    BY DEF VaultInv, V!HandedOutStaysWhole
<1> QED BY <1>1, <1>2, ReaderMoves DEF VaultInv, V!VaultTypeOK

LEMMA KillReaderKeeps ==
    ASSUME VaultInv, NEW r \in Readers, V!KillReader(r)
    PROVE  VaultInv'
<1>1. reader' \in [Readers -> {None} \union V!Materializations]
    BY ReaderTyped DEF V!KillReader
<1>2. V!HandedOutStaysWhole'
    BY DEF VaultInv, V!HandedOutStaysWhole, V!KillReader
<1> QED BY <1>1, <1>2, ReaderMoves DEF VaultInv, V!VaultTypeOK, V!KillReader

LEMMA VaultStep ==
    ASSUME VaultInv, V!VaultNext
    PROVE  VaultInv'
BY OpenCaptureKeeps, ListDirectoryKeeps, ReadFileKeeps, EndScanKeeps, StageFileKeeps,
   InstallFileKeeps, SealReceiptKeeps, CheckObjectKeeps, ReturnReceiptKeeps, PersistKeeps,
   WriteReceiptKeeps, KillCaptureKeeps, DonorChangesKeeps, SwapRootKeeps,
   OpenProjectionKeeps, MakeProjectionKeeps, PlaceFileKeeps, CheckProjectionKeeps,
   RemoveProjectionKeeps, KillReaderKeeps
   DEF V!VaultNext

-----------------------------------------------------------------------------
(* Files.  An invariant of the disk and of what every call knows of it.      *)

\* No power failure brings another file to the name n.
Settled(n) == Possible(n) = {At(n)}

InStep(p, steps) == call[p] # None /\ call[p].step \in steps

\* Every path is written in one way, and the steps of a call are its own.
CallFits(p) ==
    call[p] # None =>
        /\ call[p].op \in {"ensure", "create"} => call[p].path \in {a, LockPath}
        /\ call[p].op = "replace" => call[p].path \in {h, LedgerPath}
        /\ call[p].op = "move" => /\ part = "pointers" /\ call[p].bytes = <<5>>
                                  /\ call[p].path = b /\ call[p].from = s
        /\ InStep(p, {"check", "link", "settle", "unlink"}) =>
               call[p].op \in {"ensure", "create"}
        /\ InStep(p, {"rename", "rebind", "rebound"}) => call[p].op = "replace"
        /\ InStep(p, {"source", "moving", "moved", "retire", "retired"}) =>
               call[p].op = "move"
        /\ InStep(p, {"stage", "write"}) => call[p].op # "move"
        /\ InStep(p, {"verify"}) => call[p].op # "replace"
        /\ InStep(p, {"check", "stage"}) \/ call[p].op = "move" => call[p].temp = None
        /\ InStep(p, {"check", "stage", "write", "link"}) => ~call[p].installed
        /\ InStep(p, {"settle"}) => call[p].installed
        /\ call[p].temp # None => call[p].temp[2] = p
        /\ InStep(p, {"write", "link", "settle", "unlink", "rename"}) => call[p].temp # None
        /\ InStep(p, {"write", "link", "settle", "rename", "rebind", "rebound"}) =>
               call[p].fd # None

\* A file that is written is seen by its writer alone.
WritesAlone(p) ==
    InStep(p, {"write"}) =>
        /\ \A n \in Paths : call[p].fd \notin Possible(n)
        /\ \A q \in Procs \ {p} : call[q] # None => call[q].fd # call[p].fd

WroteAll(p) ==
    InStep(p, {"link", "settle", "rename", "rebind", "rebound"}) =>
        file[call[p].fd].synced /\ file[call[p].fd].data = call[p].bytes

\* What was installed is there, and for good once its directory was synced.
Installed(p) ==
    call[p] # None /\ call[p].installed /\ call[p].op # "move" =>
        \A n \in Paths : n = call[p].path =>
            /\ InStep(p, {"settle", "unlink", "verify"}) => At(n) # None
            /\ InStep(p, {"unlink", "verify"}) => Settled(n)

TempGone(p) ==
    InStep(p, {"verify", "ok", "error", "rebind", "rebound"}) =>
        call[p].temp \notin DOMAIN names

\* The file that is moved is inode 1.
Moves(p) ==
    part = "pointers" =>
        /\ InStep(p, {"moving", "moved", "retire", "retired"}) => call[p].fd = 1
        /\ InStep(p, {"moved"}) => At(b) = 1
        /\ InStep(p, {"retire", "retired"}) => Possible(b) = {1}
        /\ InStep(p, {"verify"}) /\ call[p].op = "move" => Possible(b) = {1}

\* The log an append works on is the one it has read, until it replaces it.
Appends(p) ==
    InAppend(p, "locked") /\ call[p] # None =>
        /\ call[p].bytes # <<>> /\ call[p].bytes[Len(call[p].bytes)] = task[p].event
        /\ InStep(p, {"stage", "write", "rename"}) =>
               call[p].bytes = Append(Log, task[p].event)
        /\ InStep(p, {"rebind", "rebound", "ok"}) => Log = call[p].bytes
        /\ InStep(p, {"ok"}) => Settled(LedgerPath)

CallInv(p) ==
    /\ CallFits(p) /\ WritesAlone(p) /\ WroteAll(p) /\ Installed(p) /\ TempGone(p)
    /\ Moves(p) /\ Appends(p)

PromisedPaths ==
    \A x \in promised :
        x.path \in {a, LockPath, b} /\ (x.path = b => part = "pointers")

\* It is found under one of its two names.
SourceFound ==
    part = "pointers" =>
        /\ file[1].synced /\ file[1].data = <<5>>
        /\ Possible(s) \subseteq {1, None} /\ Possible(b) \subseteq {1, None}
        /\ Possible(s) = {1} \/ Possible(b) = {1}
        /\ At(s) = None => Possible(b) = {1}

\* The tasks and the calls they make.
TaskFits(p) ==
    /\ part # "ledger" => task[p] = None
    /\ part = "ledger" /\ call[p] # None => task[p] # None
    /\ task[p] # None => task[p].event \in begun
    /\ InAppend(p, "ensure") => call[p] # None /\ call[p].op = "ensure"
    /\ InAppend(p, "lock") => call[p] = None
    /\ InAppend(p, "locked") /\ call[p] # None =>
           call[p].op = "replace" /\ call[p].path = LedgerPath
    /\ call[p] # None /\ call[p].path = LedgerPath => InAppend(p, "locked")

HoldsLock(p) ==
    /\ InAppend(p, "lock") \/ InAppend(p, "locked") =>
           task[p].lock = At(LockPath) /\ At(LockPath) # None
    /\ InAppend(p, "locked") => flocked[task[p].lock] = p

DataOf(i) == IF i = None THEN <<>> ELSE file[i].data

\* Whatever a power failure leaves of the log is its beginning, with all that
\* was acknowledged.
Begins(d, log) == Len(d) <= Len(log) /\ \A k \in 1 .. Len(d) : d[k] = log[k]

LogKept ==
    \A i \in Possible(LedgerPath) :
        Begins(DataOf(i), Log) /\ \A e \in acknowledged : \E k \in 1 .. Len(DataOf(i)) :
                                                           DataOf(i)[k] = e

DiskInv ==
    /\ LedgerTypeOK
    /\ \A p \in Procs : CallInv(p)
    /\ PromisedPaths /\ SourceFound
    /\ NothingTorn /\ PromisesKept /\ NoLitter

LogInv ==
    /\ \A p \in Procs : TaskFits(p) /\ HoldsLock(p)
    /\ LogKept

FilesInv == DiskInv /\ LogInv

LEMMA NamesTyped ==
    ASSUME FilesTypeOK
    PROVE  /\ None \notin Inodes
           /\ \A n : /\ At(n) \in Inodes \union {None}
                     /\ At(n) # None <=> n \in DOMAIN names
                     /\ At(n) \in Possible(n)
                     /\ Possible(n) \subseteq Inodes \union {None}
                     /\ \A i \in Possible(n) \ {None} : i \notin Free
           /\ \A p \in Procs : call[p] # None => call[p] \in Calls /\ call[p].fd \notin Free
<1>1. None \notin Inodes
    BY FilesAssumption
<1>2. \A n : At(n) \in Inodes \union {None} /\ (At(n) # None <=> n \in DOMAIN names)
    BY <1>1 DEF FilesTypeOK, At
<1>3. \A n : At(n) \in Possible(n)
    BY DEF Possible
<1>4. ASSUME NEW n PROVE Possible(n) \subseteq Inodes \union {None}
    BY <1>2 DEF Possible, FilesTypeOK
<1>5. ASSUME NEW n, NEW i \in Possible(n) \ {None} PROVE i \notin Free
  <2>1. CASE i = At(n)
      BY <2>1, <1>2 DEF Free, Reachable, At
  <2>2. CASE i # At(n)
      BY <2>2 DEF Free, Reachable, Possible
  <2> QED BY <2>1, <2>2
<1>6. ASSUME NEW p \in Procs, call[p] # None
      PROVE  call[p] \in Calls /\ call[p].fd \notin Free
    BY <1>6 DEF FilesTypeOK, Free, Reachable
<1> QED BY <1>1, <1>2, <1>3, <1>4, <1>5, <1>6

\* What a name is bound to, and may be after a power failure, is left alone.
Stays(n) == At(n)' = At(n) /\ Possible(n)' \subseteq Possible(n)

LEMMA Binding ==
    ASSUME NEW m, NEW i, Bind(m, i), NEW n
    PROVE  /\ n # m => Stays(n)
           /\ n = m => At(n)' = i /\ Possible(n)' \subseteq Possible(n) \union {i}
           /\ DOMAIN names' = DOMAIN names \union {m}
BY DEF Bind, Put, At, Possible, Stays

LEMMA Unbinding ==
    ASSUME NEW m, UnbindSynced(m), NEW n
    PROVE  /\ n # m => Stays(n)
           /\ DOMAIN names' = DOMAIN names \ {m}
BY DEF UnbindSynced, Unsynced, At, Possible, Stays

LEMMA Syncing ==
    ASSUME NEW d, UNCHANGED names, stale' = Unsynced(d), NEW n
    PROVE  /\ Stays(n)
           /\ d = DirOf(n) => Settled(n)'
           /\ DOMAIN names' = DOMAIN names
BY DEF Unsynced, At, Possible, Stays, Settled

LEMMA Idling ==
    ASSUME UNCHANGED <<names, stale>>, NEW n
    PROVE  Stays(n) /\ DOMAIN names' = DOMAIN names
BY DEF At, Possible, Stays

LEMMA StaysSettled ==
    ASSUME NEW n, Stays(n), Settled(n)
    PROVE  Settled(n)'
<1>1. At(n)' \in Possible(n)'
    BY DEF Possible
<1> QED BY <1>1 DEF Stays, Settled

\* What a system call of p may do to the disk and to itself.
Binds(p, n) ==
    /\ n = call[p].path
    /\ \/ InStep(p, {"link", "moving"}) /\ At(n) = None
       \/ InStep(p, {"rename"})
    /\ At(n)' = call[p].fd
    /\ Possible(n)' \subseteq Possible(n) \union {call[p].fd}

Retires(p, n) ==
    /\ n = call[p].from /\ InStep(p, {"retire"}) /\ At(n) = call[p].fd
    /\ At(n)' = None
    /\ Possible(n)' \subseteq Possible(n) \union {None}

Effect(p) ==
    /\ call[p] # None /\ call'[p] # None
    /\ \A q \in Procs \ {p} : call'[q] = call[q]
    /\ \A i \in Inodes :
           \/ file'[i] = file[i]
           \/ i \in Free
           \/ InStep(p, {"write"}) /\ i = call[p].fd
           \/ file'[i].synced /\ file'[i].data = file[i].data
    /\ \A n \in Paths : Stays(n) \/ Binds(p, n) \/ Retires(p, n)
    /\ \A n \in DOMAIN names' \ Paths : n \in DOMAIN names \/ n = call'[p].temp
    /\ call[p].temp \in {None, call'[p].temp}
    /\ call'[p].op = call[p].op /\ call'[p].path = call[p].path
    /\ call'[p].from = call[p].from /\ call'[p].bytes = call[p].bytes
    /\ \/ call'[p].fd = call[p].fd \/ call'[p].fd \in Free
       \/ \E n \in Paths : call'[p].fd \in Possible(n)

AllSteps == {"check", "stage", "write", "link", "settle", "unlink", "verify", "rename",
             "rebind", "rebound", "source", "moving", "moved", "retire", "retired",
             "ok", "error"}

LEMMA Going ==
    ASSUME FilesTypeOK, NEW p \in Procs, call[p] # None, NEW step \in AllSteps, Goto(p, step)
    PROVE  /\ call' \in [Procs -> {None} \union Calls]
           /\ call'[p] = [call[p] EXCEPT !.step = step]
           /\ call'[p] \in Calls /\ call'[p] # None
           /\ \A q \in Procs \ {p} : call'[q] = call[q]
<1>1. call \in [Procs -> {None} \union Calls] /\ call[p] \in Calls
    BY DEF FilesTypeOK
<1>2. [call[p] EXCEPT !.step = step] \in Calls
    BY <1>1 DEF Calls, AllSteps
<1>3. call' = [call EXCEPT ![p] = [call[p] EXCEPT !.step = step]]
    BY <1>1 DEF Goto
<1>4. None \notin Calls
    BY FilesAssumption
<1> QED BY <1>1, <1>2, <1>3, <1>4

\* A step that only moves on.
LEMMA MovingOn ==
    ASSUME FilesTypeOK, NEW p \in Procs, call[p] # None, NEW step \in AllSteps, Goto(p, step),
           \A i \in Inodes :
               \/ file'[i] = file[i]
               \/ InStep(p, {"write"}) /\ i = call[p].fd
               \/ file'[i].synced /\ file'[i].data = file[i].data,
           \A n \in Paths : Stays(n),
           DOMAIN names' \subseteq DOMAIN names
    PROVE  Effect(p)
<1>1. call[p] \in Calls
    BY DEF FilesTypeOK
<1>2. /\ call'[p] = [call[p] EXCEPT !.step = step] /\ call'[p] # None
      /\ \A q \in Procs \ {p} : call'[q] = call[q]
    BY Going
<1>3. /\ call'[p].op = call[p].op /\ call'[p].path = call[p].path
      /\ call'[p].from = call[p].from /\ call'[p].bytes = call[p].bytes
      /\ call'[p].fd = call[p].fd /\ call'[p].temp = call[p].temp
    BY <1>1, <1>2 DEF Calls
<1> HIDE DEF Stays
<1> QED BY <1>2, <1>3 DEF Effect

\* What every step starts from.
LEMMA Known ==
    ASSUME FilesInv, NEW p \in Procs, call[p] # None
    PROVE  /\ FilesTypeOK /\ call[p] \in Calls /\ call \in [Procs -> {None} \union Calls]
           /\ CallFits(p) /\ WritesAlone(p) /\ WroteAll(p) /\ Installed(p) /\ TempGone(p)
           /\ Moves(p) /\ Appends(p) /\ TaskFits(p)
           /\ call[p].path \in Paths /\ call[p].path \notin Temps
           /\ call[p].temp \notin Paths
BY FilesAssumption
   DEF FilesInv, DiskInv, LogInv, LedgerTypeOK, FilesTypeOK, CallInv, Calls

\* Only a replacement has to do with the log.
LEMMA NotTheLog ==
    ASSUME FilesInv, NEW p \in Procs, call[p] # None, call[p].op # "replace",
           call'[p] # None => call'[p].op = call[p].op, UNCHANGED task
    PROVE  Appends(p)'
<1>1. TaskFits(p)
    BY Known
<1> QED BY <1>1 DEF TaskFits, Appends, InAppend

LEMMA StaysOne ==
    ASSUME NEW n, NEW i, Stays(n), Possible(n) = {i}
    PROVE  Possible(n)' = {i} /\ At(n)' = i
<1>1. At(n)' \in Possible(n)'
    BY DEF Possible
<1> QED BY <1>1 DEF Stays

LEMMA LogStays ==
    ASSUME FilesTypeOK, Stays(LedgerPath),
           \A i \in Inodes : i = At(LedgerPath) => file'[i].data = file[i].data
    PROVE  Log' = Log
<1>1. At(LedgerPath)' = At(LedgerPath) /\ At(LedgerPath) \in Inodes \union {None}
    BY NamesTyped DEF Stays
<1> QED BY <1>1 DEF Log, Reads

LEMMA CheckPresentDoes ==
    ASSUME FilesInv, NEW p \in Procs, CheckPresent(p), UNCHANGED <<part, lvars>>
    PROVE  FilesTypeOK' /\ Effect(p) /\ CallInv(p)'
<1> USE DEF CheckPresent, Runs
<1>1. /\ FilesTypeOK /\ call[p] \in Calls /\ CallFits(p)
      /\ call[p] # None /\ call[p].step = "check"
    BY Known
<1>2. PICK step \in {"stage", "error", "verify"} :
          Goto(p, step) /\ (step # "stage" => At(call[p].path) # None)
    BY DEF Goto
<1>3. \A n : Stays(n) /\ DOMAIN names' = DOMAIN names
    BY Idling DEF disk
<1>4. Effect(p)
    BY <1>1, <1>2, <1>3, MovingOn DEF disk, AllSteps
<1>5. /\ call' \in [Procs -> {None} \union Calls]
      /\ call'[p] = [call[p] EXCEPT !.step = step]
  <2>1. step \in AllSteps
      BY DEF AllSteps
  <2> QED BY <1>1, <1>2, <2>1, Going
<1>6. FilesTypeOK'
    BY <1>1, <1>5 DEF FilesTypeOK, disk, bounds
<1>7. CallFits(p)'
    BY <1>1, <1>2, <1>5 DEF CallFits, InStep, Calls
<1>8. (WritesAlone(p) /\ WroteAll(p))' /\ Moves(p)'
    BY <1>1, <1>2, <1>5 DEF WritesAlone, WroteAll, Moves, InStep, Calls, CallFits
<1>9. TempGone(p)'
    BY <1>1, <1>5, <1>6, FilesAssumption DEF TempGone, InStep, Calls, CallFits, FilesTypeOK
<1>10. Installed(p)'
    BY <1>1, <1>5 DEF Installed, Calls, CallFits, InStep
<1>11. Appends(p)'
    BY <1>1, <1>4, NotTheLog DEF lvars, Effect, CallFits, InStep
<1> QED BY <1>4, <1>6, <1>7, <1>8, <1>9, <1>10, <1>11 DEF CallInv

LEMMA WriteTemporaryDoes ==
    ASSUME FilesInv, NEW p \in Procs, WriteTemporary(p), UNCHANGED <<part, lvars>>
    PROVE  FilesTypeOK' /\ Effect(p) /\ CallInv(p)'
<1> USE DEF WriteTemporary, Runs
<1>1. /\ FilesTypeOK /\ call[p] \in Calls /\ CallFits(p)
      /\ call[p] # None /\ call[p].step = "write"
      /\ call[p].fd \in Inodes
    BY Known DEF CallFits, InStep, Calls
<1>2. PICK step \in {"rename", "link"} :
          Goto(p, step) /\ (step = "rename" <=> call[p].op = "replace")
    BY DEF Goto
<1>3. /\ \A n : Stays(n) /\ DOMAIN names' = DOMAIN names
      /\ file' = [file EXCEPT ![call[p].fd] = [data |-> call[p].bytes, synced |-> TRUE]]
    BY Idling
<1>4. file' \in [Inodes -> [data : {Torn} \union Seq(Nat), synced : BOOLEAN]]
      /\ file'[call[p].fd] = [data |-> call[p].bytes, synced |-> TRUE]
      /\ \A i \in Inodes \ {call[p].fd} : file'[i] = file[i]
    BY <1>1, <1>3 DEF FilesTypeOK, Calls
<1>5. Effect(p)
    BY <1>1, <1>2, <1>3, <1>4, MovingOn DEF AllSteps, InStep
<1>6. /\ call' \in [Procs -> {None} \union Calls]
      /\ call'[p] = [call[p] EXCEPT !.step = step]
    BY <1>1, <1>2, Going DEF AllSteps
<1>7. FilesTypeOK'
    BY <1>1, <1>4, <1>6 DEF FilesTypeOK, bounds
<1>8. CallFits(p)'
    BY <1>1, <1>2, <1>6 DEF CallFits, InStep, Calls
<1>9. (WritesAlone(p) /\ WroteAll(p))' /\ Moves(p)' /\ TempGone(p)'
    BY <1>1, <1>2, <1>4, <1>6
       DEF WritesAlone, WroteAll, Moves, TempGone, InStep, Calls, CallFits
<1>10. Installed(p)'
    BY <1>1, <1>6 DEF Installed, Calls, CallFits, InStep
<1>11. Appends(p)'
  <2>1. WritesAlone(p) /\ Appends(p) /\ LedgerPath \in Paths
      BY <1>1, Known, Instances DEF LedgerAssumption
  <2>2. Log' = Log
    <3>1. call[p].fd # At(LedgerPath)
        BY <1>1, <2>1, NamesTyped DEF WritesAlone, InStep
    <3> QED BY <1>1, <1>3, <1>4, <3>1, LogStays
  <2>3. call'[p].bytes = call[p].bytes /\ call'[p].step = step
      BY <1>1, <1>6 DEF Calls
  <2> QED BY <1>1, <1>2, <2>1, <2>2, <2>3 DEF Appends, InStep, InAppend, lvars
<1> QED BY <1>5, <1>7, <1>8, <1>9, <1>10, <1>11 DEF CallInv

\* A call that gives up and takes its temporary name away.
LEMMA GivingUp ==
    ASSUME FilesInv, NEW p \in Procs, InStep(p, {"write", "settle"}),
           UnbindSynced(call[p].temp), Goto(p, "error"), failures < MaxFailures,
           failures' = failures + 1,
           UNCHANGED <<file, seq, deaths, outages, promised, orphans, part, lvars>>
    PROVE  FilesTypeOK' /\ Effect(p) /\ CallInv(p)'
<1>1. /\ FilesTypeOK /\ call[p] \in Calls /\ CallFits(p)
      /\ call[p] # None /\ call[p].step \in {"write", "settle"}
    BY Known DEF InStep
<1>2. /\ DOMAIN names' = DOMAIN names \ {call[p].temp}
      /\ \A n \in Paths : Stays(n)
  <2>1. call[p].temp \notin Paths
      BY <1>1, Known
  <2> HIDE DEF Stays
  <2> QED BY <2>1, Unbinding
<1>3. Effect(p)
    BY <1>1, <1>2, MovingOn DEF AllSteps
<1>4. /\ call' \in [Procs -> {None} \union Calls]
      /\ call'[p] = [call[p] EXCEPT !.step = "error"]
    BY <1>1, Going DEF AllSteps
<1>5. FilesTypeOK'
    BY <1>1, <1>4, FilesAssumption DEF FilesTypeOK, UnbindSynced, Unsynced
<1>6. CallFits(p)'
    BY <1>1, <1>4 DEF CallFits, InStep, Calls
<1>7. (WritesAlone(p) /\ WroteAll(p))' /\ Moves(p)' /\ TempGone(p)'
    BY <1>1, <1>2, <1>4
       DEF WritesAlone, WroteAll, Moves, TempGone, InStep, Calls, CallFits
<1>8. Installed(p)'
    BY <1>1, <1>4 DEF Installed, Calls, CallFits, InStep
<1>9. Appends(p)'
  <2>1. Appends(p)
      BY <1>1, Known
  <2>2. call'[p].bytes = call[p].bytes /\ call'[p].step = "error"
      BY <1>1, <1>4 DEF Calls
  <2> QED BY <1>1, <2>1, <2>2 DEF Appends, InStep, InAppend, lvars
<1> QED BY <1>3, <1>5, <1>6, <1>7, <1>8, <1>9 DEF CallInv

LEMMA LinkDestinationDoes ==
    ASSUME FilesInv, NEW p \in Procs, LinkDestination(p), UNCHANGED <<part, lvars>>
    PROVE  FilesTypeOK' /\ Effect(p) /\ CallInv(p)'
<1> USE DEF LinkDestination, Runs
<1>1. /\ FilesTypeOK /\ call[p] \in Calls /\ CallFits(p) /\ WroteAll(p)
      /\ call[p] # None /\ call[p].step = "link"
      /\ call[p].fd \in Inodes /\ call[p].fd # None
      /\ call[p].path \in Paths /\ call[p].op # "replace" /\ call[p].op # "move"
      /\ call \in [Procs -> {None} \union Calls] /\ None \notin Calls
    BY Known, FilesAssumption DEF CallFits, InStep, Calls
<1>2. CASE At(call[p].path) = None
  <2>1. /\ Bind(call[p].path, call[p].fd)
        /\ call' = [call EXCEPT ![p].step = "settle", ![p].installed = TRUE]
      BY <1>2
  <2>2. /\ call'[p] = [call[p] EXCEPT !.step = "settle", !.installed = TRUE]
        /\ call'[p] \in Calls /\ call' \in [Procs -> {None} \union Calls]
        /\ \A q \in Procs \ {p} : call'[q] = call[q]
    <3>1. [call[p] EXCEPT !.step = "settle", !.installed = TRUE] \in Calls
        BY <1>1 DEF Calls
    <3>2. call' = [call EXCEPT ![p] = [call[p] EXCEPT !.step = "settle", !.installed = TRUE]]
        BY <1>1, <2>1
    <3> QED BY <1>1, <3>1, <3>2
  <2>3. /\ call'[p].op = call[p].op /\ call'[p].path = call[p].path
        /\ call'[p].from = call[p].from /\ call'[p].bytes = call[p].bytes
        /\ call'[p].fd = call[p].fd /\ call'[p].temp = call[p].temp
        /\ call'[p].step = "settle" /\ call'[p].installed = TRUE /\ call'[p] # None
      BY <1>1, <2>2 DEF Calls
  <2>4. \A n \in Paths : Stays(n) \/ Binds(p, n)
    <3>1. ASSUME NEW n \in Paths, n = call[p].path PROVE Binds(p, n)
      <4>1. Bind(n, call[p].fd) /\ At(n) = None
          BY <1>2, <2>1, <3>1
      <4>2. At(n)' = call[p].fd /\ Possible(n)' \subseteq Possible(n) \union {call[p].fd}
          BY <4>1, Binding
      <4> QED BY <1>1, <3>1, <4>1, <4>2 DEF Binds, InStep
    <3> HIDE DEF Stays
    <3> QED BY <2>1, <3>1, Binding
  <2>5. DOMAIN names' = DOMAIN names \union {call[p].path}
      BY <2>1, Binding
  <2>6. Effect(p)
    <3> HIDE DEF Stays
    <3> QED BY <1>1, <2>2, <2>3, <2>4, <2>5 DEF Effect
  <2>7. FilesTypeOK'
      BY <1>1, <2>1, <2>2, NamesTyped DEF FilesTypeOK, Bind, Put, bounds
  <2>8. CallFits(p)'
      BY <1>1, <2>3 DEF CallFits, InStep
  <2>9. (WritesAlone(p) /\ WroteAll(p))' /\ Moves(p)' /\ TempGone(p)'
      BY <1>1, <2>3 DEF WritesAlone, WroteAll, Moves, TempGone, InStep
  <2>10. Installed(p)'
    <3>1. ASSUME NEW n \in Paths, n = call'[p].path PROVE At(n)' # None
      <4>1. Bind(n, call[p].fd)
          BY <2>1, <2>3, <3>1
      <4> QED BY <1>1, <4>1, Binding
    <3> QED BY <2>3, <3>1 DEF Installed, InStep
  <2>11. Appends(p)'
      BY <1>1, <2>3, NotTheLog DEF lvars
  <2> QED BY <2>6, <2>7, <2>8, <2>9, <2>10, <2>11 DEF CallInv
<1>3. CASE At(call[p].path) # None
  <2>1. Goto(p, "unlink") /\ UNCHANGED disk
      BY <1>3 DEF disk
  <2>2. \A n : Stays(n) /\ DOMAIN names' = DOMAIN names
      BY <2>1, Idling DEF disk
  <2>3. Effect(p)
      BY <1>1, <2>1, <2>2, MovingOn DEF disk, AllSteps
  <2>4. /\ call' \in [Procs -> {None} \union Calls]
        /\ call'[p] = [call[p] EXCEPT !.step = "unlink"]
      BY <1>1, <2>1, Going DEF AllSteps
  <2>5. FilesTypeOK'
      BY <1>1, <2>1, <2>4 DEF FilesTypeOK, disk, bounds
  <2>6. CallFits(p)'
      BY <1>1, <2>4 DEF CallFits, InStep, Calls
  <2>7. (WritesAlone(p) /\ WroteAll(p))' /\ Moves(p)' /\ TempGone(p)'
      BY <1>1, <2>4 DEF WritesAlone, WroteAll, Moves, TempGone, InStep, Calls
  <2>8. Installed(p)'
      BY <1>1, <2>4 DEF Installed, Calls, CallFits, InStep
  <2>9. Appends(p)'
      BY <1>1, <2>3, NotTheLog DEF lvars, Effect
  <2> QED BY <2>3, <2>5, <2>6, <2>7, <2>8, <2>9 DEF CallInv
<1> QED BY <1>2, <1>3

LEMMA SettleInstalledDoes ==
    ASSUME FilesInv, NEW p \in Procs, SettleInstalled(p), UNCHANGED <<part, lvars>>
    PROVE  FilesTypeOK' /\ Effect(p) /\ CallInv(p)'
<1> USE DEF SettleInstalled, Runs
<1>1. /\ FilesTypeOK /\ call[p] \in Calls /\ CallFits(p) /\ Installed(p)
      /\ call[p] # None /\ call[p].step = "settle" /\ call[p].installed
      /\ call[p].path \in Paths /\ call[p].path \notin Temps
      /\ call[p].op # "replace" /\ call[p].op # "move"
    BY Known DEF CallFits, InStep, Calls
<1>2. \A n : Stays(n) /\ DOMAIN names' = DOMAIN names
             /\ (DirOf(n) = Dir[call[p].path] => Settled(n)')
    BY Syncing
<1>3. Effect(p)
    BY <1>1, <1>2, MovingOn DEF AllSteps
<1>4. /\ call' \in [Procs -> {None} \union Calls]
      /\ call'[p] = [call[p] EXCEPT !.step = "unlink"]
    BY <1>1, Going DEF AllSteps
<1>5. FilesTypeOK'
    BY <1>1, <1>4 DEF FilesTypeOK, Unsynced, bounds
<1>6. CallFits(p)'
    BY <1>1, <1>4 DEF CallFits, InStep, Calls
<1>7. (WritesAlone(p) /\ WroteAll(p))' /\ Moves(p)' /\ TempGone(p)'
    BY <1>1, <1>4 DEF WritesAlone, WroteAll, Moves, TempGone, InStep, Calls
<1>8. Installed(p)'
  <2>1. ASSUME NEW n \in Paths, n = call[p].path
        PROVE  At(n)' # None /\ Settled(n)'
    <3>1. Stays(n) /\ Settled(n)'
        BY <1>1, <1>2, <2>1 DEF DirOf
    <3>2. At(n) # None
        BY <1>1, <2>1 DEF Installed, InStep
    <3> QED BY <3>1, <3>2 DEF Stays
  <2>2. call'[p].path = call[p].path
      BY <1>1, <1>4 DEF Calls
  <2> QED BY <2>1, <2>2 DEF Installed
<1>9. Appends(p)'
    BY <1>1, <1>3, NotTheLog DEF lvars, Effect
<1> QED BY <1>3, <1>5, <1>6, <1>7, <1>8, <1>9 DEF CallInv

LEMMA UnlinkTemporaryDoes ==
    ASSUME FilesInv, NEW p \in Procs, UnlinkTemporary(p), UNCHANGED <<part, lvars>>
    PROVE  FilesTypeOK' /\ Effect(p) /\ CallInv(p)'
<1> USE DEF UnlinkTemporary, Runs
<1>1. /\ FilesTypeOK /\ call[p] \in Calls /\ CallFits(p) /\ Installed(p)
      /\ call[p] # None /\ call[p].step = "unlink"
      /\ call[p].path \in Paths /\ call[p].temp \notin Paths
      /\ call[p].op # "replace" /\ call[p].op # "move"
    BY Known DEF CallFits, InStep, Calls
<1>2. PICK step \in {"verify", "error"} : Goto(p, step)
    BY DEF Goto
<1>3. /\ DOMAIN names' = DOMAIN names \ {call[p].temp}
      /\ \A n \in Paths : Stays(n)
  <2> HIDE DEF Stays
  <2> QED BY <1>1, Unbinding
<1>4. Effect(p)
    BY <1>1, <1>2, <1>3, MovingOn DEF AllSteps
<1>5. /\ call' \in [Procs -> {None} \union Calls]
      /\ call'[p] = [call[p] EXCEPT !.step = step]
    BY ZenonT(60), <1>1, <1>2, Going DEF AllSteps
<1>6. FilesTypeOK'
    BY <1>1, <1>5, FilesAssumption DEF FilesTypeOK, UnbindSynced, Unsynced, bounds
<1>7. CallFits(p)'
    BY <1>1, <1>2, <1>5 DEF CallFits, InStep, Calls
<1>8. (WritesAlone(p) /\ WroteAll(p))' /\ Moves(p)' /\ TempGone(p)'
    BY <1>1, <1>2, <1>3, <1>5 DEF WritesAlone, WroteAll, Moves, TempGone, InStep, Calls
<1>9. Installed(p)'
  <2>1. ASSUME NEW n \in Paths, n = call[p].path, call[p].installed
        PROVE  At(n)' # None /\ Settled(n)'
    <3>1. Stays(n) /\ At(n) # None /\ Settled(n)
        BY <1>1, <1>3, <2>1 DEF Installed, InStep
    <3> QED BY <3>1, StaysSettled DEF Stays
  <2>2. call'[p].path = call[p].path /\ call'[p].installed = call[p].installed
      BY <1>1, <1>5 DEF Calls
  <2> QED BY <2>1, <2>2 DEF Installed
<1>10. Appends(p)'
    BY <1>1, <1>4, NotTheLog DEF lvars, Effect
<1> QED BY <1>4, <1>6, <1>7, <1>8, <1>9, <1>10 DEF CallInv

LEMMA VerifyContentDoes ==
    ASSUME FilesInv, NEW p \in Procs, VerifyContent(p), UNCHANGED <<part, lvars>>
    PROVE  FilesTypeOK' /\ Effect(p) /\ CallInv(p)'
<1> USE DEF VerifyContent, Runs
<1>1. /\ FilesTypeOK /\ call[p] \in Calls /\ CallFits(p) /\ TempGone(p)
      /\ call[p] # None /\ call[p].step = "verify" /\ call[p].op # "replace"
    BY Known DEF CallFits, InStep, Calls
<1>2. PICK step \in {"ok", "error"} : Goto(p, step)
    BY DEF Goto, Error
<1>3. \A n : Stays(n) /\ DOMAIN names' = DOMAIN names
    BY Idling DEF disk
<1>4. Effect(p)
    BY <1>1, <1>2, <1>3, MovingOn DEF disk, AllSteps
<1>5. /\ call' \in [Procs -> {None} \union Calls]
      /\ call'[p] = [call[p] EXCEPT !.step = step]
    BY <1>1, <1>2, Going DEF AllSteps
<1>6. FilesTypeOK'
  <2>1. promised' \subseteq [op : {"ensure", "create", "move"}, path : Paths,
                             bytes : Seq(Nat), inode : Inodes]
    <3>1. promised \subseteq [op : {"ensure", "create", "move"}, path : Paths,
                              bytes : Seq(Nat), inode : Inodes]
        BY <1>1 DEF FilesTypeOK
    <3>2. Reads(call[p].path) = call[p].bytes => At(call[p].path) \in Inodes
        BY <1>1, NamesTyped, FilesAssumption DEF Reads, Calls
    <3>3. call[p].op \in {"ensure", "create", "move"} /\ call[p].path \in Paths
          /\ call[p].bytes \in Seq(Nat)
        BY <1>1 DEF Calls
    <3> QED BY <3>1, <3>2, <3>3 DEF Told, Error
  <2> QED BY <1>1, <1>5, <2>1 DEF FilesTypeOK, disk, bounds
<1>7. CallFits(p)'
    BY <1>1, <1>2, <1>5 DEF CallFits, InStep, Calls
<1>8. (WritesAlone(p) /\ WroteAll(p))' /\ Moves(p)' /\ TempGone(p)'
    BY <1>1, <1>2, <1>3, <1>5 DEF WritesAlone, WroteAll, Moves, TempGone, InStep, Calls
<1>9. Installed(p)'
    BY <1>1, <1>5 DEF Installed, Calls, CallFits, InStep
<1>10. Appends(p)'
    BY <1>1, <1>4, NotTheLog DEF lvars, Effect
<1> QED BY <1>4, <1>6, <1>7, <1>8, <1>9, <1>10 DEF CallInv

LEMMA RenameOverDoes ==
    ASSUME FilesInv, NEW p \in Procs, RenameOver(p), UNCHANGED <<part, lvars>>
    PROVE  FilesTypeOK' /\ Effect(p) /\ CallInv(p)'
<1> USE DEF RenameOver, Runs
<1>1. /\ FilesTypeOK /\ call[p] \in Calls /\ CallFits(p) /\ WroteAll(p) /\ Appends(p)
      /\ call[p] # None /\ call[p].step = "rename"
      /\ call[p].fd \in Inodes /\ call[p].fd # None /\ TaskFits(p)
      /\ call[p].path \in Paths /\ call[p].op = "replace"
      /\ call[p].temp \notin Paths /\ call[p].temp \in Temps
    BY Known, FilesAssumption DEF CallFits, InStep, Calls
<1>2. ASSUME NEW n \in Paths, n # call[p].path PROVE Stays(n)
    BY <1>1, <1>2 DEF Put, At, Possible, Stays
<1>3. ASSUME NEW n \in Paths, n = call[p].path
      PROVE  At(n)' = call[p].fd /\ Possible(n)' \subseteq Possible(n) \union {call[p].fd}
    BY <1>1, <1>3 DEF Put, At, Possible
<1>4. DOMAIN names' = (DOMAIN names \ {call[p].temp}) \union {call[p].path}
    BY DEF Put
<1>5. /\ call' \in [Procs -> {None} \union Calls]
      /\ call'[p] = [call[p] EXCEPT !.step = "rebind"] /\ call'[p] # None
      /\ \A q \in Procs \ {p} : call'[q] = call[q]
    BY <1>1, Going DEF AllSteps
<1>6. /\ call'[p].op = call[p].op /\ call'[p].path = call[p].path
      /\ call'[p].from = call[p].from /\ call'[p].bytes = call[p].bytes
      /\ call'[p].fd = call[p].fd /\ call'[p].temp = call[p].temp
      /\ call'[p].step = "rebind" /\ call'[p].installed = call[p].installed
    BY <1>1, <1>5 DEF Calls
<1>7. Effect(p)
  <2>1. \A n \in Paths : Stays(n) \/ Binds(p, n)
      BY <1>1, <1>2, <1>3 DEF Binds, InStep
  <2> HIDE DEF Stays
  <2> QED BY <1>1, <1>4, <1>5, <1>6, <2>1 DEF Effect
<1>8. FilesTypeOK'
  <2>1. At(call[p].path) \in Inodes \union {None}
      BY <1>1, NamesTyped
  <2> QED BY <1>1, <1>4, <1>5, <2>1 DEF FilesTypeOK, Put, bounds
<1>9. CallFits(p)'
    BY <1>1, <1>6 DEF CallFits, InStep
<1>10. (WritesAlone(p) /\ WroteAll(p))' /\ Moves(p)' /\ TempGone(p)'
    BY <1>1, <1>4, <1>6 DEF WritesAlone, WroteAll, Moves, TempGone, InStep
<1>11. Installed(p)'
    BY <1>1, <1>6 DEF Installed, CallFits, InStep
<1>12. Appends(p)'
  <2>1. ASSUME InAppend(p, "locked") PROVE Log' = call[p].bytes
    <3>1. At(LedgerPath)' = call[p].fd
        BY <1>1, <1>3, <2>1, Instances DEF TaskFits, LedgerAssumption
    <3> QED BY <1>1, <3>1 DEF Log, Reads, WroteAll, InStep
  <2> QED BY <1>1, <1>6, <2>1 DEF Appends, InStep, InAppend, lvars
<1> QED BY <1>7, <1>8, <1>9, <1>10, <1>11, <1>12 DEF CallInv

LEMMA VerifyRenamedDoes ==
    ASSUME FilesInv, NEW p \in Procs, VerifyRenamed(p), UNCHANGED <<part, lvars>>
    PROVE  FilesTypeOK' /\ Effect(p) /\ CallInv(p)'
<1> USE DEF VerifyRenamed, Runs
<1>1. /\ FilesTypeOK /\ call[p] \in Calls /\ CallFits(p) /\ WroteAll(p) /\ Appends(p)
      /\ call[p] # None /\ call[p].step = "rebind" /\ TempGone(p)
    BY Known
<1>2. PICK step \in {"rebound", "error"} : Goto(p, step)
    BY DEF Goto
<1>3. \A n : Stays(n) /\ DOMAIN names' = DOMAIN names
    BY Idling DEF disk
<1>4. Effect(p)
    BY <1>1, <1>2, <1>3, MovingOn DEF disk, AllSteps
<1>5. /\ call' \in [Procs -> {None} \union Calls]
      /\ call'[p] = [call[p] EXCEPT !.step = step]
    BY <1>1, <1>2, Going DEF AllSteps
<1>6. FilesTypeOK'
    BY <1>1, <1>5 DEF FilesTypeOK, disk, bounds
<1>7. CallFits(p)'
    BY <1>1, <1>2, <1>5 DEF CallFits, InStep, Calls
<1>8. (WritesAlone(p) /\ WroteAll(p))' /\ Moves(p)' /\ TempGone(p)'
    BY <1>1, <1>2, <1>3, <1>5 DEF WritesAlone, WroteAll, Moves, TempGone, InStep, Calls, disk
<1>9. Installed(p)'
    BY <1>1, <1>2, <1>5 DEF Installed, CallFits, InStep, Calls
<1>10. Appends(p)'
  <2>1. Log' = Log
      BY <1>1, <1>3, LogStays DEF disk
  <2>2. call'[p].bytes = call[p].bytes /\ call'[p].step = step
      BY <1>1, <1>5 DEF Calls
  <2> QED BY <1>1, <1>2, <2>1, <2>2 DEF Appends, InStep, InAppend, lvars
<1> QED BY <1>4, <1>6, <1>7, <1>8, <1>9, <1>10 DEF CallInv

LEMMA SettleRenamedDoes ==
    ASSUME FilesInv, NEW p \in Procs, SettleRenamed(p), UNCHANGED <<part, lvars>>
    PROVE  FilesTypeOK' /\ Effect(p) /\ CallInv(p)'
<1> USE DEF SettleRenamed, Runs
<1>1. /\ FilesTypeOK /\ call[p] \in Calls /\ CallFits(p) /\ Appends(p) /\ TaskFits(p)
      /\ call[p] # None /\ call[p].step = "rebound" /\ TempGone(p)
      /\ call[p].path \in Paths /\ call[p].path \notin Temps
    BY Known
<1>2. PICK step \in {"ok", "error"} :
          /\ Goto(p, step)
          /\ step = "ok" => stale' = Unsynced(Dir[call[p].path])
          /\ step = "error" => UNCHANGED stale
    BY DEF Goto
<1>3. \A n : Stays(n) /\ DOMAIN names' = DOMAIN names
    BY <1>2, Idling, Syncing
<1>4. Effect(p)
    BY <1>1, <1>2, <1>3, MovingOn DEF AllSteps
<1>5. /\ call' \in [Procs -> {None} \union Calls]
      /\ call'[p] = [call[p] EXCEPT !.step = step]
    BY <1>1, <1>2, Going DEF AllSteps
<1>6. FilesTypeOK'
    BY <1>1, <1>2, <1>5 DEF FilesTypeOK, Unsynced, bounds
<1>7. CallFits(p)'
    BY <1>1, <1>2, <1>5 DEF CallFits, InStep, Calls
<1>8. (WritesAlone(p) /\ WroteAll(p))' /\ Moves(p)' /\ TempGone(p)'
    BY <1>1, <1>2, <1>3, <1>5 DEF WritesAlone, WroteAll, Moves, TempGone, InStep, Calls
<1>9. Installed(p)'
    BY <1>1, <1>2, <1>5 DEF Installed, CallFits, InStep, Calls
<1>10. Appends(p)'
  <2>1. Log' = Log
      BY <1>1, <1>3, LogStays
  <2>2. call'[p].bytes = call[p].bytes /\ call'[p].step = step
      BY <1>1, <1>5 DEF Calls
  <2>3. step = "ok" /\ InAppend(p, "locked") => Settled(LedgerPath)'
    <3>1. InAppend(p, "locked") => Dir[call[p].path] = DirOf(LedgerPath)
        BY <1>1 DEF TaskFits, DirOf
    <3> QED BY <1>2, <3>1, Syncing
  <2> QED BY <1>1, <1>2, <2>1, <2>2, <2>3 DEF Appends, InStep, InAppend, lvars
<1> QED BY <1>4, <1>6, <1>7, <1>8, <1>9, <1>10 DEF CallInv

LEMMA RenamedFailsDoes ==
    ASSUME FilesInv, NEW p \in Procs, RenamedFails(p), UNCHANGED <<part, lvars>>
    PROVE  FilesTypeOK' /\ Effect(p) /\ CallInv(p)'
<1> USE DEF RenamedFails, Runs
<1>1. /\ FilesTypeOK /\ call[p] \in Calls /\ CallFits(p) /\ Appends(p)
      /\ call[p] # None /\ call[p].step \in {"rebind", "rebound"} /\ TempGone(p)
    BY Known
<1>2. \A n : Stays(n) /\ DOMAIN names' = DOMAIN names
    BY Idling DEF disk
<1>3. Effect(p)
    BY <1>1, <1>2, MovingOn DEF disk, AllSteps
<1>4. /\ call' \in [Procs -> {None} \union Calls]
      /\ call'[p] = [call[p] EXCEPT !.step = "error"]
    BY <1>1, Going DEF AllSteps
<1>5. FilesTypeOK'
    BY SMTT(30), <1>1, <1>4, FilesAssumption DEF FilesTypeOK, disk
<1>6. CallFits(p)'
    BY <1>1, <1>4 DEF CallFits, InStep, Calls
<1>7. (WritesAlone(p) /\ WroteAll(p))' /\ Moves(p)' /\ TempGone(p)'
    BY <1>1, <1>2, <1>4 DEF WritesAlone, WroteAll, Moves, TempGone, InStep, Calls
<1>8. Installed(p)'
    BY <1>1, <1>4 DEF Installed, CallFits, InStep, Calls
<1>9. Appends(p)'
  <2>1. call'[p].bytes = call[p].bytes /\ call'[p].step = "error"
      BY <1>1, <1>4 DEF Calls
  <2> QED BY <1>1, <2>1 DEF Appends, InStep, InAppend, lvars
<1> QED BY <1>3, <1>5, <1>6, <1>7, <1>8, <1>9 DEF CallInv

LEMMA OpenSourceDoes ==
    ASSUME FilesInv, NEW p \in Procs, OpenSource(p), UNCHANGED <<part, lvars>>
    PROVE  FilesTypeOK' /\ Effect(p) /\ CallInv(p)'
<1> USE DEF OpenSource, Runs
<1> DEFINE step == IF At(call[p].from) = None THEN "verify"
                   ELSE IF Reads(call[p].from) # call[p].bytes THEN "error" ELSE "moving"
           next == [call[p] EXCEPT !.installed = TRUE, !.fd = At(call[p].from), !.step = step]
<1>1. /\ FilesTypeOK /\ call[p] \in Calls /\ CallFits(p)
      /\ call[p] # None /\ call[p].step = "source" /\ call[p].op = "move"
      /\ call[p].from = s /\ part = "pointers" /\ SourceFound /\ call[p].temp = None
      /\ call \in [Procs -> {None} \union Calls] /\ None \notin Calls
    BY Known, FilesAssumption DEF CallFits, InStep, FilesInv, DiskInv
<1>2. At(s) \in Inodes \union {None} /\ At(s) \in Possible(s)
    BY <1>1, NamesTyped
<1>3. next \in Calls
    BY <1>1, <1>2 DEF Calls
<1>4. call'[p] = next /\ call' \in [Procs -> {None} \union Calls]
      /\ \A q \in Procs \ {p} : call'[q] = call[q]
  <2>1. call' = [call EXCEPT ![p] = next]
      BY <1>1
  <2> HIDE DEF next
  <2> QED BY ZenonT(60), <1>1, <1>3, <2>1
<1>5. /\ call'[p].op = call[p].op /\ call'[p].path = call[p].path
      /\ call'[p].from = call[p].from /\ call'[p].bytes = call[p].bytes
      /\ call'[p].fd = At(s) /\ call'[p].temp = call[p].temp
      /\ call'[p].step = step /\ call'[p] # None
    BY <1>1, <1>3, <1>4 DEF Calls
<1>6. \A n : Stays(n) /\ DOMAIN names' = DOMAIN names
    BY Idling DEF disk
<1>7. Effect(p)
  <2>1. \A n \in Paths : Stays(n)
      BY <1>6
  <2>2. \E n \in Paths : call'[p].fd \in Possible(n)
      BY <1>2, <1>5, Instances
  <2> HIDE DEF Stays
  <2> QED BY <1>1, <1>4, <1>5, <1>6, <2>1, <2>2 DEF Effect, disk
<1>8. FilesTypeOK'
    BY <1>1, <1>4 DEF FilesTypeOK, disk, bounds
<1>9. CallFits(p)'
    BY <1>1, <1>5 DEF CallFits, InStep
<1>10. (WritesAlone(p) /\ WroteAll(p))'
    BY <1>1, <1>5 DEF WritesAlone, WroteAll, InStep
<1>11. Moves(p)'
  <2>1. At(s) # None => At(s) = 1
      BY <1>1, <1>2 DEF SourceFound
  <2>2. At(s) = None => Possible(b)' = {1}
      BY <1>1, <1>6, StaysOne DEF SourceFound
  <2> QED BY <1>1, <1>5, <2>1, <2>2 DEF Moves, InStep
<1>12. TempGone(p)'
  <2>1. None \notin DOMAIN names'
      BY <1>1, <1>8, FilesAssumption DEF FilesTypeOK
  <2> QED BY <1>1, <1>5, <2>1 DEF TempGone
<1>13. Installed(p)'
    BY <1>1, <1>5 DEF Installed
<1>14. Appends(p)'
    BY <1>1, <1>5, NotTheLog DEF lvars
<1> QED BY <1>7, <1>8, <1>9, <1>10, <1>11, <1>12, <1>13, <1>14 DEF CallInv

\* The steps of a move after its source was opened.
LEMMA MoveGoesOn ==
    ASSUME FilesInv, NEW p \in Procs, InStep(p, {"moving", "moved", "retire", "retired"}),
           NEW step \in {"moved", "retire", "retired", "verify", "error"}, Goto(p, step),
           FilesTypeOK', DOMAIN names' \subseteq DOMAIN names \union {b},
           UNCHANGED <<part, task>>,
           step = "moved" => At(b)' = 1,
           step \in {"retire", "retired", "verify"} => Possible(b)' = {1}
    PROVE  CallInv(p)'
<1>1. /\ FilesTypeOK /\ call[p] \in Calls /\ CallFits(p) /\ Moves(p)
      /\ call[p] # None /\ call[p].op = "move" /\ part = "pointers"
      /\ call[p].temp = None /\ call[p].fd = 1
    BY Known DEF CallFits, InStep, Moves
<1>2. /\ call'[p] = [call[p] EXCEPT !.step = step] /\ call'[p] # None
  <2>1. step \in AllSteps
      BY DEF AllSteps
  <2> QED BY <1>1, <2>1, Going
<1>3. /\ call'[p].op = call[p].op /\ call'[p].path = call[p].path
      /\ call'[p].from = call[p].from /\ call'[p].bytes = call[p].bytes
      /\ call'[p].fd = call[p].fd /\ call'[p].temp = call[p].temp
      /\ call'[p].step = step
    BY <1>1, <1>2 DEF Calls
<1>4. CallFits(p)'
    BY <1>1, <1>3 DEF CallFits, InStep
<1>5. (WritesAlone(p) /\ WroteAll(p) /\ Installed(p))'
    BY <1>1, <1>3 DEF WritesAlone, WroteAll, Installed, InStep
<1>6. Moves(p)'
    BY <1>1, <1>3 DEF Moves, InStep
<1>7. TempGone(p)'
  <2>1. None \notin DOMAIN names'
      BY FilesAssumption DEF FilesTypeOK
  <2> QED BY <1>1, <1>3, <2>1 DEF TempGone
<1>8. Appends(p)'
    BY <1>1, <1>3, NotTheLog
<1> QED BY <1>4, <1>5, <1>6, <1>7, <1>8 DEF CallInv

LEMMA Moving ==
    ASSUME FilesInv, NEW p \in Procs, InStep(p, {"moving", "moved", "retire", "retired"})
    PROVE  /\ FilesTypeOK /\ call[p] \in Calls /\ Moves(p) /\ SourceFound
           /\ call[p] # None /\ call[p].op = "move" /\ part = "pointers"
           /\ call[p].path = b /\ call[p].from = s /\ call[p].fd = 1
           /\ b \in Paths /\ s \in Paths /\ b # s /\ b \notin Temps /\ s \notin Temps
           /\ 1 \in Inodes /\ 1 # None
           /\ call \in [Procs -> {None} \union Calls]
BY Known, Instances, FilesAssumption DEF CallFits, InStep, Moves, FilesInv, DiskInv

LEMMA LinkMovedDoes ==
    ASSUME FilesInv, NEW p \in Procs, LinkMoved(p), UNCHANGED <<part, lvars>>
    PROVE  FilesTypeOK' /\ Effect(p) /\ CallInv(p)'
<1> USE DEF LinkMoved, Runs
<1>1. InStep(p, {"moving"}) /\ InStep(p, {"moving", "moved", "retire", "retired"})
    BY DEF InStep
<1>2. CASE At(b) = None
  <2>1. Bind(b, 1) /\ Goto(p, "moved")
      BY <1>1, <1>2, Moving
  <2>2. /\ call' \in [Procs -> {None} \union Calls]
        /\ call'[p] = [call[p] EXCEPT !.step = "moved"] /\ call'[p] # None
        /\ \A q \in Procs \ {p} : call'[q] = call[q]
      BY <1>1, <2>1, Moving, Going DEF AllSteps
  <2>3. /\ call'[p].op = call[p].op /\ call'[p].path = call[p].path
        /\ call'[p].from = call[p].from /\ call'[p].bytes = call[p].bytes
        /\ call'[p].fd = call[p].fd /\ call'[p].temp = call[p].temp
      BY <1>1, <2>2, Moving DEF Calls
  <2>4. At(b)' = 1 /\ Possible(b)' \subseteq Possible(b) \union {1}
      BY <2>1, Binding
  <2>5. DOMAIN names' = DOMAIN names \union {b}
      BY <2>1, Binding
  <2>6. Effect(p)
    <3>1. ASSUME NEW n \in Paths PROVE Stays(n) \/ Binds(p, n)
      <4>1. CASE n = b
          BY <1>1, <1>2, <2>4, <4>1, Moving DEF Binds, InStep
      <4>2. CASE n # b
        <5> HIDE DEF Stays
        <5> QED BY <2>1, <4>2, Binding
      <4> QED BY <4>1, <4>2
    <3> HIDE DEF Stays
    <3> QED BY <1>1, <2>2, <2>3, <2>5, <3>1, Moving DEF Effect
  <2>7. FilesTypeOK'
      BY <1>1, <2>1, <2>2, Moving, NamesTyped DEF FilesTypeOK, Bind, Put, bounds
  <2> QED BY <1>1, <2>1, <2>4, <2>5, <2>6, <2>7, MoveGoesOn DEF lvars
<1>3. CASE At(b) # None
  <2>1. UNCHANGED <<names, stale>>
        /\ \/ At(b) = 1 /\ Goto(p, "moved")
           \/ Goto(p, "error")
      BY <1>1, <1>3, Moving
  <2>2. PICK step \in {"moved", "error"} : Goto(p, step) /\ (step = "moved" => At(b) = 1)
      BY <2>1
  <2>3. \A n : Stays(n) /\ DOMAIN names' = DOMAIN names
      BY <2>1, Idling
  <2>4. Effect(p)
      BY <1>1, <2>2, <2>3, Moving, MovingOn DEF AllSteps
  <2>5. call' \in [Procs -> {None} \union Calls]
      BY <1>1, <2>2, Moving, Going DEF AllSteps
  <2>6. FilesTypeOK'
      BY <1>1, <2>1, <2>5, Moving DEF FilesTypeOK, bounds
  <2>7. step = "moved" => At(b)' = 1
      BY <2>2, <2>3 DEF Stays
  <2>8. CallInv(p)'
    <3> HIDE DEF LinkMoved
    <3> QED BY <1>1, <2>2, <2>3, <2>6, <2>7, MoveGoesOn DEF lvars, LinkMoved
  <2> QED BY <2>4, <2>6, <2>8
<1> QED BY <1>2, <1>3

LEMMA SettleMovedDoes ==
    ASSUME FilesInv, NEW p \in Procs, SettleMoved(p), UNCHANGED <<part, lvars>>
    PROVE  FilesTypeOK' /\ Effect(p) /\ CallInv(p)'
<1> USE DEF SettleMoved, Runs
<1>1. InStep(p, {"moved"}) /\ InStep(p, {"moving", "moved", "retire", "retired"})
    BY DEF InStep
<1>2. \A n : Stays(n) /\ DOMAIN names' = DOMAIN names
             /\ (DirOf(n) = Dir[call[p].path] => Settled(n)')
    BY Syncing
<1>3. /\ file' = [file EXCEPT ![1].synced = TRUE]
      /\ file \in [Inodes -> [data : {Torn} \union Seq(Nat), synced : BOOLEAN]]
    BY <1>1, Moving DEF FilesTypeOK
<1>4. /\ file' \in [Inodes -> [data : {Torn} \union Seq(Nat), synced : BOOLEAN]]
      /\ \A i \in Inodes : \/ file'[i] = file[i]
                           \/ file'[i].synced /\ file'[i].data = file[i].data
  <2>1. 1 \in Inodes
      BY <1>1, Moving
  <2> HIDE DEF SettleMoved
  <2> DEFINE settled == [file[1] EXCEPT !.synced = TRUE]
  <2>2. /\ settled \in [data : {Torn} \union Seq(Nat), synced : BOOLEAN]
        /\ settled.synced /\ settled.data = file[1].data
      BY <1>3, <2>1
  <2>3. file' = [file EXCEPT ![1] = settled]
      BY <1>3
  <2> HIDE DEF settled
  <2> QED BY ZenonT(60), <1>3, <2>1, <2>2, <2>3
<1>5. Effect(p)
    BY <1>1, <1>2, <1>4, Moving, MovingOn DEF AllSteps
<1>6. call' \in [Procs -> {None} \union Calls]
    BY <1>1, Moving, Going DEF AllSteps
<1>7. FilesTypeOK'
    BY <1>1, <1>4, <1>6, Moving DEF FilesTypeOK, Unsynced, bounds
<1>8. Possible(b)' = {1}
  <2>1. Settled(b)' /\ Stays(b)
      BY <1>1, <1>2, Moving DEF DirOf
  <2>2. At(b) = 1
      BY <1>1, Moving DEF Moves
  <2> QED BY <2>1, <2>2 DEF Settled, Stays
<1> QED BY <1>1, <1>2, <1>5, <1>7, <1>8, MoveGoesOn DEF lvars

LEMMA UnlinkSourceDoes ==
    ASSUME FilesInv, NEW p \in Procs, UnlinkSource(p), UNCHANGED <<part, lvars>>
    PROVE  FilesTypeOK' /\ Effect(p) /\ CallInv(p)'
<1> USE DEF UnlinkSource, Runs
<1>1. InStep(p, {"retire"}) /\ InStep(p, {"moving", "moved", "retire", "retired"})
    BY DEF InStep
<1>2. Possible(b) = {1}
    BY <1>1, Moving DEF Moves, InStep
<1>3. CASE At(s) = 1
  <2>1. /\ names' = [x \in DOMAIN names \ {s} |-> names[x]]
        /\ stale' = stale \union {<<s, 1>>}
        /\ Goto(p, "retired")
      BY <1>1, <1>3, Moving
  <2>2. /\ call' \in [Procs -> {None} \union Calls]
        /\ call'[p] = [call[p] EXCEPT !.step = "retired"] /\ call'[p] # None
        /\ \A q \in Procs \ {p} : call'[q] = call[q]
    <3>1. FilesTypeOK /\ call[p] # None /\ "retired" \in AllSteps
        BY <1>1, Moving DEF AllSteps
    <3> HIDE DEF UnlinkSource
    <3> QED BY <2>1, <3>1, Going
  <2>3. /\ call'[p].op = call[p].op /\ call'[p].path = call[p].path
        /\ call'[p].from = call[p].from /\ call'[p].bytes = call[p].bytes
        /\ call'[p].fd = call[p].fd /\ call'[p].temp = call[p].temp
      BY <1>1, <2>2, Moving DEF Calls
  <2>4. /\ At(s)' = None /\ Possible(s)' \subseteq Possible(s) \union {None}
        /\ \A n : n # s => Stays(n)
        /\ DOMAIN names' \subseteq DOMAIN names
      BY <1>3, <2>1 DEF At, Possible, Stays
  <2>5. Effect(p)
    <3>1. ASSUME NEW n \in Paths PROVE Stays(n) \/ Retires(p, n)
        BY <1>1, <1>3, <2>4, Moving DEF Retires
    <3> HIDE DEF Stays
    <3> QED BY <1>1, <2>2, <2>3, <2>4, <3>1, Moving DEF Effect
  <2>6. FilesTypeOK'
      BY <1>1, <2>1, <2>2, Moving DEF FilesTypeOK, bounds
  <2>7. Possible(b)' = {1}
    <3>1. Stays(b)
        BY <1>1, <2>4, Moving
    <3> HIDE DEF UnlinkSource
    <3> QED BY <1>2, <3>1, StaysOne
  <2>8. CallInv(p)'
      BY <1>1, <2>1, <2>4, <2>6, <2>7, MoveGoesOn DEF lvars
  <2> QED BY <2>5, <2>6, <2>8
<1>4. CASE At(s) # 1
  <2>1. UNCHANGED <<names, stale>> /\ Goto(p, "error")
      BY <1>1, <1>4, Moving
  <2>2. \A n : Stays(n) /\ DOMAIN names' = DOMAIN names
      BY <2>1, Idling
  <2>3. Effect(p)
      BY <1>1, <2>1, <2>2, Moving, MovingOn DEF AllSteps
  <2>4. call' \in [Procs -> {None} \union Calls]
      BY <1>1, <2>1, Moving, Going DEF AllSteps
  <2>5. FilesTypeOK'
      BY <1>1, <2>1, <2>4, Moving DEF FilesTypeOK, bounds
  <2>6. CallInv(p)'
      BY <1>1, <2>1, <2>2, <2>5, MoveGoesOn DEF lvars
  <2> QED BY <2>3, <2>5, <2>6
<1> QED BY <1>3, <1>4

LEMMA SettleSourceDoes ==
    ASSUME FilesInv, NEW p \in Procs, SettleSource(p), UNCHANGED <<part, lvars>>
    PROVE  FilesTypeOK' /\ Effect(p) /\ CallInv(p)'
<1> USE DEF SettleSource, Runs
<1>1. InStep(p, {"retired"}) /\ InStep(p, {"moving", "moved", "retire", "retired"})
    BY DEF InStep
<1>2. \A n : Stays(n) /\ DOMAIN names' = DOMAIN names
    BY Syncing
<1>3. Effect(p)
    BY <1>1, <1>2, Moving, MovingOn DEF AllSteps
<1>4. call' \in [Procs -> {None} \union Calls]
    BY <1>1, Moving, Going DEF AllSteps
<1>5. FilesTypeOK'
    BY <1>1, <1>4, Moving DEF FilesTypeOK, Unsynced, bounds
<1>6. Possible(b)' = {1}
  <2>1. Possible(b) = {1}
      BY <1>1, Moving DEF Moves, InStep
  <2> QED BY <1>2, <2>1, StaysOne
<1> QED BY <1>1, <1>2, <1>3, <1>5, <1>6, MoveGoesOn DEF lvars

LEMMA CreateTemporaryDoes ==
    ASSUME FilesInv, NEW p \in Procs, CreateTemporary(p), UNCHANGED <<part, lvars>>
    PROVE  FilesTypeOK' /\ Effect(p) /\ CallInv(p)'
<1> DEFINE taken(n) == At(TempOf(p, n)) # None
           numbers == {n \in seq[p] .. MaxSeq : ~taken(n)}
           next == IF call[p].op = "replace" THEN seq[p] ELSE Min(numbers)
           inode == Min(Free)
           temp == TempOf(p, next)
<1>1. /\ FilesTypeOK /\ call[p] \in Calls /\ CallFits(p) /\ Appends(p)
      /\ call[p] # None /\ call[p].step = "stage" /\ call[p].op # "move"
      /\ call[p].path \in Paths /\ call[p].temp = None /\ ~call[p].installed
      /\ call \in [Procs -> {None} \union Calls] /\ None \notin Calls
      /\ seq[p] \in 0 .. MaxSeq + 1 /\ MaxSeq \in Nat
    BY Known, FilesAssumption DEF CallFits, InStep, CreateTemporary, Runs, FilesTypeOK
<1>2. /\ Free # {}
      /\ \E n \in seq[p] .. MaxSeq : call[p].op = "replace" \/ ~taken(n)
      /\ seq' = [seq EXCEPT ![p] = next + 1]
      /\ IF taken(next)
         THEN Goto(p, "error") /\ UNCHANGED disk
         ELSE /\ Bind(temp, inode)
              /\ file' = [file EXCEPT ![inode] = [data |-> Torn, synced |-> FALSE]]
              /\ call' = [call EXCEPT ![p].temp = temp, ![p].fd = inode, ![p].step = "write"]
      /\ UNCHANGED <<bounds, promised, orphans>>
    BY DEF CreateTemporary
<1>3. inode \in Free /\ inode \in Inodes
  <2>1. Free \in SUBSET Nat
      BY FilesAssumption DEF Free
  <2>2. inode \in Free
      BY <1>2, <2>1, MinIsIn
  <2> QED BY <2>2 DEF Free
<1> HIDE DEF inode
<1>4. next \in 0 .. MaxSeq
  <2>1. CASE call[p].op = "replace"
      BY <1>1, <1>2, <2>1
  <2>2. CASE call[p].op # "replace"
    <3>1. numbers # {} /\ numbers \in SUBSET Nat
      <4> HIDE DEF taken
      <4>1. PICK n \in seq[p] .. MaxSeq : ~taken(n)
          BY <1>2, <2>2
      <4>2. seq[p] .. MaxSeq \in SUBSET Nat
          BY <1>1
      <4> QED BY <4>1, <4>2
    <3>2. Min(numbers) \in numbers
        BY <3>1, MinIsIn
    <3> QED BY <1>1, <2>2, <3>2
  <2> QED BY <2>1, <2>2
<1> HIDE DEF next
<1>5. temp \in Temps /\ temp[2] = p /\ temp \notin Paths /\ temp # None
    BY <1>1, <1>4, FilesAssumption DEF TempOf, Temps
<1>6. seq' \in [Procs -> 0 .. MaxSeq + 1]
    BY <1>1, <1>2, <1>4 DEF FilesTypeOK
<1>7. CASE taken(next)
  <2>1. Goto(p, "error") /\ UNCHANGED disk
      BY <1>2, <1>7
  <2>2. \A n : Stays(n) /\ DOMAIN names' = DOMAIN names
      BY <2>1, Idling DEF disk
  <2>3. Effect(p)
      BY <1>1, <2>1, <2>2, MovingOn DEF AllSteps, disk
  <2>4. /\ call' \in [Procs -> {None} \union Calls]
        /\ call'[p] = [call[p] EXCEPT !.step = "error"]
      BY <1>1, <2>1, Going DEF AllSteps
  <2>5. FilesTypeOK'
      BY <1>1, <1>2, <1>6, <2>1, <2>4 DEF FilesTypeOK, disk, bounds
  <2>6. CallFits(p)'
      BY <1>1, <2>4 DEF CallFits, InStep, Calls
  <2>7. (WritesAlone(p) /\ WroteAll(p))' /\ Moves(p)' /\ TempGone(p)'
    <3>1. None \notin DOMAIN names'
        BY <2>5, FilesAssumption DEF FilesTypeOK
    <3> QED BY <1>1, <2>4, <3>1 DEF WritesAlone, WroteAll, Moves, TempGone, InStep, Calls
  <2>8. Installed(p)'
      BY <1>1, <2>4 DEF Installed, CallFits, InStep, Calls
  <2>9. Appends(p)'
    <3>1. call'[p].bytes = call[p].bytes /\ call'[p].step = "error"
        BY <1>1, <2>4 DEF Calls
    <3> QED BY <1>1, <3>1 DEF Appends, InStep, InAppend, lvars
  <2> QED BY <2>3, <2>5, <2>6, <2>7, <2>8, <2>9 DEF CallInv
<1>8. CASE ~taken(next)
  <2>1. /\ Bind(temp, inode)
        /\ file' = [file EXCEPT ![inode] = [data |-> Torn, synced |-> FALSE]]
        /\ call' = [call EXCEPT ![p].temp = temp, ![p].fd = inode, ![p].step = "write"]
      BY <1>2, <1>8
  <2> HIDE DEF temp, taken
  <2> DEFINE call1 == [call[p] EXCEPT !.temp = temp, !.fd = inode, !.step = "write"]
  <2>2. call1 \in Calls
      BY ZenonT(60), <1>1, <1>3, <1>5 DEF Calls
  <2>3. /\ call'[p] = call1 /\ call' \in [Procs -> {None} \union Calls]
        /\ \A q \in Procs \ {p} : call'[q] = call[q]
    <3>1. call' = [call EXCEPT ![p] = call1]
        BY <1>1, <2>1
    <3> HIDE DEF call1
    <3> QED BY <1>1, <2>2, <3>1
  <2>4. /\ call'[p].op = call[p].op /\ call'[p].path = call[p].path
        /\ call'[p].from = call[p].from /\ call'[p].bytes = call[p].bytes
        /\ call'[p].fd = inode /\ call'[p].temp = temp /\ call'[p] # None
        /\ call'[p].step = "write" /\ ~call'[p].installed
      BY ZenonT(60), <1>1, <2>2, <2>3 DEF Calls
  <2>5. /\ DOMAIN names' = DOMAIN names \union {temp}
        /\ \A n \in Paths : Stays(n)
    <3> HIDE DEF Stays
    <3> QED BY <1>5, <2>1, Binding
  <2>6. /\ file' \in [Inodes -> [data : {Torn} \union Seq(Nat), synced : BOOLEAN]]
        /\ \A i \in Inodes \ {inode} : file'[i] = file[i]
      BY <1>1, <1>3, <2>1 DEF FilesTypeOK
  <2>7. Effect(p)
    <3> HIDE DEF Stays
    <3> QED BY <1>1, <1>3, <2>3, <2>4, <2>5, <2>6 DEF Effect
  <2>8. FilesTypeOK'
      BY SMTT(30), <1>1, <1>2, <1>3, <1>5, <1>6, <2>1, <2>3, <2>6, NamesTyped
         DEF FilesTypeOK, Bind, Put, bounds
  <2>9. CallFits(p)'
      BY <1>1, <1>3, <1>5, <2>4, NamesTyped DEF CallFits, InStep
  <2>10. WritesAlone(p)'
    <3>1. ASSUME NEW n \in Paths PROVE inode \notin Possible(n)'
        BY <1>1, <1>3, <2>5, NamesTyped DEF Stays
    <3>2. ASSUME NEW q \in Procs \ {p}, call[q] # None PROVE call[q].fd # inode
        BY <1>1, <1>3, <3>2, NamesTyped
    <3> QED BY <2>3, <2>4, <3>1, <3>2 DEF WritesAlone
  <2>11. WroteAll(p)' /\ Moves(p)' /\ TempGone(p)' /\ Installed(p)'
      BY <2>4 DEF WroteAll, Moves, TempGone, InStep, Installed
  <2>12. Appends(p)'
    <3>1. Log' = Log
      <4>1. At(LedgerPath) # inode /\ LedgerPath \in Paths
          BY <1>1, <1>3, NamesTyped, Instances DEF LedgerAssumption
      <4> QED BY <1>1, <2>5, <2>6, <4>1, LogStays
    <3> QED BY <1>1, <2>4, <3>1 DEF Appends, InStep, InAppend, lvars
  <2> QED BY <2>7, <2>8, <2>9, <2>10, <2>11, <2>12 DEF CallInv
<1> QED BY <1>7, <1>8

\* No system call changes the data of a file that a path leads to.
LEMMA DataStays ==
    ASSUME FilesInv, NEW p \in Procs, Effect(p), NEW n \in Paths, NEW i \in Possible(n),
           i # None
    PROVE  /\ i \in Inodes /\ file'[i].data = file[i].data
           /\ file[i].synced => file'[i].synced
<1>1. FilesTypeOK /\ call[p] # None /\ WritesAlone(p)
    BY Known DEF Effect
<1>2. i \in Inodes /\ i \notin Free
    BY <1>1, NamesTyped
<1>3. ~(InStep(p, {"write"}) /\ i = call[p].fd)
    BY <1>1 DEF WritesAlone
<1> QED BY <1>2, <1>3 DEF Effect

LEMMA LogUntouched ==
    ASSUME FilesInv, NEW p \in Procs, Effect(p), call[p].path # LedgerPath
    PROVE  Stays(LedgerPath) /\ Log' = Log
<1>1. /\ FilesTypeOK /\ call[p] # None /\ CallFits(p) /\ LedgerPath \in Paths
      /\ LedgerPath # s
    BY Known, Instances DEF Effect, LedgerAssumption
<1>2. ~Binds(p, LedgerPath) /\ ~Retires(p, LedgerPath)
    BY <1>1 DEF Binds, Retires, CallFits, InStep
<1>3. Stays(LedgerPath)
    BY <1>1, <1>2 DEF Effect
<1>4. \A i \in Inodes : i = At(LedgerPath) => file'[i].data = file[i].data
    BY <1>1, NamesTyped, DataStays
<1> QED BY <1>1, <1>3, <1>4, LogStays

\* What stays of the others, whatever a system call of p does.
LEMMA OthersKeep ==
    ASSUME FilesInv, NEW p \in Procs, Effect(p), FilesTypeOK', CallFits(p)',
           UNCHANGED <<part, lvars>>, NEW q \in Procs \ {p}
    PROVE  CallInv(q)'
<1>1. /\ FilesTypeOK /\ CallInv(q) /\ call'[q] = call[q]
      /\ CallInv(p) /\ TaskFits(p) /\ TaskFits(q) /\ HoldsLock(p) /\ HoldsLock(q)
    BY DEF FilesInv, DiskInv, LogInv, LedgerTypeOK, Effect
<1>2. CASE call[q] = None
    BY <1>1, <1>2
       DEF CallInv, CallFits, WritesAlone, WroteAll, Installed, TempGone, Moves, Appends,
           InStep
<1>3. CASE call[q] # None
  <2>1. call[q] \in Calls /\ call[q].fd \notin Free
      BY <1>1, <1>3, NamesTyped
  <2>2. CallFits(q)'
      BY <1>1 DEF CallInv, CallFits, InStep
  <2>3. WritesAlone(q)'
    <3> SUFFICES ASSUME InStep(q, {"write"}) PROVE WritesAlone(q)'
        BY <1>1 DEF WritesAlone, InStep
    <3>1. ASSUME NEW n \in Paths PROVE call[q].fd \notin Possible(n)'
      <4>1. call[q].fd \notin Possible(n) /\ call[q].fd # None
          BY <1>1 DEF CallInv, WritesAlone, CallFits, InStep
      <4>2. call[p].fd # call[q].fd
          BY <1>1 DEF CallInv, WritesAlone, Effect, InStep
      <4> QED BY <4>1, <4>2 DEF Effect, Stays, Binds, Retires
    <3>2. ASSUME NEW r \in Procs \ {q}, call'[r] # None PROVE call'[r].fd # call[q].fd
      <4>1. CASE r # p
          BY <1>1, <3>2, <4>1 DEF Effect, CallInv, WritesAlone, InStep
      <4>2. CASE r = p
        <5>1. call[q].fd # call[p].fd /\ \A n \in Paths : call[q].fd \notin Possible(n)
            BY <1>1 DEF CallInv, WritesAlone, Effect, InStep
        <5> QED BY <2>1, <4>2, <5>1 DEF Effect
      <4> QED BY <4>1, <4>2
    <3> QED BY <1>1, <3>1, <3>2 DEF WritesAlone
  <2>4. WroteAll(q)'
    <3> SUFFICES ASSUME InStep(q, {"link", "settle", "rename", "rebind", "rebound"})
                 PROVE  /\ file'[call[q].fd].synced
                        /\ file'[call[q].fd].data = call[q].bytes
        BY <1>1 DEF WroteAll, InStep
    <3>1. call[q].fd \in Inodes
        BY <1>1, <2>1 DEF CallInv, CallFits, InStep, Calls
    <3>2. file[call[q].fd].synced /\ file[call[q].fd].data = call[q].bytes
        BY <1>1 DEF CallInv, WroteAll
    <3>3. ~(InStep(p, {"write"}) /\ call[q].fd = call[p].fd)
        BY <1>1, <1>3 DEF CallInv, WritesAlone, InStep
    <3> QED BY <2>1, <3>1, <3>2, <3>3 DEF Effect
  <2>5. Installed(q)'
    <3> SUFFICES ASSUME call[q].installed, call[q].op # "move", NEW n \in Paths,
                        n = call[q].path, InStep(q, {"settle", "unlink", "verify"})
                 PROVE  At(n)' # None /\ (InStep(q, {"unlink", "verify"}) => Settled(n)')
        BY <1>1 DEF Installed, InStep
    <3>1. At(n) # None /\ (InStep(q, {"unlink", "verify"}) => Settled(n))
        BY <1>1, <1>3 DEF CallInv, Installed
    <3>2. n \in {a, LockPath}
        BY <1>1, <1>3, <2>1 DEF CallInv, CallFits, InStep, Calls
    <3>3. ~Binds(p, n) /\ ~Retires(p, n)
        BY <1>1, <3>1, <3>2, Instances DEF Binds, Retires, CallInv, CallFits, InStep
    <3>4. Stays(n)
        BY <3>3 DEF Effect
    <3> QED BY <3>1, <3>4, StaysSettled DEF Stays
  <2>6. TempGone(q)'
    <3> SUFFICES ASSUME InStep(q, {"verify", "ok", "error", "rebind", "rebound"})
                 PROVE  call[q].temp \notin DOMAIN names'
        BY <1>1 DEF TempGone, InStep
    <3>1. call[q].temp \notin DOMAIN names /\ call[q].temp \notin Paths
        BY <1>1, <2>1, FilesAssumption DEF CallInv, TempGone, Calls
    <3>2. call[q].temp # None => call[q].temp[2] = q
        BY <1>1, <1>3 DEF CallInv, CallFits
    <3>3. ASSUME call[q].temp = call'[p].temp PROVE call[q].temp = None
      <4>1. call'[p].temp # None => call'[p].temp[2] = p
          BY DEF CallFits, Effect
      <4> QED BY <3>2, <3>3, <4>1
    <3> QED BY <3>1, <3>3, FilesAssumption DEF Effect, FilesTypeOK
  <2>7. Moves(q)'
    <3> SUFFICES ASSUME part = "pointers",
                        \/ InStep(q, {"moved", "retire", "retired"})
                        \/ InStep(q, {"verify"}) /\ call[q].op = "move"
                 PROVE  /\ InStep(q, {"moved"}) => At(b)' = 1
                        /\ ~InStep(q, {"moved"}) => Possible(b)' = {1}
        BY <1>1 DEF CallInv, Moves, InStep
    <3>1. /\ InStep(q, {"moved"}) => At(b) = 1
          /\ ~InStep(q, {"moved"}) => Possible(b) = {1}
        BY <1>1 DEF CallInv, Moves, InStep
    <3>2. At(b) = 1 /\ b \in Paths /\ 1 # None
        BY <1>1, <3>1, NamesTyped, Instances
    <3>3. ~Binds(p, b) /\ ~Retires(p, b)
        BY ZenonT(60), <1>1, <3>2, Instances DEF Binds, Retires, CallInv, CallFits, InStep, Effect
    <3>4. Stays(b)
        BY <3>2, <3>3 DEF Effect
    <3>5. Possible(b) = {1} => Possible(b)' = {1}
        BY <3>4, StaysOne
    <3> QED BY <3>1, <3>2, <3>4, <3>5 DEF Stays
  <2>8. Appends(q)'
    <3> SUFFICES ASSUME InAppend(q, "locked") PROVE Appends(q)'
        BY DEF Appends, InAppend, lvars
    <3>1. ~InAppend(p, "locked")
        BY <1>1 DEF HoldsLock, InAppend
    <3>2. Stays(LedgerPath) /\ Log' = Log
        BY <1>1, <3>1, LogUntouched DEF TaskFits, Effect
    <3>3. Settled(LedgerPath) => Settled(LedgerPath)'
        BY <3>2, StaysSettled
    <3> QED BY <1>1, <1>3, <3>2, <3>3 DEF CallInv, Appends, InStep, InAppend, lvars
  <2> QED BY <2>2, <2>3, <2>4, <2>5, <2>6, <2>7, <2>8 DEF CallInv
<1> QED BY <1>2, <1>3

LEMMA PromisesStay ==
    ASSUME FilesInv, NEW p \in Procs, Effect(p), UNCHANGED part, NEW x \in promised
    PROVE  Possible(x.path)' = {x.inode} /\ file'[x.inode].data = x.bytes
<1>1. /\ FilesTypeOK /\ call[p] # None /\ CallFits(p)
      /\ x.path \in Paths /\ x.path \in {a, LockPath, b} /\ x.inode \in Inodes
      /\ Possible(x.path) = {x.inode} /\ file[x.inode].data = x.bytes
  <2>1. FilesTypeOK /\ CallFits(p) /\ call[p] # None
      BY Known DEF Effect
  <2> QED BY <2>1 DEF FilesInv, DiskInv, FilesTypeOK, PromisedPaths, PromisesKept
<1>2. At(x.path) = x.inode /\ x.inode # None
    BY <1>1, NamesTyped
<1>3. ~Binds(p, x.path) /\ ~Retires(p, x.path)
    BY <1>1, <1>2, Instances DEF Binds, Retires, CallFits, InStep
<1>4. Stays(x.path)
    BY <1>1, <1>3 DEF Effect
<1>5. ASSUME NEW n \in Paths, n = x.path PROVE Possible(n)' = {x.inode}
  <2>1. Stays(n) /\ Possible(n) = {x.inode}
      BY <1>1, <1>4, <1>5
  <2> QED BY <2>1, StaysOne
<1>6. file'[x.inode].data = file[x.inode].data
    BY <1>1, <1>2, DataStays
<1> QED BY <1>1, <1>5, <1>6

LEMMA NothingTornStays ==
    ASSUME FilesInv, NEW p \in Procs, Effect(p)
    PROVE  NothingTorn'
<1>1. /\ FilesTypeOK /\ call[p] # None /\ CallFits(p) /\ WroteAll(p) /\ call[p] \in Calls
      /\ Moves(p) /\ NothingTorn /\ SourceFound
    BY Known DEF Effect, FilesInv, DiskInv
<1> SUFFICES ASSUME NEW n \in Paths, NEW i \in Possible(n)', i # None
             PROVE  file'[i].synced /\ file'[i].data # Torn
    BY DEF NothingTorn
<1>2. CASE i \in Possible(n)
  <2>1. file[i].synced /\ file[i].data # Torn
      BY <1>1, <1>2 DEF NothingTorn
  <2> QED BY <1>2, <2>1, DataStays
<1>3. CASE i \notin Possible(n)
  <2>1. i = call[p].fd /\ InStep(p, {"link", "moving", "rename"})
      BY <1>3 DEF Effect, Stays, Binds, Retires, InStep
  <2>2. CASE InStep(p, {"link", "rename"})
    <3>1. file[i].synced /\ file[i].data = call[p].bytes /\ call[p].bytes # Torn
      <4>1. InStep(p, {"link", "settle", "rename", "rebind", "rebound"})
          BY <2>2 DEF InStep
      <4>2. file[call[p].fd].synced /\ file[call[p].fd].data = call[p].bytes
          BY <1>1, <4>1 DEF WroteAll
      <4>3. call[p].bytes # Torn
          BY <1>1, FilesAssumption DEF Calls, Torn
      <4> QED BY <2>1, <4>2, <4>3
    <3>2. i \in Inodes /\ i \notin Free
        BY <1>1, <2>1, NamesTyped DEF Calls
    <3>3. file'[i].synced /\ file'[i].data = file[i].data
        BY <1>1, <2>2, <3>1, <3>2 DEF Effect, InStep
    <3> QED BY <3>1, <3>3
  <2>3. CASE InStep(p, {"moving"})
    <3>1. i = 1 /\ part = "pointers" /\ (i \in Possible(s) \/ i \in Possible(b))
        BY <1>1, <2>1, <2>3 DEF Moves, InStep, CallFits, SourceFound
    <3>2. file[i].synced /\ file[i].data # Torn
        BY <1>1, <3>1, Instances DEF NothingTorn
    <3> QED BY <3>1, <3>2, DataStays, Instances
  <2> QED BY <2>1, <2>2, <2>3 DEF InStep
<1> QED BY <1>2, <1>3

LEMMA SourceStays ==
    ASSUME FilesInv, NEW p \in Procs, Effect(p), UNCHANGED part
    PROVE  SourceFound'
<1>1. /\ FilesTypeOK /\ call[p] # None /\ CallFits(p) /\ Moves(p) /\ SourceFound
      /\ b \in Paths /\ s \in Paths /\ 1 \in Inodes /\ 1 # None
    BY Known, Instances, NamesTyped DEF Effect, FilesInv, DiskInv
<1> SUFFICES ASSUME part = "pointers" PROVE SourceFound'
    BY DEF SourceFound
<1>2. file'[1].synced /\ file'[1].data = <<5>>
    BY <1>1, DataStays DEF SourceFound
<1>3. /\ Stays(s) \/ Retires(p, s)
      /\ Stays(b) \/ (Binds(p, b) /\ InStep(p, {"moving"}))
    BY <1>1, Instances DEF Effect, Binds, Retires, CallFits, InStep
<1>4. At(b) \in Possible(b) /\ At(s) \in Possible(s)
    BY <1>1, NamesTyped
<1>5. Possible(b) = {1} => Stays(b) /\ Possible(b)' = {1}
  <2> SUFFICES ASSUME Possible(b) = {1} PROVE Stays(b) /\ Possible(b)' = {1}
      OBVIOUS
  <2>1. At(b) # None
      BY <1>1, <1>4
  <2>2. Stays(b)
      BY <1>3, <2>1 DEF Binds, InStep
  <2> QED BY <2>2, StaysOne
<1>6. CASE Stays(s)
  <2>1. Possible(s)' \subseteq {1, None} /\ (Possible(s) = {1} => Possible(s)' = {1})
      BY <1>1, <1>6, StaysOne DEF SourceFound, Stays
  <2>2. Possible(b)' \subseteq {1, None}
      BY <1>1, <1>3 DEF SourceFound, Stays, Binds, Moves, InStep
  <2>3. At(s)' = None => Possible(b)' = {1}
      BY <1>1, <1>5, <1>6 DEF SourceFound, Stays
  <2> QED BY <1>1, <1>2, <1>5, <2>1, <2>2, <2>3 DEF SourceFound
<1>7. CASE Retires(p, s)
  <2>1. Possible(b) = {1}
      BY <1>1, <1>7 DEF Retires, Moves, InStep
  <2>2. Possible(s)' \subseteq {1, None}
      BY <1>1, <1>7 DEF SourceFound, Retires
  <2> QED BY <1>2, <1>5, <2>1, <2>2 DEF SourceFound
<1> QED BY <1>3, <1>6, <1>7

LEMMA NoLitterStays ==
    ASSUME FilesInv, NEW p \in Procs, Effect(p), UNCHANGED orphans, FilesTypeOK'
    PROVE  NoLitter'
<1>1. NoLitter /\ None \notin DOMAIN names'
    BY FilesAssumption DEF FilesInv, DiskInv, FilesTypeOK
<1> SUFFICES ASSUME NEW t \in DOMAIN names' \ Paths
             PROVE  t \in orphans \/ \E q \in Procs : call'[q] # None /\ call'[q].temp = t
    BY DEF NoLitter
<1>2. CASE t = call'[p].temp
    BY <1>2 DEF Effect
<1>3. CASE t \in DOMAIN names /\ t # call'[p].temp
  <2>1. t \in orphans \/ \E q \in Procs : call[q] # None /\ call[q].temp = t
      BY <1>1, <1>3 DEF NoLitter
  <2>2. ASSUME NEW q \in Procs, call[q] # None, call[q].temp = t
        PROVE  call'[q] # None /\ call'[q].temp = t
      BY <1>1, <1>3, <2>2 DEF Effect
  <2> QED BY <2>1, <2>2
<1> QED BY <1>2, <1>3 DEF Effect

LEMMA LogTyped ==
    ASSUME FilesTypeOK, NothingTorn
    PROVE  /\ Log \in Seq(Nat) /\ Log = DataOf(At(LedgerPath))
           /\ \A i \in Possible(LedgerPath) : DataOf(i) \in Seq(Nat)
<1>1. LedgerPath \in Paths /\ At(LedgerPath) \in Possible(LedgerPath)
      /\ Possible(LedgerPath) \subseteq Inodes \union {None}
    BY NamesTyped, Instances DEF LedgerAssumption
<1>2. ASSUME NEW i \in Possible(LedgerPath) PROVE DataOf(i) \in Seq(Nat)
  <2>1. CASE i = None
      BY <2>1 DEF DataOf
  <2>2. CASE i # None
    <3>1. file[i].data # Torn /\ file[i].data \in {Torn} \union Seq(Nat)
        BY <1>1, <2>2 DEF NothingTorn, FilesTypeOK
    <3> QED BY <2>2, <3>1 DEF DataOf
  <2> QED BY <2>1, <2>2
<1>3. Log = DataOf(At(LedgerPath))
    BY DEF Log, Reads, DataOf
<1> QED BY <1>1, <1>2, <1>3

Holds(d, required) == \A e \in required : \E k \in 1 .. Len(d) : d[k] = e

LEMMA BeginsLonger ==
    ASSUME NEW d \in Seq(Nat), NEW log \in Seq(Nat), NEW e \in Nat, Begins(d, log)
    PROVE  Begins(d, Append(log, e))
BY DEF Begins

LEMMA BeginsItself ==
    ASSUME NEW log \in Seq(Nat)
    PROVE  Begins(log, log)
BY DEF Begins

LEMMA HoldsLonger ==
    ASSUME NEW log \in Seq(Nat), NEW e \in Nat, NEW required, Holds(log, required)
    PROVE  Holds(Append(log, e), required)
<1> SUFFICES ASSUME NEW x \in required
             PROVE  \E k \in 1 .. Len(Append(log, e)) : Append(log, e)[k] = x
    BY DEF Holds
<1>1. PICK k \in 1 .. Len(log) : log[k] = x
    BY DEF Holds
<1>2. k \in 1 .. Len(Append(log, e)) /\ Append(log, e)[k] = x
    BY <1>1
<1> QED BY <1>2

LEMMA LogKeptStays ==
    ASSUME FilesInv, NEW p \in Procs, Effect(p), UNCHANGED <<part, lvars>>
    PROVE  LogKept'
<1>1. /\ FilesTypeOK /\ NothingTorn /\ call[p] # None /\ CallFits(p) /\ Appends(p)
      /\ TaskFits(p) /\ LogKept /\ WroteAll(p) /\ call[p] \in Calls
      /\ LedgerPath \in Paths /\ LedgerPath # s /\ LedgerTypeOK
    BY Known, Instances DEF Effect, FilesInv, DiskInv, LogInv, LedgerAssumption
<1>2. ASSUME NEW i \in Possible(LedgerPath) PROVE DataOf(i)' = DataOf(i)
    BY <1>1, <1>2, DataStays DEF DataOf
<1>3. CASE Stays(LedgerPath)
  <2>1. Log' = Log
    <3>1. \A i \in Inodes : i = At(LedgerPath) => file'[i].data = file[i].data
        BY <1>1, NamesTyped, DataStays
    <3> QED BY <1>1, <1>3, <3>1, LogStays
  <2>2. ASSUME NEW i \in Possible(LedgerPath)'
        PROVE  /\ Begins(DataOf(i)', Log')
               /\ \A e \in acknowledged : \E k \in 1 .. Len(DataOf(i)') : DataOf(i)'[k] = e
    <3>1. i \in Possible(LedgerPath)
        BY <1>3 DEF Stays
    <3> QED BY <1>1, <1>2, <2>1, <3>1 DEF LogKept
  <2> QED BY <2>2 DEF LogKept, Begins, lvars
<1>4. CASE Binds(p, LedgerPath)
  <2>1. /\ InStep(p, {"rename"}) /\ InAppend(p, "locked")
        /\ At(LedgerPath)' = call[p].fd
        /\ Possible(LedgerPath)' \subseteq Possible(LedgerPath) \union {call[p].fd}
      BY <1>1, <1>4, Instances DEF Binds, CallFits, TaskFits, InStep
  <2> DEFINE e == task[p].event
  <2>2. call[p].bytes = Append(Log, e) /\ e \in Nat
      BY <1>1, <2>1, Instances
         DEF Appends, InStep, LedgerTypeOK, InAppend, Tasks, LedgerAssumption
  <2>3. /\ file[call[p].fd].data = call[p].bytes
        /\ call[p].fd \in Inodes /\ call[p].fd \notin Free /\ call[p].fd # None
      BY <1>1, <2>1, NamesTyped DEF WroteAll, InStep, Calls, CallFits
  <2>4. DataOf(call[p].fd) = call[p].bytes /\ file'[call[p].fd].data = call[p].bytes
      BY <2>1, <2>3 DEF DataOf, Effect, InStep
  <2>5. Log' = Append(Log, e)
      BY <2>1, <2>2, <2>3, <2>4 DEF Log, Reads
  <2>6. Log \in Seq(Nat) /\ Holds(Log, acknowledged)
      BY <1>1, LogTyped, NamesTyped DEF LogKept, Holds
  <2> HIDE DEF e
  <2>7. ASSUME NEW i \in Possible(LedgerPath)'
        PROVE  Begins(DataOf(i)', Log') /\ Holds(DataOf(i)', acknowledged)
    <3>1. CASE i \in Possible(LedgerPath)
      <4>1. DataOf(i)' = DataOf(i) /\ DataOf(i) \in Seq(Nat)
          BY <1>1, <1>2, <3>1, LogTyped
      <4>2. Begins(DataOf(i), Log) /\ Holds(DataOf(i), acknowledged)
          BY <1>1, <3>1 DEF LogKept, Holds
      <4> QED BY <2>2, <2>5, <2>6, <4>1, <4>2, BeginsLonger
    <3>2. CASE i \notin Possible(LedgerPath)
      <4>1. i = call[p].fd
          BY <2>1, <3>2
      <4>2. DataOf(i)' = Append(Log, e)
          BY <2>2, <2>3, <2>4, <4>1 DEF DataOf
      <4>3. Append(Log, e) \in Seq(Nat)
          BY <2>2, <2>6
      <4> QED BY <2>2, <2>5, <2>6, <4>2, <4>3, BeginsItself, HoldsLonger
    <3> QED BY <3>1, <3>2
  <2> QED BY <2>7 DEF LogKept, Begins, Holds, lvars
<1>5. ~Retires(p, LedgerPath)
    BY <1>1 DEF Retires, CallFits, InStep
<1> QED BY <1>1, <1>3, <1>4, <1>5 DEF Effect

LEMMA TasksStay ==
    ASSUME FilesInv, NEW p \in Procs, Effect(p), UNCHANGED <<part, lvars>>, NEW q \in Procs
    PROVE  TaskFits(q)' /\ HoldsLock(q)'
<1>1. /\ call[p] # None /\ CallFits(p) /\ TaskFits(q) /\ HoldsLock(q)
      /\ LockPath \in Paths /\ LockPath # s
    BY Known, Instances DEF Effect, FilesInv, LogInv, LedgerAssumption
<1>2. TaskFits(q)'
    BY <1>1 DEF TaskFits, Effect, InAppend, lvars
<1>3. At(LockPath) # None => At(LockPath)' = At(LockPath)
    BY <1>1, Instances DEF Effect, Stays, Binds, Retires, CallFits, InStep
<1>4. HoldsLock(q)'
    BY <1>1, <1>3 DEF HoldsLock, InAppend, lvars
<1> QED BY <1>2, <1>4

LEMMA SystemCallDoes ==
    ASSUME FilesInv, NEW p \in Procs, SystemCall(p), UNCHANGED <<part, lvars>>
    PROVE  FilesTypeOK' /\ Effect(p) /\ CallInv(p)' /\ UNCHANGED orphans
<1>1. CASE CheckPresent(p)
    BY <1>1, CheckPresentDoes DEF CheckPresent
<1>2. CASE CreateTemporary(p)
    BY <1>2, CreateTemporaryDoes DEF CreateTemporary
<1>3. CASE WriteTemporary(p)
    BY <1>3, WriteTemporaryDoes DEF WriteTemporary
<1>4. CASE WriteFails(p)
    BY <1>4, GivingUp DEF WriteFails, Runs, InStep
<1>5. CASE LinkDestination(p)
    BY <1>5, LinkDestinationDoes DEF LinkDestination
<1>6. CASE SettleInstalled(p)
    BY <1>6, SettleInstalledDoes DEF SettleInstalled
<1>7. CASE SettleFails(p)
    BY <1>7, GivingUp DEF SettleFails, Runs, InStep
<1>8. CASE UnlinkTemporary(p)
    BY <1>8, UnlinkTemporaryDoes DEF UnlinkTemporary
<1>9. CASE VerifyContent(p)
    BY <1>9, VerifyContentDoes DEF VerifyContent
<1>10. CASE RenameOver(p)
    BY <1>10, RenameOverDoes DEF RenameOver
<1>11. CASE VerifyRenamed(p)
    BY <1>11, VerifyRenamedDoes DEF VerifyRenamed
<1>12. CASE SettleRenamed(p)
    BY <1>12, SettleRenamedDoes DEF SettleRenamed
<1>13. CASE RenamedFails(p)
    BY <1>13, RenamedFailsDoes DEF RenamedFails
<1>14. CASE OpenSource(p)
    BY <1>14, OpenSourceDoes DEF OpenSource
<1>15. CASE LinkMoved(p)
    BY <1>15, LinkMovedDoes DEF LinkMoved
<1>16. CASE SettleMoved(p)
    BY <1>16, SettleMovedDoes DEF SettleMoved
<1>17. CASE UnlinkSource(p)
    BY <1>17, UnlinkSourceDoes DEF UnlinkSource
<1>18. CASE SettleSource(p)
    BY <1>18, SettleSourceDoes DEF SettleSource
<1> QED
    BY <1>1, <1>2, <1>3, <1>4, <1>5, <1>6, <1>7, <1>8, <1>9, <1>10, <1>11, <1>12, <1>13,
       <1>14, <1>15, <1>16, <1>17, <1>18 DEF SystemCall

\* Only a content that was verified is promised.
LEMMA PromisesMade ==
    ASSUME FilesInv, NEW p \in Procs, SystemCall(p), UNCHANGED <<part, lvars>>,
           promised' # promised
    PROVE  LET x == [op |-> call[p].op, path |-> call[p].path, bytes |-> call[p].bytes,
                     inode |-> At(call[p].path)]
           IN  /\ promised' = promised \union {x}
               /\ call[p].path \in {a, LockPath, b} \intersect Paths
               /\ call[p].path = b => part = "pointers"
               /\ Possible(call[p].path) = {At(call[p].path)} /\ At(call[p].path) # None
               /\ file[At(call[p].path)].data = call[p].bytes
               /\ UNCHANGED disk
<1>1. VerifyContent(p)
    BY DEF SystemCall, CheckPresent, CreateTemporary, WriteTemporary, WriteFails,
       LinkDestination, SettleInstalled, SettleFails, UnlinkTemporary, RenameOver,
       VerifyRenamed, SettleRenamed, RenamedFails, OpenSource, LinkMoved, SettleMoved,
       UnlinkSource, SettleSource
<1>2. /\ call[p] # None /\ call[p].step = "verify" /\ Reads(call[p].path) = call[p].bytes
      /\ call[p].installed /\ Told(p) /\ UNCHANGED disk
    BY <1>1 DEF VerifyContent, Error, Runs
<1>3. /\ FilesTypeOK /\ CallFits(p) /\ Installed(p) /\ Moves(p) /\ call[p] \in Calls
      /\ call[p].path \in Paths /\ call[p].op # "replace"
    BY <1>2, Known DEF CallFits, InStep
<1>4. At(call[p].path) # None /\ file[At(call[p].path)].data = call[p].bytes
    BY <1>2, <1>3, FilesAssumption DEF Reads, Calls
<1>5. CASE call[p].op # "move"
  <2>1. Settled(call[p].path) /\ call[p].path \in {a, LockPath} /\ call[p].path # b
      BY <1>2, <1>3, <1>5, Instances DEF Installed, CallFits, InStep, Calls
  <2> QED BY <1>2, <1>3, <1>4, <2>1 DEF Told, Settled
<1>6. CASE call[p].op = "move"
  <2>1. call[p].path = b /\ part = "pointers" /\ Possible(b) = {1}
      BY <1>2, <1>3, <1>6 DEF CallFits, Moves, InStep
  <2>2. At(b) = 1
      BY <1>3, <2>1, NamesTyped
  <2> QED BY <1>2, <1>3, <1>4, <2>1, <2>2 DEF Told
<1> QED BY <1>5, <1>6

LEMMA SystemCallKeeps ==
    ASSUME FilesInv, NEW p \in Procs, SystemCall(p), UNCHANGED <<part, lvars>>
    PROVE  FilesInv'
<1>1. FilesTypeOK' /\ Effect(p) /\ CallInv(p)' /\ UNCHANGED orphans
    BY SystemCallDoes
<1>2. \A q \in Procs : CallInv(q)'
  <2>1. \A q \in Procs \ {p} : CallInv(q)'
      BY <1>1, OthersKeep DEF CallInv
  <2> QED BY <1>1, <2>1
<1>3. LedgerTypeOK'
    BY <1>1 DEF FilesInv, DiskInv, LedgerTypeOK, lvars
<1>4. SourceFound' /\ NoLitter' /\ NothingTorn' /\ LogKept'
    BY <1>1, SourceStays, NoLitterStays, NothingTornStays, LogKeptStays
<1>5. \A q \in Procs : TaskFits(q)' /\ HoldsLock(q)'
    BY <1>1, TasksStay
<1>6. PromisedPaths' /\ PromisesKept'
  <2>1. \A x \in promised : Possible(x.path)' = {x.inode} /\ file'[x.inode].data = x.bytes
      BY <1>1, PromisesStay
  <2>2. PromisedPaths /\ PromisesKept
      BY DEF FilesInv, DiskInv
  <2>3. CASE promised' = promised
      BY <2>1, <2>2, <2>3 DEF PromisedPaths, PromisesKept
  <2>4. CASE promised' # promised
    <3> DEFINE n == call[p].path
               x == [op |-> call[p].op, path |-> n, bytes |-> call[p].bytes, inode |-> At(n)]
    <3>1. /\ promised' = promised \union {x}
          /\ n \in {a, LockPath, b} \intersect Paths /\ (n = b => part = "pointers")
          /\ Possible(n) = {At(n)} /\ At(n) # None /\ file[At(n)].data = call[p].bytes
          /\ UNCHANGED disk
        BY <2>4, PromisesMade
    <3>2. PromisedPaths'
        BY <2>2, <3>1 DEF PromisedPaths
    <3>3. ASSUME NEW y \in promised'
          PROVE  Possible(y.path)' = {y.inode} /\ file'[y.inode].data = y.bytes
      <4>1. ASSUME NEW m, UNCHANGED disk PROVE Possible(m)' = Possible(m)
          BY <4>1 DEF disk, Possible, At
      <4>2. CASE y \in promised
          BY <2>1, <4>2
      <4>3. CASE y = x
        <5>1. y.path = n /\ y.inode = At(n) /\ y.bytes = call[p].bytes
            BY <4>3
        <5>2. Possible(y.path) = {y.inode} /\ file[y.inode].data = y.bytes
            BY <3>1, <5>1
        <5> QED BY <3>1, <4>1, <5>2 DEF disk
      <4> QED BY <3>1, <4>2, <4>3
    <3> QED BY <3>2, <3>3 DEF PromisesKept
  <2> QED BY <2>3, <2>4
<1> QED BY <1>2, <1>3, <1>4, <1>5, <1>6 DEF FilesInv, DiskInv, LogInv

-----------------------------------------------------------------------------
(* Calls that start and end, and the tasks they belong to. *)

Starts(q) ==
    /\ call'[q] # None /\ call'[q].step \in {"check", "stage", "source"}
    /\ call'[q].temp = None /\ call'[q].fd = None /\ ~call'[q].installed
    /\ CallFits(q)'

LEMMA DiskSame ==
    ASSUME UNCHANGED disk
    PROVE  /\ \A n : Stays(n) /\ Possible(n)' = Possible(n)
           /\ Log' = Log /\ file' = file /\ names' = names
BY DEF disk, Stays, Possible, At, Log, Reads

LEMMA CallsChange ==
    ASSUME FilesInv, UNCHANGED <<disk, promised, part>>, LedgerTypeOK',
           \A q \in Procs : call'[q] = call[q] \/ call'[q] = None \/ Starts(q),
           orphans \subseteq orphans',
           \A q \in Procs : call'[q] # call[q] /\ call[q] # None =>
               call[q].temp \in orphans' \/ call[q].temp \notin DOMAIN names,
           \A q \in Procs : Appends(q)'
    PROVE  DiskInv'
<1>1. /\ FilesTypeOK /\ PromisedPaths /\ SourceFound /\ NothingTorn /\ PromisesKept
      /\ NoLitter /\ \A q \in Procs : CallInv(q)
    BY DEF FilesInv, DiskInv, LedgerTypeOK
<1>2. /\ \A n : At(n)' = At(n) /\ Possible(n)' = Possible(n)
      /\ file' = file /\ names' = names
    BY DiskSame DEF Stays
<1>3. ASSUME NEW q \in Procs PROVE CallInv(q)'
  <2>1. CallFits(q)'
      BY <1>1 DEF Starts, CallInv, CallFits, InStep
  <2>2. WritesAlone(q)'
    <3> SUFFICES ASSUME InStep(q, {"write"})' PROVE WritesAlone(q)'
        BY DEF WritesAlone
    <3>1. call'[q] = call[q] /\ InStep(q, {"write"}) /\ call[q].fd # None
        BY <1>1 DEF InStep, Starts, CallInv, CallFits
    <3>2. ASSUME NEW r \in Procs \ {q}, call'[r] # None PROVE call'[r].fd # call[q].fd
        BY <1>1, <3>1, <3>2 DEF Starts, CallInv, WritesAlone
    <3>3. \A n \in Paths : call[q].fd \notin Possible(n)'
        BY <1>1, <1>2, <3>1 DEF CallInv, WritesAlone
    <3> QED BY <3>1, <3>2, <3>3 DEF WritesAlone
  <2>3. WroteAll(q)'
      BY <1>1, <1>2 DEF Starts, CallInv, WroteAll, InStep
  <2>4. Installed(q)'
    <3> SUFFICES ASSUME call'[q] # None, call'[q].installed, call'[q].op # "move",
                        NEW n \in Paths, n = call'[q].path
                 PROVE  /\ InStep(q, {"settle", "unlink", "verify"})' => At(n)' # None
                        /\ InStep(q, {"unlink", "verify"})' => Settled(n)'
        BY DEF Installed
    <3>1. call'[q] = call[q] /\ Installed(q)
        BY <1>1 DEF Starts, CallInv
    <3> QED BY <1>2, <3>1 DEF Installed, InStep, Settled
  <2>5. TempGone(q)'
      BY <1>1, <1>2 DEF Starts, CallInv, TempGone, InStep
  <2>6. Moves(q)'
    <3>1. At(b)' = At(b) /\ Possible(b)' = Possible(b)
        BY <1>2
    <3> QED BY <1>1, <3>1 DEF Starts, CallInv, Moves, InStep
  <2> QED BY <2>1, <2>2, <2>3, <2>4, <2>5, <2>6 DEF CallInv
<1>4. PromisedPaths' /\ NothingTorn'
    BY <1>1, <1>2 DEF PromisedPaths, NothingTorn
<1>5. SourceFound'
  <2>1. /\ At(b)' = At(b) /\ Possible(b)' = Possible(b)
        /\ At(s)' = At(s) /\ Possible(s)' = Possible(s)
      BY <1>2
  <2> QED BY <1>1, <1>2, <2>1 DEF SourceFound
<1>6. PromisesKept'
  <2> SUFFICES ASSUME NEW x \in promised
               PROVE  Possible(x.path)' = {x.inode} /\ file[x.inode].data = x.bytes
      BY <1>2 DEF PromisesKept
  <2>1. Possible(x.path) = {x.inode} /\ file[x.inode].data = x.bytes
      BY <1>1 DEF PromisesKept
  <2>2. ASSUME NEW n, n = x.path PROVE Possible(n)' = Possible(n)
      BY <1>2
  <2> QED BY <2>1, <2>2
<1>7. NoLitter'
    BY <1>1, <1>2 DEF NoLitter
<1> QED BY <1>3, <1>4, <1>5, <1>6, <1>7 DEF DiskInv

LEMMA LogSame ==
    ASSUME FilesInv, UNCHANGED <<disk, acknowledged>>
    PROVE  LogKept'
<1>1. /\ Possible(LedgerPath)' = Possible(LedgerPath) /\ Log' = Log
      /\ \A i : DataOf(i)' = DataOf(i)
    BY DiskSame DEF DataOf
<1> QED BY <1>1 DEF FilesInv, LogInv, LogKept, Begins

LEMMA CallTyped ==
    ASSUME NEW op \in {"ensure", "create", "replace", "move"}, NEW path \in Paths,
           NEW from \in Paths \union {None}, NEW bytes \in Seq(Nat), NEW step \in AllSteps
    PROVE  Operation(op, path, from, bytes, step) \in Calls
BY DEF Operation, Calls, AllSteps

\* The process that changes its task, and what everyone else keeps.
LEMMA TaskChanges ==
    ASSUME FilesInv, part = "ledger", UNCHANGED <<disk, promised, part>>, LedgerTypeOK',
           NEW p \in Procs,
           \A q \in Procs \ {p} :
               call'[q] = call[q] /\ task'[q] = task[q]
                   /\ (InAppend(q, "locked") =>
                           flocked'[task[q].lock] = flocked[task[q].lock]),
           call'[p] = call[p] \/ call'[p] = None \/ Starts(p),
           begun \subseteq begun', orphans \subseteq orphans',
           call'[p] # call[p] /\ call[p] # None =>
               call[p].temp \in orphans' \/ call[p].temp \notin DOMAIN names,
           Appends(p)', TaskFits(p)', HoldsLock(p)', LogKept'
    PROVE  FilesInv'
<1>1. \A q \in Procs : CallInv(q) /\ TaskFits(q) /\ HoldsLock(q)
    BY DEF FilesInv, DiskInv, LogInv
<1>2. At(LockPath)' = At(LockPath) /\ Log' = Log /\ (Settled(LedgerPath) => Settled(LedgerPath)')
    BY DiskSame, StaysSettled DEF Stays
<1>3. ASSUME NEW q \in Procs \ {p} PROVE Appends(q)' /\ TaskFits(q)' /\ HoldsLock(q)'
  <2>1. Appends(q)'
      BY <1>1, <1>2, <1>3 DEF CallInv, Appends, InStep, InAppend
  <2>2. TaskFits(q)'
      BY <1>1, <1>3 DEF TaskFits, InAppend
  <2>3. HoldsLock(q)'
      BY <1>1, <1>2, <1>3 DEF HoldsLock, InAppend
  <2> QED BY <2>1, <2>2, <2>3
<1>4. \A q \in Procs : Appends(q)' /\ TaskFits(q)' /\ HoldsLock(q)'
    BY <1>3
<1>5. DiskInv'
  <2>1. \A q \in Procs : call'[q] = call[q] \/ call'[q] = None \/ Starts(q)
      OBVIOUS
  <2>2. \A q \in Procs : call'[q] # call[q] /\ call[q] # None =>
               call[q].temp \in orphans' \/ call[q].temp \notin DOMAIN names
      OBVIOUS
  <2> QED BY <1>4, <2>1, <2>2, CallsChange
<1> QED BY <1>4, <1>5 DEF FilesInv, LogInv

\* The temporary names the dead leave behind.
LEMMA LitterTyped ==
    ASSUME FilesTypeOK, NEW ps \in SUBSET Procs
    PROVE  /\ Litter(ps) \subseteq Temps
           /\ \A p \in ps : call[p] # None =>
                  call[p].temp \in Litter(ps) \/ call[p].temp \notin DOMAIN names
<1>1. \A p \in Procs : call[p] # None => call[p].temp \in Temps \union {None}
    BY DEF FilesTypeOK, Calls
<1>2. None \notin DOMAIN names
    BY FilesAssumption DEF FilesTypeOK
<1> QED BY <1>1, <1>2 DEF Litter

\* What every action of an append starts from.
LEMMA AppendKnown ==
    ASSUME FilesInv, NEW p \in Procs
    PROVE  /\ LedgerTypeOK /\ FilesTypeOK /\ CallInv(p) /\ TaskFits(p) /\ HoldsLock(p)
           /\ LogKept /\ Log \in Seq(Nat)
           /\ task \in [Procs -> {None} \union Tasks] /\ None \notin Tasks
           /\ call \in [Procs -> {None} \union Calls] /\ None \notin Calls
           /\ flocked \in [Inodes -> Procs \union {None}] /\ None \notin Procs
           /\ task[p] # None => task[p] \in Tasks /\ part = "ledger"
           /\ call[p] # None => call[p] \in Calls
           /\ Returned(p) => call[p].temp \notin DOMAIN names
<1>1. /\ LedgerTypeOK /\ FilesTypeOK /\ CallInv(p) /\ TaskFits(p) /\ HoldsLock(p) /\ LogKept
      /\ NothingTorn
    BY DEF FilesInv, DiskInv, LogInv, LedgerTypeOK
<1>2. Log \in Seq(Nat)
    BY <1>1, LogTyped
<1>3. None \notin Tasks /\ None \notin Calls /\ None \notin Procs
    BY Instances, FilesAssumption DEF LedgerAssumption
<1> QED BY <1>1, <1>2, <1>3
        DEF LedgerTypeOK, FilesTypeOK, TaskFits, CallInv, TempGone, InStep, Returned

LEMMA BeginAppendKeeps ==
    ASSUME FilesInv, part = "ledger", NEW p \in Procs, NEW e \in Events, BeginAppend(p, e),
           UNCHANGED part
    PROVE  FilesInv'
<1> DEFINE c == Ensure(LockPath, <<>>)
           t == [phase |-> "ensure", event |-> e, lock |-> None]
<1>1. /\ task[p] = None /\ call[p] = None
      /\ call' = [call EXCEPT ![p] = c] /\ task' = [task EXCEPT ![p] = t]
      /\ UNCHANGED <<disk, seq, bounds, promised, orphans, flocked, acknowledged>>
      /\ begun' = begun \union {e}
    BY DEF BeginAppend
<1>2. c \in Calls /\ t \in Tasks
  <2>1. c \in Calls
    <3>1. /\ <<>> \in Seq(Nat) /\ LockPath \in Paths /\ "check" \in AllSteps
          /\ "ensure" \in {"ensure", "create", "replace", "move"}
        BY Instances DEF AllSteps, LedgerAssumption
    <3> QED BY <3>1, CallTyped DEF Ensure
  <2> QED BY <2>1 DEF Tasks
<1>3. /\ call'[p] = c /\ task'[p] = t
      /\ \A q \in Procs \ {p} : call'[q] = call[q] /\ task'[q] = task[q]
      /\ call' \in [Procs -> {None} \union Calls] /\ task' \in [Procs -> {None} \union Tasks]
      /\ c # None /\ t # None
    BY <1>1, <1>2, AppendKnown
<1>4. /\ c.op = "ensure" /\ c.path = LockPath /\ c.from = None /\ c.step = "check"
      /\ c.temp = None /\ c.fd = None /\ c.installed = FALSE
      /\ t.phase = "ensure" /\ t.event = e
    BY DEF Ensure, Operation
<1> HIDE DEF c, t
<1>5. LedgerTypeOK'
    BY <1>1, <1>3, AppendKnown DEF LedgerTypeOK, FilesTypeOK, disk, bounds
<1>6. Starts(p)
  <2>1. CallFits(p)'
      BY <1>3, <1>4 DEF CallFits, InStep
  <2> QED BY <1>3, <1>4, <2>1 DEF Starts
<1>7. Appends(p)' /\ HoldsLock(p)'
    BY <1>3, <1>4 DEF Appends, HoldsLock, InAppend
<1>8. TaskFits(p)'
    BY <1>1, <1>3, <1>4, Instances DEF TaskFits, InAppend, LedgerAssumption
<1>9. LogKept'
    BY <1>1, LogSame
<1> QED BY <1>1, <1>3, <1>5, <1>6, <1>7, <1>8, <1>9, TaskChanges

\* An append that ends, or that its process leaves.
LEMMA AppendEnds ==
    ASSUME FilesInv, NEW p \in Procs, task[p] # None, UNCHANGED <<disk, promised, part, begun>>,
           call'[p] = None, task'[p] = None,
           \A q \in Procs \ {p} : call'[q] = call[q] /\ task'[q] = task[q],
           \A i \in Inodes : flocked'[i] = flocked[i] \/ flocked[i] = p,
           LedgerTypeOK', LogKept',
           orphans \subseteq orphans',
           call[p] # None => call[p].temp \in orphans' \/ call[p].temp \notin DOMAIN names
    PROVE  FilesInv'
<1>1. part = "ledger"
    BY AppendKnown
<1>2. Appends(p)' /\ TaskFits(p)' /\ HoldsLock(p)'
    BY DEF Appends, TaskFits, HoldsLock, InAppend
<1>3. ASSUME NEW q \in Procs \ {p}, InAppend(q, "locked")
      PROVE  flocked'[task[q].lock] = flocked[task[q].lock]
  <2>1. HoldsLock(q) /\ FilesTypeOK
      BY AppendKnown
  <2>2. flocked[task[q].lock] = q /\ task[q].lock \in Inodes
      BY <1>3, <2>1, NamesTyped DEF HoldsLock
  <2> QED BY <1>3, <2>2
<1>4. FilesInv'
  <2>1. \A q \in Procs \ {p} :
               call'[q] = call[q] /\ task'[q] = task[q]
                   /\ (InAppend(q, "locked") =>
                           flocked'[task[q].lock] = flocked[task[q].lock])
      BY <1>3
  <2>2. call'[p] = call[p] \/ call'[p] = None \/ Starts(p)
      OBVIOUS
  <2> QED BY <1>1, <1>2, <2>1, <2>2, TaskChanges
<1> QED BY <1>4

LEMMA OpenLockKeeps ==
    ASSUME FilesInv, NEW p \in Procs, OpenLock(p), UNCHANGED part
    PROVE  FilesInv'
<1> DEFINE t == IF At(LockPath) = None THEN None
                ELSE [task[p] EXCEPT !.phase = "lock", !.lock = At(LockPath)]
<1>1. /\ InAppend(p, "ensure") /\ task[p] # None /\ Returned(p)
      /\ call' = [call EXCEPT ![p] = None] /\ task' = [task EXCEPT ![p] = t]
      /\ UNCHANGED <<disk, seq, bounds, promised, orphans, flocked, begun, acknowledged>>
    BY DEF OpenLock, InAppend, Runs, Returned
<1>2. At(LockPath) \in Inodes \union {None} /\ At(LockPath)' = At(LockPath)
    BY <1>1, AppendKnown, NamesTyped, DiskSame DEF Stays
<1>3. t \in Tasks \union {None} /\ (t # None => t.phase = "lock" /\ t.lock = At(LockPath)
                                                  /\ t.event = task[p].event
                                                  /\ At(LockPath) # None)
    BY <1>1, <1>2, AppendKnown DEF Tasks
<1>4. /\ call'[p] = None /\ task'[p] = t
      /\ \A q \in Procs \ {p} : call'[q] = call[q] /\ task'[q] = task[q]
      /\ call' \in [Procs -> {None} \union Calls] /\ task' \in [Procs -> {None} \union Tasks]
  <2> HIDE DEF t
  <2> QED BY <1>1, <1>3, AppendKnown
<1> HIDE DEF t
<1>5. LedgerTypeOK'
    BY <1>1, <1>4, AppendKnown DEF LedgerTypeOK, FilesTypeOK, disk, bounds
<1>6. Appends(p)' /\ TaskFits(p)' /\ HoldsLock(p)' /\ part = "ledger"
    BY <1>1, <1>2, <1>3, <1>4, AppendKnown DEF Appends, TaskFits, HoldsLock, InAppend
<1>7. LogKept'
    BY <1>1, LogSame
<1>8. call[p].temp \notin DOMAIN names
    BY <1>1, AppendKnown
<1> QED BY <1>1, <1>4, <1>5, <1>6, <1>7, <1>8, TaskChanges

LEMMA LockFailsKeeps ==
    ASSUME FilesInv, NEW p \in Procs, LockFails(p), UNCHANGED part
    PROVE  FilesInv'
<1>1. /\ task[p] # None /\ Returned(p)
      /\ call' = [call EXCEPT ![p] = None] /\ task' = [task EXCEPT ![p] = None]
      /\ UNCHANGED <<disk, seq, bounds, promised, orphans, flocked, begun, acknowledged>>
    BY DEF LockFails, InAppend, Runs, Returned
<1>2. /\ call'[p] = None /\ task'[p] = None
      /\ \A q \in Procs \ {p} : call'[q] = call[q] /\ task'[q] = task[q]
      /\ call' \in [Procs -> {None} \union Calls] /\ task' \in [Procs -> {None} \union Tasks]
    BY <1>1, AppendKnown
<1>3. LedgerTypeOK'
    BY <1>1, <1>2, AppendKnown DEF LedgerTypeOK, FilesTypeOK, disk, bounds
<1>4. LogKept' /\ call[p].temp \notin DOMAIN names
    BY <1>1, LogSame, AppendKnown
<1> QED BY <1>1, <1>2, <1>3, <1>4, AppendEnds

LEMMA FlockKeeps ==
    ASSUME FilesInv, NEW p \in Procs, Flock(p), UNCHANGED part
    PROVE  FilesInv'
<1>1. /\ InAppend(p, "lock") /\ task[p] # None /\ flocked[task[p].lock] = None
      /\ flocked' = [flocked EXCEPT ![task[p].lock] = p]
      /\ task' = [task EXCEPT ![p].phase = "locked"]
      /\ UNCHANGED <<disk, call, seq, bounds, promised, orphans, begun, acknowledged>>
    BY DEF Flock, InAppend, fvars
<1>2. /\ task[p].lock = At(LockPath) /\ At(LockPath) # None /\ task[p].lock \in Inodes
      /\ At(LockPath)' = At(LockPath) /\ call[p] = None /\ part = "ledger"
    BY <1>1, AppendKnown, NamesTyped, DiskSame DEF Stays, HoldsLock, TaskFits
<1>3. /\ task'[p].event = task[p].event
      /\ task' \in [Procs -> {None} \union Tasks] /\ task'[p] \in Tasks /\ task'[p] # None
      /\ task'[p].phase = "locked" /\ task'[p].lock = task[p].lock
      /\ \A q \in Procs \ {p} : task'[q] = task[q]
  <2> DEFINE t == [task[p] EXCEPT !.phase = "locked"]
  <2>1. t \in Tasks /\ t.phase = "locked" /\ t.lock = task[p].lock /\ t.event = task[p].event
      BY SMTT(30), <1>1, AppendKnown DEF Tasks
  <2>2. task' = [task EXCEPT ![p] = t]
      BY <1>1
  <2> HIDE DEF t
  <2> QED BY <2>1, <2>2, AppendKnown
<1>4. /\ flocked' \in [Inodes -> Procs \union {None}] /\ flocked'[task[p].lock] = p
      /\ \A i \in Inodes \ {task[p].lock} : flocked'[i] = flocked[i]
    BY <1>1, <1>2, AppendKnown
<1>5. LedgerTypeOK'
    BY <1>1, <1>3, <1>4, AppendKnown DEF LedgerTypeOK, FilesTypeOK, disk, bounds
<1>6. Appends(p)' /\ TaskFits(p)' /\ HoldsLock(p)'
    BY <1>1, <1>2, <1>3, <1>4, AppendKnown DEF Appends, TaskFits, HoldsLock, InAppend
<1>7. LogKept'
    BY <1>1, LogSame
<1>8. ASSUME NEW q \in Procs \ {p}, InAppend(q, "locked")
      PROVE  flocked'[task[q].lock] = flocked[task[q].lock]
  <2>1. flocked[task[q].lock] = q /\ task[q].lock \in Inodes /\ q # None
      BY <1>8, AppendKnown, NamesTyped DEF HoldsLock
  <2> QED BY <1>1, <1>4, <2>1
<1>9. \A q \in Procs \ {p} :
               call'[q] = call[q] /\ task'[q] = task[q]
                   /\ (InAppend(q, "locked") =>
                           flocked'[task[q].lock] = flocked[task[q].lock])
    BY <1>1, <1>3, <1>8
<1> QED BY <1>1, <1>2, <1>5, <1>6, <1>7, <1>9, TaskChanges

LEMMA UnlockedTyped ==
    ASSUME FilesInv, NEW p \in Procs, flocked' = Unlocked(p)
    PROVE  /\ flocked' \in [Inodes -> Procs \union {None}]
           /\ \A i \in Inodes : flocked'[i] = flocked[i] \/ flocked[i] = p
BY AppendKnown DEF Unlocked

LEMMA ReadAndReplaceKeeps ==
    ASSUME FilesInv, NEW p \in Procs, ReadAndReplace(p), UNCHANGED part
    PROVE  FilesInv'
<1>1. /\ InAppend(p, "locked") /\ task[p] # None /\ call[p] = None
      /\ UNCHANGED <<disk, seq, bounds, promised, orphans, begun, acknowledged>>
    BY DEF ReadAndReplace, InAppend
<1>2. LogKept' /\ part = "ledger"
    BY <1>1, LogSame, AppendKnown
<1>3. CASE Len(Log) >= MaxEvents
  <2>1. /\ flocked' = Unlocked(p) /\ task' = [task EXCEPT ![p] = None] /\ UNCHANGED call
      BY <1>3 DEF ReadAndReplace
  <2>2. /\ task'[p] = None /\ \A q \in Procs \ {p} : task'[q] = task[q]
        /\ task' \in [Procs -> {None} \union Tasks]
      BY <2>1, AppendKnown
  <2>3. LedgerTypeOK'
      BY <1>1, <2>1, <2>2, UnlockedTyped, AppendKnown DEF LedgerTypeOK, FilesTypeOK, disk, bounds
  <2> QED BY <1>1, <1>2, <2>1, <2>2, <2>3, UnlockedTyped, AppendEnds
<1>4. CASE ~(Len(Log) >= MaxEvents)
  <2> DEFINE bytes == Append(Log, task[p].event)
             c == Replace(LedgerPath, bytes)
  <2>1. call' = [call EXCEPT ![p] = c] /\ UNCHANGED <<flocked, task>>
      BY <1>4 DEF ReadAndReplace
  <2>2. bytes \in Seq(Nat) /\ Len(bytes) = Len(Log) + 1 /\ bytes[Len(bytes)] = task[p].event
        /\ Len(bytes) > 0
    <3>1. task[p].event \in Nat /\ Log \in Seq(Nat)
        BY <1>1, AppendKnown, Instances DEF Tasks, LedgerAssumption
    <3> QED BY <3>1
  <2>3. c \in Calls
      BY <2>2, CallTyped, Instances DEF Replace, AllSteps, LedgerAssumption
  <2>4. /\ c.op = "replace" /\ c.path = LedgerPath /\ c.from = None /\ c.step = "stage"
        /\ c.temp = None /\ c.fd = None /\ c.installed = FALSE /\ c.bytes = bytes
      BY DEF Replace, Operation
  <2> HIDE DEF c
  <2>5. /\ call'[p] = c /\ \A q \in Procs \ {p} : call'[q] = call[q]
        /\ call' \in [Procs -> {None} \union Calls] /\ c # None
      BY <2>1, <2>3, AppendKnown
  <2>6. LedgerTypeOK'
      BY <1>1, <2>1, <2>5, AppendKnown DEF LedgerTypeOK, FilesTypeOK, disk, bounds
  <2>7. Starts(p)
    <3>1. CallFits(p)'
        BY <2>4, <2>5 DEF CallFits, InStep
    <3> QED BY <2>4, <2>5, <3>1 DEF Starts
  <2>8. Log' = Log /\ At(LockPath)' = At(LockPath)
      BY <1>1, DiskSame DEF Stays
  <2>9. Appends(p)'
    <3>1. bytes # <<>>
        BY <2>2
    <3> QED BY <1>1, <2>1, <2>2, <2>4, <2>5, <2>8, <3>1 DEF Appends, InAppend, InStep
  <2>10. TaskFits(p)' /\ HoldsLock(p)'
      BY <1>1, <1>2, <2>1, <2>4, <2>5, <2>8, AppendKnown DEF TaskFits, HoldsLock, InAppend
  <2> HIDE DEF bytes
  <2> QED BY <1>1, <1>2, <2>1, <2>5, <2>6, <2>7, <2>9, <2>10, TaskChanges
<1> QED BY <1>3, <1>4

\* What was acknowledged is in every log that is possible.
LEMMA CompareAndReleaseKeeps ==
    ASSUME FilesInv, NEW p \in Procs, CompareAndRelease(p), UNCHANGED part
    PROVE  FilesInv'
<1>1. /\ InAppend(p, "locked") /\ task[p] # None /\ Returned(p) /\ call[p] # None
      /\ call' = [call EXCEPT ![p] = None] /\ task' = [task EXCEPT ![p] = None]
      /\ flocked' = Unlocked(p)
      /\ acknowledged' = IF Runs(p, "ok") /\ Log = call[p].bytes
                         THEN acknowledged \union {task[p].event} ELSE acknowledged
      /\ UNCHANGED <<disk, seq, bounds, promised, orphans, begun>>
    BY DEF CompareAndRelease, InAppend, Returned
<1>2. /\ call'[p] = None /\ task'[p] = None
      /\ \A q \in Procs \ {p} : call'[q] = call[q] /\ task'[q] = task[q]
      /\ call' \in [Procs -> {None} \union Calls] /\ task' \in [Procs -> {None} \union Tasks]
    BY <1>1, AppendKnown
<1>3. call[p].temp \notin DOMAIN names
    BY <1>1, AppendKnown
<1>4. LogKept'
  <2>1. Log' = Log /\ Possible(LedgerPath)' = Possible(LedgerPath)
        /\ \A i : DataOf(i)' = DataOf(i)
      BY <1>1, DiskSame DEF DataOf
  <2>2. CASE acknowledged' = acknowledged
      BY <1>1, <2>2, LogSame
  <2>3. CASE acknowledged' # acknowledged
    <3>1. Runs(p, "ok") /\ Log = call[p].bytes
          /\ acknowledged' = acknowledged \union {task[p].event}
        BY <1>1, <2>3
    <3>2. Possible(LedgerPath) = {At(LedgerPath)} /\ Log # <<>> /\ Log[Len(Log)] = task[p].event
        BY <1>1, <3>1, AppendKnown DEF CallInv, Appends, Runs, InStep, Settled
    <3>3. DataOf(At(LedgerPath)) = Log /\ Log \in Seq(Nat) /\ Len(Log) \in 1 .. Len(Log)
        BY <3>2, AppendKnown, LogTyped DEF FilesInv, DiskInv
    <3>4. LogKept
        BY AppendKnown
    <3> QED BY <2>1, <3>1, <3>2, <3>3, <3>4 DEF LogKept, Begins
  <2> QED BY <2>2, <2>3
<1>5. LedgerTypeOK'
  <2>1. acknowledged' \subseteq begun /\ begun \subseteq Events
      BY <1>1, AppendKnown DEF LedgerTypeOK, TaskFits
  <2> QED BY <1>1, <1>2, <2>1, UnlockedTyped, AppendKnown
          DEF LedgerTypeOK, FilesTypeOK, disk, bounds
<1> QED BY <1>1, <1>2, <1>3, <1>4, <1>5, UnlockedTyped, AppendEnds

LEMMA DieInAppendKeeps ==
    ASSUME FilesInv, NEW p \in Procs, DieInAppend(p), UNCHANGED part
    PROVE  FilesInv'
<1>1. /\ task[p] # None /\ task' = [task EXCEPT ![p] = None] /\ flocked' = Unlocked(p)
      /\ UNCHANGED <<begun, acknowledged, disk, outages, failures, promised>>
      /\ deaths < MaxDeaths /\ deaths' = deaths + 1 /\ seq' = [seq EXCEPT ![p] = 0]
      /\ \/ call[p] # None /\ call' = [call EXCEPT ![p] = None]
             /\ orphans' = orphans \union Litter({p})
         \/ call[p] = None /\ call' = call /\ orphans' = orphans
    BY DEF DieInAppend, Die
<1>2. /\ call'[p] = None /\ task'[p] = None
      /\ \A q \in Procs \ {p} : call'[q] = call[q] /\ task'[q] = task[q]
      /\ call' \in [Procs -> {None} \union Calls] /\ task' \in [Procs -> {None} \union Tasks]
    BY <1>1, AppendKnown
<1>3. LogKept'
    BY <1>1, LogSame
<1>4. /\ orphans \subseteq orphans' /\ orphans' \subseteq Temps
      /\ call[p] # None => call[p].temp \in orphans' \/ call[p].temp \notin DOMAIN names
  <2>1. {p} \in SUBSET Procs /\ FilesTypeOK
      BY AppendKnown
  <2>2. orphans \subseteq Temps
      BY <2>1 DEF FilesTypeOK
  <2> QED BY <1>1, <2>1, <2>2, LitterTyped
<1>5. LedgerTypeOK'
  <2>1. deaths' \in 0 .. MaxDeaths
      BY <1>1, AppendKnown, FilesAssumption DEF FilesTypeOK
  <2>2. seq' \in [Procs -> 0 .. MaxSeq + 1]
      BY <1>1, AppendKnown, FilesAssumption DEF FilesTypeOK
  <2> QED BY <1>1, <1>2, <1>4, <2>1, <2>2, UnlockedTyped, AppendKnown
          DEF LedgerTypeOK, FilesTypeOK, disk
<1> QED BY <1>1, <1>2, <1>3, <1>4, <1>5, UnlockedTyped, AppendEnds

-----------------------------------------------------------------------------
(* Files that are written without the ledger, deaths, and power failures. *)

LEMMA WriteKeeps ==
    ASSUME FilesInv, part # "ledger", UNCHANGED <<disk, promised, part, lvars>>, FilesTypeOK',
           orphans \subseteq orphans',
           \A q \in Procs : call'[q] # call[q] /\ call'[q] # None =>
               Starts(q) /\ call'[q].path # LedgerPath,
           \A q \in Procs : call'[q] # call[q] /\ call[q] # None =>
               call[q].temp \in orphans' \/ call[q].temp \notin DOMAIN names
    PROVE  FilesInv'
<1>1. \A q \in Procs : TaskFits(q) /\ HoldsLock(q) /\ task[q] = None
    BY DEF FilesInv, LogInv, TaskFits
<1>2. LedgerTypeOK'
    BY DEF FilesInv, DiskInv, LedgerTypeOK, lvars
<1>3. \A q \in Procs : Appends(q)' /\ HoldsLock(q)'
    BY <1>1 DEF Appends, HoldsLock, InAppend, lvars
<1>4. \A q \in Procs : TaskFits(q)'
    BY <1>1 DEF TaskFits, InAppend, lvars
<1>5. LogKept'
    BY LogSame DEF lvars
<1>6. DiskInv'
    BY <1>2, <1>3, CallsChange
<1> QED BY <1>3, <1>4, <1>5, <1>6 DEF FilesInv, LogInv

LEMMA StartKeeps ==
    ASSUME FilesInv, part \in {"immutables", "pointers"}, NEW p \in Procs,
           NEW x \in IF part = "immutables" THEN Immutables ELSE Pointers,
           Start(p, x), UNCHANGED <<part, lvars>>
    PROVE  FilesInv'
<1>1. /\ call[p] = None \/ Returned(p)
      /\ call' = [call EXCEPT ![p] = x]
      /\ UNCHANGED <<disk, seq, bounds, promised, orphans>>
    BY DEF Start
<1>2. /\ x \in Calls /\ x.path \in {a, h, b} /\ x.path # LedgerPath
      /\ x.step \in {"check", "stage", "source"}
      /\ x.temp = None /\ x.fd = None /\ ~x.installed
      /\ x.op \in {"ensure", "create"} => x.path = a /\ x.step = "check"
      /\ x.op = "replace" => x.path = h /\ x.step = "stage"
      /\ x.op = "move" => /\ part = "pointers" /\ x.bytes = <<5>> /\ x.path = b /\ x.from = s
                          /\ x.step = "source"
      /\ x.op \in {"ensure", "create", "replace", "move"}
  <2>1. /\ {a, h, b, s} \subseteq Paths /\ LedgerPath \notin {a, h, b}
        /\ \A n \in {1, 2, 3, 4, 5} : <<n>> \in Seq(Nat)
        /\ {"check", "stage", "source"} \subseteq AllSteps
    <3>1. {a, h, b, s} \subseteq Paths /\ LedgerPath \notin {a, h, b}
        BY Instances DEF LedgerAssumption
    <3>2. \A n \in {1, 2, 3, 4, 5} : <<n>> \in Seq(Nat)
        OBVIOUS
    <3> QED BY <3>1, <3>2 DEF AllSteps
  <2>2. CASE x \in Immutables
    <3>1. PICK op \in {"ensure", "create"}, n \in {1, 2} :
              x = Operation(op, a, None, <<n>>, "check")
        BY <2>2 DEF Immutables, Ensure, Create
    <3>2. x \in Calls
        BY <2>1, <3>1, CallTyped
    <3> QED BY <2>1, <3>1, <3>2 DEF Operation
  <2>3. CASE x \in Pointers /\ part = "pointers"
    <3>1. CASE x = Move(s, b, <<5>>)
      <4>1. x = Operation("move", b, s, <<5>>, "source")
          BY <3>1 DEF Move
      <4>2. x \in Calls
          BY <2>1, <4>1, CallTyped
      <4> QED BY <2>1, <2>3, <4>1, <4>2 DEF Operation
    <3>2. CASE x # Move(s, b, <<5>>)
      <4>1. PICK n \in {3, 4} : x = Operation("replace", h, None, <<n>>, "stage")
          BY <2>3, <3>2 DEF Pointers, Replace
      <4>2. x \in Calls
          BY <2>1, <4>1, CallTyped
      <4> QED BY <2>1, <4>1, <4>2 DEF Operation
    <3> QED BY <3>1, <3>2
  <2> QED BY <2>2, <2>3
<1>3. /\ call'[p] = x /\ \A q \in Procs \ {p} : call'[q] = call[q]
      /\ call' \in [Procs -> {None} \union Calls] /\ x # None
    BY <1>1, <1>2, AppendKnown
<1>4. Starts(p)
  <2>1. CallFits(p)'
      BY <1>2, <1>3 DEF CallFits, InStep
  <2> QED BY <1>2, <1>3, <2>1 DEF Starts
<1>5. FilesTypeOK'
    BY <1>1, <1>3, AppendKnown DEF FilesTypeOK, disk, bounds
<1>6. call[p] # None => call[p].temp \notin DOMAIN names
    BY <1>1, AppendKnown
<1>7. part # "ledger"
    OBVIOUS
<1>8. \A q \in Procs : call'[q] # call[q] /\ call'[q] # None =>
               Starts(q) /\ call'[q].path # LedgerPath
    BY <1>2, <1>3, <1>4
<1>9. \A q \in Procs : call'[q] # call[q] /\ call[q] # None =>
               call[q].temp \in orphans' \/ call[q].temp \notin DOMAIN names
    BY <1>3, <1>6
<1> QED BY <1>1, <1>5, <1>7, <1>8, <1>9, WriteKeeps

LEMMA DieKeeps ==
    ASSUME FilesInv, part # "ledger", NEW p \in Procs, Die(p), UNCHANGED <<part, lvars>>
    PROVE  FilesInv'
<1>1. /\ deaths < MaxDeaths /\ deaths' = deaths + 1
      /\ orphans' = orphans \union Litter({p})
      /\ call' = [call EXCEPT ![p] = None] /\ seq' = [seq EXCEPT ![p] = 0]
      /\ UNCHANGED <<disk, outages, failures, promised>>
    BY DEF Die
<1>2. /\ call'[p] = None /\ \A q \in Procs \ {p} : call'[q] = call[q]
      /\ call' \in [Procs -> {None} \union Calls] /\ FilesTypeOK
    BY <1>1, AppendKnown
<1>3. /\ orphans \subseteq orphans' /\ orphans' \subseteq Temps
      /\ call[p] # None => call[p].temp \in orphans' \/ call[p].temp \notin DOMAIN names
  <2>1. {p} \in SUBSET Procs /\ orphans \subseteq Temps
      BY <1>2 DEF FilesTypeOK
  <2> QED BY <1>1, <1>2, <2>1, LitterTyped
<1>4. FilesTypeOK'
  <2>1. deaths' \in 0 .. MaxDeaths /\ seq' \in [Procs -> 0 .. MaxSeq + 1]
      BY <1>1, <1>2, FilesAssumption DEF FilesTypeOK
  <2> QED BY <1>1, <1>2, <1>3, <2>1 DEF FilesTypeOK, disk
<1> QED BY <1>1, <1>2, <1>3, <1>4, WriteKeeps

\* A power failure leaves of every name what was possible.
LEMMA AfterPowerFailure ==
    ASSUME FilesTypeOK, PowerFailure
    PROVE  /\ \A n : At(n)' \in Possible(n) /\ Possible(n)' = {At(n)'}
           /\ DOMAIN names' \subseteq DOMAIN names \union {x[1] : x \in stale}
           /\ \A n \in DOMAIN names' : names'[n] \in Inodes
<1> DEFINE touched == {x[1] : x \in stale}
           all == DOMAIN names \union touched
<1>1. PICK found \in [touched -> UNION {Possible(n) : n \in touched}] :
          /\ \A n \in touched : found[n] \in Possible(n)
          /\ LET bound(n) == IF n \in touched THEN found[n] ELSE names[n]
             IN  names' = [n \in {x \in all : bound(x) # None} |-> bound(n)]
    BY DEF PowerFailure
<1> DEFINE bound(n) == IF n \in touched THEN found[n] ELSE names[n]
<1>2. names' = [n \in {x \in all : bound(x) # None} |-> bound(n)]
    BY <1>1
<1>3. stale' = {}
    BY DEF PowerFailure
<1>4. ASSUME NEW n \in all PROVE bound(n) \in Possible(n)
    BY <1>1, <1>4 DEF Possible, At
<1>5. ASSUME NEW n PROVE At(n)' \in Possible(n)
  <2>1. CASE n \in all /\ bound(n) # None
      BY <1>2, <1>4, <2>1 DEF At
  <2>2. CASE n \in all /\ bound(n) = None
    <3>1. At(n)' = None
        BY <1>2, <2>2 DEF At
    <3> QED BY <1>4, <2>2, <3>1
  <2>3. CASE n \notin all
    <3>1. At(n)' = None /\ At(n) = None
        BY <1>2, <2>3 DEF At
    <3> QED BY <3>1 DEF Possible
  <2> QED BY <2>1, <2>2, <2>3
<1>6. ASSUME NEW n PROVE Possible(n)' = {At(n)'}
    BY <1>3 DEF Possible
<1>7. ASSUME NEW n \in DOMAIN names' PROVE names'[n] \in Inodes
  <2>1. n \in all /\ bound(n) # None /\ names'[n] = bound(n)
      BY <1>2, <1>7
  <2> QED BY <1>4, <2>1, NamesTyped
<1> QED BY <1>2, <1>5, <1>6, <1>7

LEMMA PowerFailureKeeps ==
    ASSUME FilesInv, PowerFailure, UNCHANGED <<part, begun, acknowledged>>,
           \A q \in Procs : task'[q] = None,
           task' \in [Procs -> {None} \union Tasks],
           flocked' \in [Inodes -> Procs \union {None}]
    PROVE  FilesInv'
<1>1. /\ FilesTypeOK /\ LedgerTypeOK /\ PromisedPaths /\ SourceFound /\ NothingTorn
      /\ PromisesKept /\ NoLitter /\ LogKept
    BY DEF FilesInv, DiskInv, LogInv, LedgerTypeOK
<1>2. /\ outages < MaxOutages /\ outages' = outages + 1
      /\ orphans' = orphans \union Litter(Procs) \union ({x[1] : x \in stale} \ Paths)
      /\ stale' = {}
      /\ file' = [i \in Inodes |-> IF file[i].synced THEN file[i]
                                   ELSE [data |-> Torn, synced |-> TRUE]]
      /\ call' = [q \in Procs |-> None] /\ seq' = [q \in Procs |-> 0]
      /\ UNCHANGED <<deaths, failures, promised>>
    BY DEF PowerFailure
<1>3. /\ \A n : At(n)' \in Possible(n) /\ Possible(n)' = {At(n)'}
      /\ DOMAIN names' \subseteq DOMAIN names \union {x[1] : x \in stale}
      /\ \A n \in DOMAIN names' : names'[n] \in Inodes
    BY <1>1, AfterPowerFailure
<1>4. Litter(Procs) \subseteq Temps /\ {x[1] : x \in stale} \subseteq Paths \union Temps
  <2>1. Procs \in SUBSET Procs
      OBVIOUS
  <2> QED BY <1>1, <2>1, LitterTyped DEF FilesTypeOK
<1>5. FilesTypeOK'
  <2>1. file' \in [Inodes -> [data : {Torn} \union Seq(Nat), synced : BOOLEAN]]
      BY <1>1, <1>2 DEF FilesTypeOK
  <2>2. outages' \in 0 .. MaxOutages /\ seq' \in [Procs -> 0 .. MaxSeq + 1]
      BY <1>1, <1>2, FilesAssumption DEF FilesTypeOK
  <2>3. call' \in [Procs -> {None} \union Calls]
      BY <1>2
  <2>4. DOMAIN names' \subseteq Paths \union Temps
      BY <1>1, <1>3, <1>4 DEF FilesTypeOK
  <2> QED BY <1>1, <1>2, <1>3, <1>4, <2>1, <2>2, <2>3, <2>4 DEF FilesTypeOK
<1>6. LedgerTypeOK'
    BY <1>1, <1>5 DEF LedgerTypeOK
<1>7. \A q \in Procs : CallInv(q)' /\ TaskFits(q)' /\ HoldsLock(q)'
    BY <1>2 DEF CallInv, CallFits, WritesAlone, WroteAll, Installed, TempGone, Moves, Appends,
       TaskFits, HoldsLock, InStep, InAppend
<1>8. ASSUME NEW n \in Paths, NEW i \in Possible(n), i # None
      PROVE  i \in Inodes /\ file[i].synced /\ file[i].data # Torn /\ file'[i] = file[i]
    BY <1>1, <1>2, <1>8, NamesTyped DEF NothingTorn
<1>9. NothingTorn' /\ PromisedPaths'
    BY <1>1, <1>2, <1>3, <1>8 DEF NothingTorn, PromisedPaths
<1>10. PromisesKept'
  <2> SUFFICES ASSUME NEW x \in promised
               PROVE  Possible(x.path)' = {x.inode} /\ file'[x.inode].data = x.bytes
      BY <1>2 DEF PromisesKept
  <2> DEFINE n == x.path
  <2>1. /\ n \in Paths /\ x.inode \in Inodes /\ x.inode # None
        /\ Possible(n) = {x.inode} /\ file[x.inode].data = x.bytes
      BY <1>1, NamesTyped DEF FilesTypeOK, PromisesKept
  <2> HIDE DEF n
  <2>2. Possible(n)' = {x.inode}
      BY <1>3, <2>1
  <2> QED BY <1>8, <2>1, <2>2 DEF n
<1>11. NoLitter'
  <2> SUFFICES ASSUME NEW t \in DOMAIN names' \ Paths PROVE t \in orphans'
      BY DEF NoLitter
  <2>1. CASE t \in {x[1] : x \in stale}
      BY <1>2, <2>1
  <2>2. CASE t \in DOMAIN names
    <3>1. t # None
        BY <1>1, <2>2, FilesAssumption DEF FilesTypeOK
    <3> QED BY <1>1, <1>2, <2>2, <3>1 DEF NoLitter, Litter
  <2> QED BY <1>3, <2>1, <2>2
<1>12. SourceFound'
  <2> SUFFICES ASSUME part = "pointers" PROVE SourceFound'
      BY DEF SourceFound
  <2>1. /\ file[1].synced /\ file[1].data = <<5>> /\ 1 \in Inodes /\ 1 # None
        /\ Possible(s) \subseteq {1, None} /\ Possible(b) \subseteq {1, None}
        /\ Possible(s) = {1} \/ Possible(b) = {1}
      BY <1>1, Instances, NamesTyped DEF SourceFound
  <2>2. /\ At(s)' \in Possible(s) /\ Possible(s)' = {At(s)'}
        /\ At(b)' \in Possible(b) /\ Possible(b)' = {At(b)'}
      BY <1>3
  <2> QED BY <1>2, <2>1, <2>2 DEF SourceFound
<1>13. LogKept'
  <2> SUFFICES ASSUME NEW i, i = At(LedgerPath)' PROVE LogKept'
      OBVIOUS
  <2>1. i \in Possible(LedgerPath) /\ Possible(LedgerPath)' = {i} /\ LedgerPath \in Paths
      BY <1>3, Instances DEF LedgerAssumption
  <2>2. DataOf(i)' = DataOf(i)
      BY <1>8, <2>1 DEF DataOf
  <2>3. Log' = DataOf(i)
      BY <2>2 DEF Log, Reads, DataOf
  <2>4. DataOf(i) \in Seq(Nat) /\ Begins(DataOf(i), DataOf(i))
        /\ \A e \in acknowledged : \E k \in 1 .. Len(DataOf(i)) : DataOf(i)[k] = e
      BY <1>1, <2>1, LogTyped, BeginsItself DEF LogKept
  <2> QED BY <2>1, <2>2, <2>3, <2>4 DEF LogKept, Begins
<1> QED BY <1>5, <1>6, <1>7, <1>9, <1>10, <1>11, <1>12, <1>13 DEF FilesInv, DiskInv, LogInv

-----------------------------------------------------------------------------
(* The steps of the specification. *)

StorageInv == FilesInv /\ ReleasesInv /\ VaultInv

LEMMA IdleKeeps ==
    ASSUME FilesInv, UNCHANGED <<part, ledgerVars>>
    PROVE  FilesInv'
<1>1. UNCHANGED <<disk, call, seq, bounds, promised, orphans, task, flocked, begun, acknowledged>>
    BY DEF ledgerVars, fvars, lvars
<1>2. /\ At(LockPath)' = At(LockPath) /\ Log' = Log
      /\ Settled(LedgerPath) => Settled(LedgerPath)'
    BY <1>1, DiskSame, StaysSettled DEF Stays
<1>3. \A q \in Procs : Appends(q)' /\ TaskFits(q)' /\ HoldsLock(q)'
  <2> TAKE q \in Procs
  <2>1. CallInv(q) /\ TaskFits(q) /\ HoldsLock(q)
      BY DEF FilesInv, DiskInv, LogInv
  <2> QED BY <1>1, <1>2, <2>1 DEF CallInv, Appends, TaskFits, HoldsLock, InStep, InAppend
<1>4. LedgerTypeOK'
    BY <1>1 DEF FilesInv, DiskInv, LedgerTypeOK, FilesTypeOK, disk, bounds
<1>5. DiskInv'
  <2>1. /\ \A q \in Procs : call'[q] = call[q] \/ call'[q] = None \/ Starts(q)
        /\ orphans \subseteq orphans'
        /\ \A q \in Procs : call'[q] # call[q] /\ call[q] # None =>
               call[q].temp \in orphans' \/ call[q].temp \notin DOMAIN names
      BY <1>1
  <2> QED BY <1>1, <1>3, <1>4, <2>1, CallsChange
<1>6. LogKept'
    BY <1>1, LogSame
<1> QED BY <1>3, <1>5, <1>6 DEF FilesInv, LogInv

LEMMA PowerFailsKeeps ==
    ASSUME FilesInv, PowerFails, UNCHANGED part
    PROVE  FilesInv'
<1>1. /\ PowerFailure /\ UNCHANGED <<begun, acknowledged>>
      /\ task' = [q \in Procs |-> None] /\ flocked' = [i \in Inodes |-> None]
    BY DEF PowerFails
<1> QED BY <1>1, PowerFailureKeeps

LEMMA RecordKeeps ==
    ASSUME FilesInv, Record
    PROVE  FilesInv'
<1>1. part = "ledger" /\ AppendNext /\ UNCHANGED part
    BY DEF Record
<1>2. ASSUME NEW p \in Procs, SystemCall(p), UNCHANGED lvars PROVE FilesInv'
    BY <1>1, <1>2, SystemCallKeeps
<1> QED
    BY <1>1, <1>2, BeginAppendKeeps, OpenLockKeeps, LockFailsKeeps, FlockKeeps,
       ReadAndReplaceKeeps, CompareAndReleaseKeeps, DieInAppendKeeps, PowerFailsKeeps
       DEF AppendNext

LEMMA NoTasks ==
    ASSUME FilesInv, part # "ledger"
    PROVE  \A q \in Procs : task[q] = None
BY DEF FilesInv, LogInv, TaskFits

LEMMA WritesKeep ==
    ASSUME FilesInv, Write
    PROVE  FilesInv'
<1>1. part \in {"immutables", "pointers"} /\ FilesNext /\ UNCHANGED <<part, lvars>>
    BY DEF Write
<1>2. ASSUME NEW p \in Procs, SystemCall(p) PROVE FilesInv'
    BY <1>1, <1>2, SystemCallKeeps
<1>3. ASSUME NEW p \in Procs, Die(p) PROVE FilesInv'
    BY <1>1, <1>3, DieKeeps
<1>4. ASSUME PowerFailure PROVE FilesInv'
  <2>1. /\ \A q \in Procs : task'[q] = None
        /\ task' \in [Procs -> {None} \union Tasks]
        /\ flocked' \in [Inodes -> Procs \union {None}]
        /\ UNCHANGED <<begun, acknowledged>>
      BY <1>1, NoTasks DEF lvars, FilesInv, DiskInv, LedgerTypeOK
  <2> QED BY <1>1, <1>4, <2>1, PowerFailureKeeps
<1>5. ASSUME NEW p \in Procs, NEW x \in IF part = "immutables" THEN Immutables ELSE Pointers,
             Start(p, x)
      PROVE  FilesInv'
    BY <1>1, <1>5, StartKeeps
<1> QED BY <1>1, <1>2, <1>3, <1>4, <1>5 DEF FilesNext

LEMMA FilesStart ==
    ASSUME Init
    PROVE  FilesInv
<1> DEFINE given == IF part = "pointers" THEN <<<<s, <<5>>>>, <<h, <<0>>>>>> ELSE <<>>
<1>1. /\ FilesInit(given) /\ LedgerInit
      /\ part \in {"immutables", "pointers", "ledger", "releases", "vault"}
    BY DEF Init
<1>2. /\ stale = {} /\ call = [p \in Procs |-> None] /\ seq = [p \in Procs |-> 0]
      /\ deaths = 0 /\ outages = 0 /\ failures = 0 /\ promised = {} /\ orphans = {}
      /\ names = [n \in {given[i][1] : i \in DOMAIN given} |->
                      CHOOSE i \in DOMAIN given : given[i][1] = n]
      /\ file = [i \in Inodes |-> IF i \in DOMAIN given
                                 THEN [data |-> given[i][2], synced |-> TRUE]
                                 ELSE [data |-> Torn, synced |-> FALSE]]
      /\ task = [p \in Procs |-> None] /\ flocked = [i \in Inodes |-> None]
      /\ begun = {} /\ acknowledged = {}
    BY <1>1 DEF FilesInit, LedgerInit
<1>3. /\ {a, b, h, s} \subseteq Paths /\ {1, 2} \subseteq Inodes /\ None \notin Inodes
      /\ LedgerPath \in Paths /\ LedgerPath \notin {s, h} /\ b \notin {s, h} /\ s # h
    BY Instances, FilesAssumption DEF LedgerAssumption
<1>4. /\ part = "pointers" => /\ DOMAIN given = {1, 2}
                              /\ given[1] = <<s, <<5>>>> /\ given[2] = <<h, <<0>>>>
      /\ part # "pointers" => DOMAIN given = {}
    OBVIOUS
<1>5. /\ part = "pointers" => /\ DOMAIN names = {s, h} /\ names[s] = 1 /\ names[h] = 2
                              /\ file[1].data = <<5>> /\ file[1].synced
                              /\ file[2].data = <<0>> /\ file[2].synced
      /\ part # "pointers" => DOMAIN names = {}
  <2> HIDE DEF given
  <2>1. ASSUME part = "pointers"
        PROVE  /\ DOMAIN names = {s, h} /\ names[s] = 1 /\ names[h] = 2
               /\ file[1].data = <<5>> /\ file[1].synced
               /\ file[2].data = <<0>> /\ file[2].synced
    <3>1. DOMAIN given = {1, 2} /\ given[1][1] = s /\ given[2][1] = h
          /\ given[1][2] = <<5>> /\ given[2][2] = <<0>>
        BY <1>4, <2>1
    <3>2. DOMAIN names = {s, h}
        BY <1>2, <3>1
    <3>3. names[s] = 1 /\ names[h] = 2
        BY <1>2, <1>3, <3>1, <3>2
    <3>4. /\ file[1] = [data |-> given[1][2], synced |-> TRUE]
          /\ file[2] = [data |-> given[2][2], synced |-> TRUE]
        BY <1>2, <1>3, <3>1
    <3> QED BY <3>1, <3>2, <3>3, <3>4
  <2>2. ASSUME part # "pointers" PROVE DOMAIN names = {}
      BY <1>2, <1>4, <2>2
  <2> QED BY <2>1, <2>2
<1>6. file \in [Inodes -> [data : {Torn} \union Seq(Nat), synced : BOOLEAN]]
  <2>1. \A i \in DOMAIN given : given[i][2] \in Seq(Nat)
    <3>1. <<5>> \in Seq(Nat) /\ <<0>> \in Seq(Nat)
        OBVIOUS
    <3> QED BY <1>4, <3>1
  <2> HIDE DEF given
  <2> QED BY <1>2, <2>1
<1> HIDE DEF given
<1>7. FilesTypeOK
  <2>1. DOMAIN names \subseteq Paths \union Temps /\ \A n \in DOMAIN names : names[n] \in Inodes
      BY <1>3, <1>5
  <2>2. /\ deaths \in 0 .. MaxDeaths /\ outages \in 0 .. MaxOutages
        /\ failures \in 0 .. MaxFailures /\ seq \in [Procs -> 0 .. MaxSeq + 1]
      BY <1>2, FilesAssumption
  <2>3. call \in [Procs -> {None} \union Calls]
      BY <1>2
  <2> QED BY <1>2, <1>6, <2>1, <2>2, <2>3 DEF FilesTypeOK
<1>8. LedgerTypeOK
    BY <1>2, <1>7 DEF LedgerTypeOK
<1>9. \A n : Possible(n) = {At(n)} /\ (n \notin DOMAIN names => At(n) = None)
    BY <1>2 DEF Possible, At
<1>10. \A q \in Procs : CallInv(q) /\ TaskFits(q) /\ HoldsLock(q)
    BY <1>2 DEF CallInv, CallFits, WritesAlone, WroteAll, Installed, TempGone, Moves, Appends,
       TaskFits, HoldsLock, InStep, InAppend
<1>11. PromisedPaths /\ PromisesKept
    BY <1>2 DEF PromisedPaths, PromisesKept
<1>12. NothingTorn
  <2>1. <<5>> # Torn /\ <<0>> # Torn
      BY FilesAssumption DEF Torn
  <2>2. ASSUME NEW n \in Paths, NEW i \in Possible(n) \ {None}
        PROVE  file[i].synced /\ file[i].data # Torn
    <3>1. n \in DOMAIN names /\ i = names[n]
        BY <1>9, <2>2 DEF At
    <3> QED BY <1>5, <2>1, <3>1
  <2> QED BY <2>2 DEF NothingTorn
<1>13. NoLitter
    BY <1>3, <1>5 DEF NoLitter
<1>14. SourceFound
    BY <1>3, <1>5, <1>9 DEF SourceFound, At
<1>15. LogKept
  <2>1. LedgerPath \notin DOMAIN names
      BY <1>3, <1>5
  <2>2. At(LedgerPath) = None /\ Possible(LedgerPath) = {None}
      BY <1>9, <2>1
  <2> QED BY <1>2, <2>2 DEF LogKept, Log, DataOf, Begins
<1> QED BY <1>8, <1>10, <1>11, <1>12, <1>13, <1>14, <1>15 DEF FilesInv, DiskInv, LogInv

LEMMA StorageStarts == Init => StorageInv
BY FilesStart, ReleasesStart, VaultStarts DEF Init, StorageInv

LEMMA StorageStep ==
    ASSUME StorageInv, [Next]_vars
    PROVE  StorageInv'
<1>1. FilesInv /\ ReleasesInv /\ VaultInv
    BY DEF StorageInv
<1>2. ASSUME UNCHANGED releaseVars PROVE ReleasesInv'
    BY <1>1, <1>2 DEF releaseVars, ReleasesInv, R!ReleasesTypeOK, R!AlwaysRunnable, StepsFollow,
       LinkFollows, ChangesKnown, Repaired, RemovesNoWayBack, R!At
<1>3. ASSUME UNCHANGED vaultVars PROVE VaultInv'
    BY <1>1, <1>3 DEF vaultVars, VaultInv, V!VaultTypeOK, HistoryTyped, CaptureFollows, SeenWasHeld,
       CheckedIsThere, V!Runs, V!NothingShownEarly, V!SealsWhatWasThere, V!HandedOutStaysWhole
<1>4. CASE Write
    BY <1>1, <1>2, <1>3, <1>4, WritesKeep DEF Write, StorageInv
<1>5. CASE Record
    BY <1>1, <1>2, <1>3, <1>5, RecordKeeps DEF Record, StorageInv
<1>6. CASE Release
    BY <1>1, <1>3, <1>6, ReleasesStep, IdleKeeps DEF Release, StorageInv
<1>7. CASE Retain
    BY <1>1, <1>2, <1>7, VaultStep, IdleKeeps DEF Retain, StorageInv
<1>8. CASE UNCHANGED vars
    BY <1>1, <1>2, <1>3, <1>8, IdleKeeps DEF vars, StorageInv
<1> QED BY <1>4, <1>5, <1>6, <1>7, <1>8 DEF Next

\* What the files, the releases and the vault keep together, whatever part the
\* specification runs.
THEOREM StorageInvariant == Spec => []StorageInv
<1>1. StorageInv /\ [Next]_vars => StorageInv'
    BY StorageStep
<1> QED BY <1>1, StorageStarts, PTL DEF Spec

\* What is active and the way back from it are whole, wherever a command was
\* killed (manage-release-installation.sh).
THEOREM ReleasesRunAlways == Spec => []ReleasesRun
<1>1. StorageInv => ReleasesRun
    BY DEF StorageInv, ReleasesInv, ReleasesRun
<1> QED BY <1>1, StorageInvariant, PTL

\* Files appear whole, promises outlive deaths and power failures, a moved file is
\* never lost, only the dead leave litter, one append holds the lock
\* (authority.rs); a vault shows nothing early and seals what was there
\* (content_vault.rs).
THEOREM FilesSoundAlways == Spec => []FilesSound
<1>1. ASSUME StorageInv PROVE FilesSound
  <2>1. /\ LedgerTypeOK /\ NothingTorn /\ PromisesKept /\ NoLitter /\ SourceFound
        /\ \A p \in Procs : HoldsLock(p)
      BY <1>1 DEF StorageInv, FilesInv, DiskInv, LogInv
  <2>2. OneAppends
      BY <2>1 DEF OneAppends, HoldsLock
  <2>3. part = "pointers" => MoveKeeps(s, b, <<5>>)
    <3>1. 1 # None
        BY Instances, FilesAssumption
    <3> QED BY <2>1, <3>1 DEF SourceFound, MoveKeeps
  <2>4. V!VaultTypeOK /\ V!NothingShownEarly /\ V!SealsWhatWasThere /\ V!HandedOutStaysWhole
      BY <1>1 DEF StorageInv, VaultInv
  <2> QED BY <2>1, <2>2, <2>3, <2>4 DEF FilesSound
<1> QED BY <1>1, StorageInvariant, PTL

-----------------------------------------------------------------------------
(* The ledger is the log it promises to be. *)

LEMMA BeginningIsPrefix ==
    ASSUME NEW d \in Seq(Nat), NEW log \in Seq(Nat), Begins(d, log), d # log
    PROVE  Promise!IsStrictPrefix(d, log)
<1>1. /\ Len(d) \in Nat /\ Len(log) \in Nat /\ Len(d) <= Len(log)
      /\ \A k \in 1 .. Len(d) : d[k] = log[k]
    BY DEF Begins
<1>2. SubSeq(d, 1, Len(d)) = SubSeq(log, 1, Len(d))
  <2>1. /\ SubSeq(d, 1, Len(d)) = [k \in 1 .. Len(d) |-> d[k]]
        /\ SubSeq(log, 1, Len(d)) = [k \in 1 .. Len(d) |-> log[k]]
      BY <1>1
  <2> QED BY <1>1, <2>1
<1> QED BY <1>1, <1>2 DEF Promise!IsStrictPrefix, Promise!IsPrefix

LEMMA HoldsIsToSet ==
    ASSUME NEW d \in Seq(Nat), NEW E, Holds(d, E)
    PROVE  E \subseteq Promise!ToSet(d)
BY DEF Holds, Promise!ToSet

LogSteps == [Promise!Next]_<<Log, acknowledged>>

\* A system call leaves the log alone, or it replaces it by one that has the
\* event of its process at the end.
LEMMA SystemCallAppends ==
    ASSUME FilesInv, NEW p \in Procs, SystemCall(p), UNCHANGED <<part, lvars>>
    PROVE  LogSteps
<1>1. Effect(p)
    BY SystemCallDoes
<1>2. /\ FilesTypeOK /\ call[p] # None /\ CallFits(p) /\ TaskFits(p) /\ WroteAll(p)
      /\ Appends(p) /\ LedgerPath \in Paths /\ LedgerPath # s /\ call[p] \in Calls
    BY <1>1, Known, Instances DEF Effect, LedgerAssumption
<1>3. CASE call[p].path # LedgerPath
  <2>1. Log' = Log /\ acknowledged' = acknowledged
      BY <1>1, <1>3, LogUntouched DEF lvars
  <2> QED BY <2>1 DEF LogSteps
<1>4. CASE Stays(LedgerPath)
  <2>1. \A i \in Inodes : i = At(LedgerPath) => file'[i].data = file[i].data
      BY <1>1, <1>2, NamesTyped, DataStays
  <2>2. Log' = Log /\ acknowledged' = acknowledged
      BY <1>2, <1>4, <2>1, LogStays DEF lvars
  <2> QED BY <2>2 DEF LogSteps
<1>5. CASE Binds(p, LedgerPath)
  <2>1. InStep(p, {"rename"}) /\ InAppend(p, "locked") /\ At(LedgerPath)' = call[p].fd
      BY <1>2, <1>5, Instances DEF Binds, CallFits, TaskFits, InStep
  <2>2. call[p].bytes = Append(Log, task[p].event) /\ task[p].event \in Events
      BY <1>2, <2>1, AppendKnown DEF Appends, InStep, InAppend, Tasks
  <2>3. /\ file[call[p].fd].data = call[p].bytes
        /\ call[p].fd \in Inodes /\ call[p].fd \notin Free /\ call[p].fd # None
      BY <1>2, <2>1, NamesTyped DEF WroteAll, InStep, Calls, CallFits
  <2>4. file'[call[p].fd].data = call[p].bytes
      BY <1>1, <2>1, <2>3 DEF Effect, InStep
  <2>5. Log' = Append(Log, task[p].event) /\ acknowledged' = acknowledged
      BY <2>1, <2>2, <2>3, <2>4 DEF Log, Reads, lvars
  <2> QED BY <2>2, <2>5 DEF LogSteps, Promise!Next, Promise!Append1
<1>6. ~Retires(p, LedgerPath)
    BY <1>2 DEF Retires, CallFits, InStep
<1> QED BY <1>1, <1>2, <1>3, <1>4, <1>5, <1>6 DEF Effect

LEMMA CompareAcknowledges ==
    ASSUME FilesInv, NEW p \in Procs, CompareAndRelease(p)
    PROVE  LogSteps
<1>1. /\ InAppend(p, "locked") /\ call[p] # None /\ UNCHANGED disk
      /\ acknowledged' = IF Runs(p, "ok") /\ Log = call[p].bytes
                         THEN acknowledged \union {task[p].event} ELSE acknowledged
    BY DEF CompareAndRelease, Returned
<1>2. Log' = Log
    BY <1>1, DiskSame
<1>3. CASE acknowledged' = acknowledged
    BY <1>2, <1>3 DEF LogSteps
<1>4. CASE Log = call[p].bytes /\ acknowledged' = acknowledged \union {task[p].event}
  <2>1. Log # <<>> /\ Log[Len(Log)] = task[p].event /\ Log \in Seq(Nat)
      BY <1>1, <1>4, AppendKnown DEF CallInv, Appends
  <2>2. task[p].event \in Promise!ToSet(Log)
      BY <2>1 DEF Promise!ToSet
  <2> QED BY <1>2, <1>4, <2>2 DEF LogSteps, Promise!Next, Promise!Acknowledge
<1> QED BY <1>1, <1>3, <1>4

\* What a power failure leaves is a beginning that holds what was acknowledged.
LEMMA PowerFailureLoses ==
    ASSUME FilesInv, PowerFailure, UNCHANGED acknowledged
    PROVE  LogSteps
<1>1. FilesTypeOK /\ NothingTorn /\ LogKept
    BY DEF FilesInv, DiskInv, LogInv, LedgerTypeOK
<1> SUFFICES ASSUME NEW i, i = At(LedgerPath)' PROVE LogSteps
    OBVIOUS
<1>2. i \in Possible(LedgerPath) /\ LedgerPath \in Paths
    BY <1>1, AfterPowerFailure, Instances DEF LedgerAssumption
<1>3. Log' = DataOf(i)
  <2>1. i # None => i \in Inodes /\ file[i].synced
      BY <1>1, <1>2, NamesTyped DEF NothingTorn
  <2>2. i # None => file'[i] = file[i]
      BY <2>1 DEF PowerFailure
  <2> QED BY <2>2 DEF Log, Reads, DataOf
<1>4. Log \in Seq(Nat) /\ DataOf(i) \in Seq(Nat)
    BY <1>1, <1>2, LogTyped
<1>5. Begins(DataOf(i), Log) /\ Holds(DataOf(i), acknowledged)
    BY <1>1, <1>2 DEF LogKept, Holds
<1>6. acknowledged \subseteq Promise!ToSet(DataOf(i))
    BY <1>4, <1>5, HoldsIsToSet
<1>7. CASE DataOf(i) = Log
    BY <1>3, <1>7 DEF LogSteps
<1>8. CASE DataOf(i) # Log
  <2>1. Promise!IsStrictPrefix(DataOf(i), Log)
      BY <1>4, <1>5, <1>8, BeginningIsPrefix
  <2> QED BY <1>3, <1>6, <2>1 DEF LogSteps, Promise!Next, Promise!Lose
<1> QED BY <1>7, <1>8

LEMMA LogStep ==
    ASSUME StorageInv, [Next]_vars
    PROVE  LogSteps
<1>1. FilesInv
    BY DEF StorageInv
<1>2. ASSUME UNCHANGED <<disk, acknowledged>> PROVE LogSteps
    BY <1>2, DiskSame DEF LogSteps
<1>3. CASE Write
  <2>1. FilesNext /\ UNCHANGED <<part, lvars>>
      BY <1>3 DEF Write
  <2>2. ASSUME NEW p \in Procs, SystemCall(p) PROVE LogSteps
      BY <1>1, <2>1, <2>2, SystemCallAppends
  <2>3. ASSUME NEW p \in Procs, Die(p) PROVE LogSteps
      BY <1>2, <2>1, <2>3 DEF Die, lvars
  <2>4. ASSUME PowerFailure PROVE LogSteps
      BY <1>1, <2>1, <2>4, PowerFailureLoses DEF lvars
  <2>5. ASSUME NEW p \in Procs, NEW x, Start(p, x) PROVE LogSteps
      BY <1>2, <2>1, <2>5 DEF Start, lvars
  <2> QED BY <2>1, <2>2, <2>3, <2>4, <2>5 DEF FilesNext
<1>4. CASE Record
  <2>1. AppendNext /\ UNCHANGED part
      BY <1>4 DEF Record
  <2>2. ASSUME NEW p \in Procs,
               \/ \E e \in Events : BeginAppend(p, e)
               \/ OpenLock(p) \/ LockFails(p) \/ Flock(p) \/ ReadAndReplace(p)
               \/ DieInAppend(p)
        PROVE  UNCHANGED <<disk, acknowledged>>
      BY <2>2 DEF BeginAppend, OpenLock, LockFails, Flock, ReadAndReplace, DieInAppend, Die, fvars
  <2>3. ASSUME NEW p \in Procs, SystemCall(p), UNCHANGED lvars PROVE LogSteps
      BY <1>1, <2>1, <2>3, SystemCallAppends
  <2>4. ASSUME PowerFails PROVE LogSteps
      BY <1>1, <2>4, PowerFailureLoses DEF PowerFails
  <2> QED BY <1>1, <1>2, <2>1, <2>2, <2>3, <2>4, CompareAcknowledges DEF AppendNext
<1>5. CASE Release \/ Retain \/ UNCHANGED vars
    BY <1>2, <1>5 DEF Release, Retain, vars, ledgerVars, fvars, lvars
<1> QED BY <1>3, <1>4, <1>5 DEF Next

\* The ledger implements the log it promises: appends add their event at the end,
\* and a power failure takes nothing that was acknowledged (ledger.rs).
THEOREM LedgerKeepsLog == Spec => KeepsLog
<1>1. Init => Promise!Init
  <2> SUFFICES ASSUME Init PROVE Promise!Init
      OBVIOUS
  <2>1. LedgerPath \notin DOMAIN names /\ acknowledged = {}
    <3>1. acknowledged = {}
          /\ FilesInit(IF part = "pointers" THEN <<<<s, <<5>>>>, <<h, <<0>>>>>> ELSE <<>>)
        BY DEF Init, LedgerInit
    <3>2. LedgerPath \notin {s, h}
        BY Instances
    <3> QED BY <3>1, <3>2 DEF FilesInit
  <2> QED BY <2>1 DEF Promise!Init, Log, At
<1>2. StorageInv /\ [Next]_vars => LogSteps
    BY LogStep
<1> QED BY <1>1, <1>2, StorageInvariant, PTL DEF Spec, KeepsLog, Promise!Spec, LogSteps

=============================================================================
