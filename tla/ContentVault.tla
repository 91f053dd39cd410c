----------------------------- MODULE ContentVault -----------------------------
(***************************************************************************)
(* Retention of a donor's files in a private content-addressed store           *)
(* (content_vault.rs, over the descriptor-bound scan of                        *)
(* acquisition_contract.rs), while the donor goes on writing and the path of    *)
(* the private root may come to lead elsewhere.                                 *)
(*                                                                          *)
(* The donor is one directory.  A file that changes while it is read is        *)
(* noticed by its stamps, so a read of one file is one step; a directory whose   *)
(* entries change while it is scanned is noticed by its own stamp.  A digest is  *)
(* what it is a digest of.                                                      *)
(***************************************************************************)
EXTENDS Naturals, FiniteSets, FiniteSetsExt

CONSTANTS
    Files, Contents,       \* names in their order, and what a file may hold
    Size,                  \* bytes of a content
    MaxFiles, MaxBytes,    \* AcquisitionBudget
    Roots,                 \* directories the private path may lead to
    Readers,               \* who materialize a receipt
    MaxChanges, MaxSwaps, MaxKills, MaxCaptures,    \* bounds
    None

VARIABLES
    donor, stamp,     \* the source tree, and the stamp of its directory
    root,             \* where the path of the private root leads
    cas,              \* contents in the store of each root
    capture,          \* capture_to_vault that runs, and the persist of what it returned
    receipts,         \* envelopes that were persisted, by root
    projection,       \* materialized trees, by root and envelope
    reader,           \* materialize that each reader runs
    events,           \* bounds: changes, swaps, kills, captures
    held, attested,   \* history: what files held since the store was last
                      \* written; envelopes that were staged and seen again
    astray,           \* history: receipts that were written after the path of the
                      \* root had moved under the persist that verified them
    handed, disputed  \* history: projections that were returned, or that a reader gave up

vaultVars == <<donor, stamp, root, cas, capture, receipts, projection, reader, events,
               held, attested, astray, handed, disputed>>

\* f with v at x.
Put(f, x, v) == [y \in DOMAIN f \union {x} |-> IF y = x THEN v ELSE f[y]]

Listed == {f \in Files : donor[f] # None}

Bytes(read) == FoldSet(LAMBDA f, n : n + Size[read[f]], 0, DOMAIN read)

Runs(step) == capture # None /\ capture.step = step

Scanning == capture # None /\ capture.step \in {"observe", "recheck", "confirm"}

Fail == capture' = None

\* What no step of a capture but the last touches.
Elsewhere == UNCHANGED <<donor, stamp, root, projection, reader, events, handed, disputed>>

Untouched == Elsewhere /\ UNCHANGED <<receipts, astray>>

-----------------------------------------------------------------------------
(* One scan of the source tree: capture_from_session. *)

NoFiles == [f \in {} |-> None]

Rescan(step) ==
    [capture EXCEPT !.step = step, !.listed = None, !.stamp = 0, !.read = NoFiles]

\* Both roots are pinned before anything is written.
OpenCapture ==
    /\ capture = None
    /\ events.captures < MaxCaptures
    /\ events' = [events EXCEPT !.captures = @ + 1]
    /\ capture' = [step |-> "observe", listed |-> None, stamp |-> 0, read |-> NoFiles,
                   pinned |-> root, envelope |-> None, staged |-> NoFiles,
                   installed |-> {}, checked |-> {}, swaps |-> 0]
    /\ held' = [f \in Files |-> {donor[f]}]
    /\ UNCHANGED <<donor, stamp, root, cas, receipts, projection, reader, attested, astray,
                   handed, disputed>>

ListDirectory ==
    /\ Scanning /\ capture.listed = None
    /\ capture' = [capture EXCEPT !.listed = Listed, !.stamp = stamp]
    /\ Untouched /\ UNCHANGED <<cas, held, attested>>

Unread == IF capture.listed = None THEN {} ELSE capture.listed \ DOMAIN capture.read

\* capture_file, in the order of the names and within the budget.
ReadFile ==
    /\ Scanning /\ Unread # {}
    /\ LET f == Min(Unread)
           read == Put(capture.read, f, donor[f])
       IN  IF /\ donor[f] # None
              /\ Cardinality(DOMAIN read) <= MaxFiles
              /\ Bytes(read) <= MaxBytes
           THEN capture' = [capture EXCEPT !.read = read]
           ELSE Fail
    /\ Untouched /\ UNCHANGED <<cas, held, attested>>

Scanned == Scanning /\ capture.listed # None /\ Unread = {}

\* The directory is what it was when it was listed, and after the first scan
\* the tree is the one of the envelope.
ScanAgrees ==
    /\ capture.stamp = stamp
    /\ capture.step # "observe" => capture.read = capture.envelope

\* After the first two scans the private path must still lead where it did; after
\* the last one it is SealReceipt that looks.
EndScan ==
    /\ Scanned
    /\ IF ~ScanAgrees \/ (root # capture.pinned /\ capture.step # "confirm")
       THEN Fail /\ UNCHANGED attested
       ELSE /\ capture' =
                   CASE capture.step = "observe" ->
                            [capture EXCEPT !.step = "stage", !.envelope = capture.read]
                     [] capture.step = "recheck" -> [capture EXCEPT !.step = "install"]
                     [] OTHER -> [capture EXCEPT !.step = "seal"]
            /\ attested' = IF capture.step = "recheck"
                           THEN attested \union {capture.envelope} ELSE attested
    /\ Untouched /\ UNCHANGED <<cas, held>>

-----------------------------------------------------------------------------
(* The rest of capture_to_vault. *)

\* What is copied is what the file holds now, and only kept if that is what the
\* envelope says.
CopyAgrees(f) == donor[f] = capture.envelope[f]

StageFile ==
    /\ Runs("stage")
    /\ LET rest == DOMAIN capture.envelope \ DOMAIN capture.staged
           f == Min(rest)
       IN  IF rest = {}
           THEN capture' = Rescan("recheck")
           ELSE IF root = capture.pinned /\ CopyAgrees(f)
                THEN capture' = [capture EXCEPT !.staged = Put(@, f, donor[f])]
                ELSE Fail
    /\ Untouched /\ UNCHANGED <<cas, held, attested>>

\* A content that is there already is read and compared.  The root is looked at
\* before each file, and before the last scan; where the path moves after that look,
\* the staged file is not found under it and nothing is installed.
InstallFile ==
    /\ Runs("install")
    /\ LET rest == DOMAIN capture.staged \ capture.installed
           f == Min(rest)
       IN  IF root # capture.pinned
           THEN Fail /\ UNCHANGED <<cas, held>>
           ELSE IF rest = {}
                THEN capture' = Rescan("confirm") /\ UNCHANGED <<cas, held>>
                ELSE /\ cas' = [cas EXCEPT ![root] = @ \union {capture.staged[f]}]
                     /\ capture' = [capture EXCEPT !.installed = @ \union {f}]
                     /\ held' = [x \in Files |-> {donor[x]}]
    /\ Untouched /\ UNCHANGED attested

\* The last time the pinned root is looked at.
SealReceipt ==
    /\ Runs("seal")
    /\ capture' = IF root = capture.pinned THEN [capture EXCEPT !.step = "verify"] ELSE None
    /\ Untouched /\ UNCHANGED <<cas, held, attested>>

Unchecked == DOMAIN capture.envelope \ capture.checked

\* CaptureReceipt::verify reads one object after the other, wherever the path leads.
CheckObject ==
    /\ Runs("verify") \/ Runs("persist")
    /\ Unchecked # {}
    /\ LET f == Min(Unchecked)
       IN  capture' = IF capture.envelope[f] \in cas[root]
                      THEN [capture EXCEPT !.checked = @ \union {f}] ELSE None
    /\ Untouched /\ UNCHANGED <<cas, held, attested>>

\* capture_to_vault returns a receipt that was verified.
ReturnReceipt ==
    /\ Runs("verify") /\ Unchecked = {}
    /\ capture' = [capture EXCEPT !.step = "returned"]
    /\ Untouched /\ UNCHANGED <<cas, held, attested>>

\* CaptureReceipt::persist verifies again, by the path alone, and then writes to
\* wherever the path leads by then.
Persist ==
    /\ Runs("returned")
    /\ capture' = [capture EXCEPT !.step = "persist", !.checked = {}, !.swaps = events.swaps]
    /\ Untouched /\ UNCHANGED <<cas, held, attested>>

WriteReceipt ==
    /\ Runs("persist") /\ Unchecked = {}
    /\ receipts' = [receipts EXCEPT ![root] = @ \union {capture.envelope}]
    /\ astray' = IF capture.swaps = events.swaps THEN astray
                 ELSE astray \union {<<root, capture.envelope>>}
    /\ Fail
    /\ Elsewhere /\ UNCHANGED <<cas, held, attested>>

-----------------------------------------------------------------------------
(* RetainedSourceAdapter::materialize. *)

\* CaptureReceipt::verify for a reader.
Verifies(envelope) == \A f \in DOMAIN envelope : envelope[f] \in cas[root]

Key(x) == <<root, x>>

ReaderRuns(r, step) == reader[r] # None /\ reader[r].step = step

ReaderAt(r, step) == reader' = [reader EXCEPT ![r].step = step]

VaultKept == UNCHANGED <<donor, stamp, root, cas, capture, receipts, events, held, attested,
                        astray>>

\* A projection that is there is compared and returned, or refused: never mended.
OpenProjection(r, x) ==
    /\ reader[r] = None
    /\ x \in receipts[root] /\ Verifies(x)
    /\ IF Key(x) \in DOMAIN projection
       THEN /\ handed' = IF projection[Key(x)] = x THEN handed \union {Key(x)} ELSE handed
            /\ UNCHANGED reader
       ELSE /\ reader' = [reader EXCEPT ![r] =
                             [receipt |-> x, placed |-> {}, step |-> "make"]]
            /\ UNCHANGED handed
    /\ VaultKept /\ UNCHANGED <<projection, disputed>>

\* Nothing tells the directory this reader made from one that was there.
MakeProjection(r) ==
    /\ ReaderRuns(r, "make")
    /\ LET key == Key(reader[r].receipt)
       IN  projection' = IF key \in DOMAIN projection THEN projection
                         ELSE Put(projection, key, NoFiles)
    /\ ReaderAt(r, "fill")
    /\ VaultKept /\ UNCHANGED <<handed, disputed>>

\* The parent directory is made again when it is gone.
PlaceFile(r) ==
    /\ ReaderRuns(r, "fill")
    /\ LET key == Key(reader[r].receipt)
           x == reader[r].receipt
           rest == DOMAIN x \ reader[r].placed
           f == Min(rest)
           there == IF key \in DOMAIN projection THEN projection[key] ELSE NoFiles
       IN  IF rest = {}
           THEN ReaderAt(r, "check") /\ UNCHANGED projection
           ELSE IF x[f] \notin cas[root]
                THEN ReaderAt(r, "remove") /\ UNCHANGED projection
                ELSE IF f \in DOMAIN there
                THEN ReaderAt(r, "remove") /\ UNCHANGED projection
                ELSE /\ projection' = Put(projection, key, Put(there, f, x[f]))
                     /\ reader' = [reader EXCEPT ![r].placed = @ \union {f}]
    /\ VaultKept /\ UNCHANGED <<handed, disputed>>

CheckProjection(r) ==
    /\ ReaderRuns(r, "check")
    /\ LET key == Key(reader[r].receipt)
       IN  IF key \in DOMAIN projection /\ projection[key] = reader[r].receipt
           THEN /\ handed' = handed \union {key}
                /\ reader' = [reader EXCEPT ![r] = None]
           ELSE ReaderAt(r, "remove") /\ UNCHANGED handed
    /\ VaultKept /\ UNCHANGED <<projection, disputed>>

\* remove_dir_all.
RemoveProjection(r) ==
    /\ ReaderRuns(r, "remove")
    /\ projection' = [k \in DOMAIN projection \ {Key(reader[r].receipt)} |-> projection[k]]
    /\ disputed' = disputed \union {Key(reader[r].receipt)}
    /\ reader' = [reader EXCEPT ![r] = None]
    /\ VaultKept /\ UNCHANGED handed

-----------------------------------------------------------------------------
(* The donor and the surroundings. *)

\* A file is written in place, or comes or goes.
DonorChanges(f, c) ==
    /\ events.changes < MaxChanges
    /\ c # donor[f]
    /\ events' = [events EXCEPT !.changes = @ + 1]
    /\ donor' = [donor EXCEPT ![f] = c]
    /\ stamp' = IF None \in {c, donor[f]} THEN stamp + 1 ELSE stamp
    /\ held' = [held EXCEPT ![f] = @ \union {c}]
    /\ UNCHANGED <<root, cas, capture, receipts, projection, reader, attested, astray,
                   handed, disputed>>

SwapRoot(d) ==
    /\ events.swaps < MaxSwaps
    /\ d # root
    /\ events' = [events EXCEPT !.swaps = @ + 1]
    /\ root' = d
    /\ UNCHANGED <<donor, stamp, cas, capture, receipts, projection, reader, held, attested,
                   astray, handed, disputed>>

KillCapture ==
    /\ capture # None
    /\ events.kills < MaxKills
    /\ events' = [events EXCEPT !.kills = @ + 1]
    /\ Fail
    /\ UNCHANGED <<donor, stamp, root, cas, receipts, projection, reader, held, attested,
                   astray, handed, disputed>>

KillReader(r) ==
    /\ reader[r] # None
    /\ events.kills < MaxKills
    /\ events' = [events EXCEPT !.kills = @ + 1]
    /\ reader' = [reader EXCEPT ![r] = None]
    /\ UNCHANGED <<donor, stamp, root, cas, capture, receipts, projection, held, attested,
                   astray, handed, disputed>>

VaultInit ==
    /\ donor \in [Files -> Contents]
    /\ stamp = 0 /\ root \in Roots
    /\ cas = [d \in Roots |-> {}] /\ receipts = [d \in Roots |-> {}]
    /\ capture = None /\ projection = NoFiles
    /\ reader = [r \in Readers |-> None]
    /\ events = [changes |-> 0, swaps |-> 0, kills |-> 0, captures |-> 0]
    /\ held = [f \in Files |-> {}]
    /\ attested = {} /\ astray = {} /\ handed = {} /\ disputed = {}

VaultNext ==
    \/ OpenCapture \/ ListDirectory \/ ReadFile \/ EndScan \/ StageFile \/ InstallFile
    \/ SealReceipt \/ CheckObject \/ ReturnReceipt \/ Persist \/ WriteReceipt
    \/ KillCapture
    \/ \E f \in Files, c \in Contents \union {None} : DonorChanges(f, c)
    \/ \E d \in Roots : SwapRoot(d)
    \/ \E r \in Readers :
           \/ \E x \in receipts[root] : OpenProjection(r, x)
           \/ MakeProjection(r) \/ PlaceFile(r) \/ CheckProjection(r)
           \/ RemoveProjection(r) \/ KillReader(r)

-----------------------------------------------------------------------------
Envelopes == UNION {[s -> Contents] : s \in SUBSET Files}

Captures ==
    [step : {"observe", "stage", "recheck", "install", "confirm", "seal", "verify",
             "returned", "persist"},
     listed : {None} \union SUBSET Files, stamp : Nat, read : Envelopes, pinned : Roots,
     envelope : {None} \union Envelopes, staged : Envelopes, installed : SUBSET Files,
     checked : SUBSET Files, swaps : Nat]

Materializations ==
    [receipt : Envelopes, placed : SUBSET Files,
     step : {"make", "fill", "check", "remove"}]

\* Names are numbers in their order; None stands for no value of any of these kinds.
VaultAssumption ==
    /\ Files \subseteq Nat
    /\ None \notin Captures \union Materializations
    /\ \A S \in SUBSET Files : S # None

VaultTypeOK ==
    /\ donor \in [Files -> Contents \union {None}]
    /\ stamp \in Nat /\ root \in Roots
    /\ cas \in [Roots -> SUBSET Contents]
    /\ receipts \in [Roots -> SUBSET Envelopes]
    /\ attested \subseteq Envelopes /\ astray \subseteq Roots \X Envelopes
    /\ events \in [changes : Nat, swaps : Nat, kills : Nat, captures : Nat]
    /\ DOMAIN projection \subseteq Roots \X Envelopes
    /\ capture \in {None} \union Captures
    /\ reader \in [Readers -> {None} \union Materializations]
    /\ handed \subseteq Roots \X Envelopes /\ disputed \subseteq Roots \X Envelopes

\* The store shows a content only when a whole tree that holds it had been
\* staged and seen again, and a receipt only names a tree that was attested and what
\* its store holds, wherever the path of the root has led before it was persisted.
\* A path that moves while it is persisted can lead it astray, to a root whose store
\* lacks its objects.
NothingShownEarly ==
    /\ \A d \in Roots : \A c \in cas[d] :
           \E x \in attested : \E f \in DOMAIN x : x[f] = c
    /\ \A d \in Roots : \A x \in receipts[d] :
           /\ x \in attested
           /\ <<d, x>> \notin astray => \A f \in DOMAIN x : x[f] \in cas[d]

\* When a capture is about to seal, every file held what its envelope says at
\* a moment after the store was written: what the donor changed meanwhile, or
\* took back again, cannot be sealed with a file that is missing or was not there.
SealsWhatWasThere ==
    Runs("seal") =>
        /\ capture.read = capture.envelope
        /\ \A f \in DOMAIN capture.envelope : capture.envelope[f] \in held[f]
        /\ \A f \in Files \ DOMAIN capture.envelope : None \in held[f]
        /\ capture.installed = DOMAIN capture.envelope

\* A projection that was handed out is whole, unless a reader that was building it
\* at the same time gave up and removed it: one that comes later never spoils it.
\* What stands under the name, then or made again, is never anything but files of
\* its receipt, so that a loss is all there is to notice for verify_materialized.
HandedOutStaysWhole ==
    /\ \A k \in handed \ disputed : k \in DOMAIN projection /\ projection[k] = k[2]
    /\ \A k \in DOMAIN projection : \A f \in DOMAIN projection[k] :
           f \in DOMAIN k[2] /\ projection[k][f] = k[2][f]
=============================================================================
