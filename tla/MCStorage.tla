------------------------------ MODULE MCStorage ------------------------------
(***************************************************************************)
(* The storage layers, one per behaviour: immutable files, files that are       *)
(* replaced or moved, the ledger, installed releases, and the content vault.    *)
(***************************************************************************)
EXTENDS Ledger

CONSTANTS
    a, b, h, l, j, s,                            \* paths
    Releases, MaxRevision, MaxKills,             \* releases
    Files, Contents, Size, MaxFiles, MaxBytes, Roots, Readers,
    MaxChanges, MaxSwaps, MaxCaptures            \* vault

VARIABLES
    part, calls,
    authority, activation, current, store, stage, command, kills,
    donor, stamp, root, cas, capture, receipts, projection, reader, events,
    held, attested, astray, handed, disputed

R == INSTANCE ReleaseInstallation
V == INSTANCE ContentVault

\* Each path is written in one way.
ASSUME Instances ==
    /\ R!ReleasesAssumption /\ V!VaultAssumption /\ LedgerAssumption
    /\ {a, b, h, s} \subseteq Paths /\ {1, 2} \subseteq Inodes
    /\ {a, LockPath} \intersect {h, LedgerPath, b, s} = {}
    /\ {h, LedgerPath} \intersect {b, s} = {}
    /\ b # s /\ h # LedgerPath

releaseVars == <<authority, activation, current, store, stage, command, kills>>

vaultVars == <<donor, stamp, root, cas, capture, receipts, projection, reader, events,
               held, attested, astray, handed, disputed>>

vars == <<part, calls, ledgerVars, releaseVars, vaultVars>>

Directories == [x \in Paths |-> IF x = b THEN "archive" ELSE "state"]

Immutables == {Ensure(a, <<1>>), Create(a, <<1>>), Create(a, <<2>>)}

Pointers == {Replace(h, <<3>>), Replace(h, <<4>>), Move(s, b, <<5>>)}

SizeOf == [c \in Contents |-> c]

Start(p, x) ==
    /\ call[p] = None \/ Returned(p)
    /\ calls < IF deaths + outages = 0 THEN 2 ELSE 3
    /\ calls' = calls + 1
    /\ call' = [call EXCEPT ![p] = x]
    /\ UNCHANGED <<disk, seq, bounds, promised, orphans>>

FilesNext ==
    \/ \E p \in Procs, x \in IF part = "immutables" THEN Immutables ELSE Pointers :
           Start(p, x)
    \/ \E p \in Procs : (SystemCall(p) \/ Die(p)) /\ UNCHANGED calls
    \/ PowerFailure /\ UNCHANGED calls

Init ==
    /\ part \in {"immutables", "pointers", "ledger", "releases", "vault"}
    /\ FilesInit(IF part = "pointers" THEN <<<<s, <<5>>>>, <<h, <<0>>>>>> ELSE <<>>)
    /\ LedgerInit
    /\ calls = 0
    /\ R!ReleasesInit
    /\ V!VaultInit
    /\ part # "vault" => root = Min(Roots) /\ \A f \in Files : donor[f] = Min(Contents)

Write == part \in {"immutables", "pointers"} /\ FilesNext
             /\ UNCHANGED <<part, lvars, releaseVars, vaultVars>>

Record == part = "ledger" /\ AppendNext /\ UNCHANGED <<part, calls, releaseVars, vaultVars>>

Release == part = "releases" /\ R!ReleasesNext
               /\ UNCHANGED <<part, calls, ledgerVars, vaultVars>>

Retain == part = "vault" /\ V!VaultNext /\ UNCHANGED <<part, calls, ledgerVars, releaseVars>>

Next == Write \/ Record \/ Release \/ Retain

Spec == Init /\ [][Next]_vars

\* Files appear whole or not at all, an immutable file is created by one caller
\* and stays, a file that is moved is never lost, only the dead leave temporary
\* names, and the lock of the ledger is held by one (authority.rs).  Nothing of a
\* vault is shown before all of it was seen twice, a receipt is sealed over what
\* was there, and nobody who comes later spoils a projection (content_vault.rs).
FilesSound ==
    /\ LedgerTypeOK
    /\ NothingTorn /\ PromisesKept /\ NoLitter /\ OneAppends
    /\ part = "pointers" => MoveKeeps(s, b, <<5>>)
    /\ V!VaultTypeOK
    /\ V!NothingShownEarly /\ V!SealsWhatWasThere /\ V!HandedOutStaysWhole

\* What is active and the way back from it are whole, wherever an installation,
\* an activation or a removal was killed (manage-release-installation.sh).
ReleasesRun == R!ReleasesTypeOK /\ R!AlwaysRunnable
=============================================================================
