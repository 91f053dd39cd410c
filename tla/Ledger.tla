-------------------------------- MODULE Ledger --------------------------------
(***************************************************************************)
(* The event ledger (ledger.rs): under an advisory lock on a file of its own,  *)
(* an append reads the whole ledger, replaces it by one that is an event       *)
(* longer, reads it again and compares.  Hash chain and sequence numbers are   *)
(* the positions in the file.                                                  *)
(***************************************************************************)
EXTENDS PrivateFiles, SequencesExt

CONSTANTS
    LockPath, LedgerPath,
    Events,
    MaxEvents    \* MAX_LEDGER_BYTES, in events

VARIABLES
    task,        \* the append each process is in
    flocked,     \* the process that holds the lock of an inode
    begun,       \* history: events whose append was called
    acknowledged \* history: events whose append returned

lvars == <<task, flocked, begun, acknowledged>>
ledgerVars == <<fvars, lvars>>

Log == IF At(LedgerPath) = None THEN <<>> ELSE Reads(LedgerPath)

InAppend(p, phase) == task[p] # None /\ task[p].phase = phase

\* with_private_authority_lock makes sure that the file to lock is there.
BeginAppend(p, e) ==
    /\ task[p] = None /\ call[p] = None
    /\ e \notin begun
    /\ begun' = begun \union {e}
    /\ call' = [call EXCEPT ![p] = Ensure(LockPath, <<>>)]
    /\ task' = [task EXCEPT ![p] = [phase |-> "ensure", event |-> e, lock |-> None]]
    /\ UNCHANGED <<disk, seq, bounds, promised, orphans, flocked, acknowledged>>

OpenLock(p) ==
    /\ InAppend(p, "ensure") /\ Runs(p, "ok")
    /\ call' = [call EXCEPT ![p] = None]
    /\ task' = [task EXCEPT ![p] =
           IF At(LockPath) = None THEN None
           ELSE [@ EXCEPT !.phase = "lock", !.lock = At(LockPath)]]
    /\ UNCHANGED <<disk, seq, bounds, promised, orphans, flocked, begun, acknowledged>>

Flock(p) ==
    /\ InAppend(p, "lock")
    /\ flocked[task[p].lock] = None
    /\ flocked' = [flocked EXCEPT ![task[p].lock] = p]
    /\ task' = [task EXCEPT ![p].phase = "locked"]
    /\ UNCHANGED <<fvars, begun, acknowledged>>

Unlocked(p) == [i \in Inodes |-> IF flocked[i] = p THEN None ELSE flocked[i]]

\* What is there is read and verified as one chain; a ledger at its limit is
\* left alone.
ReadAndReplace(p) ==
    /\ InAppend(p, "locked") /\ call[p] = None
    /\ IF Len(Log) >= MaxEvents
       THEN /\ flocked' = Unlocked(p)
            /\ task' = [task EXCEPT ![p] = None]
            /\ UNCHANGED call
       ELSE /\ call' = [call EXCEPT ![p] =
                           Replace(LedgerPath, Append(Log, task[p].event))]
            /\ UNCHANGED <<flocked, task>>
    /\ UNCHANGED <<disk, seq, bounds, promised, orphans, begun, acknowledged>>

\* The ledger is read again and must be what was written.
CompareAndRelease(p) ==
    /\ InAppend(p, "locked") /\ Returned(p)
    /\ acknowledged' = IF Runs(p, "ok") /\ Log = call[p].bytes
                       THEN acknowledged \union {task[p].event} ELSE acknowledged
    /\ call' = [call EXCEPT ![p] = None]
    /\ task' = [task EXCEPT ![p] = None]
    /\ flocked' = Unlocked(p)
    /\ UNCHANGED <<disk, seq, bounds, promised, orphans, begun>>

LockFails(p) ==
    /\ InAppend(p, "ensure") /\ Runs(p, "error")
    /\ call' = [call EXCEPT ![p] = None]
    /\ task' = [task EXCEPT ![p] = None]
    /\ UNCHANGED <<disk, seq, bounds, promised, orphans, flocked, begun, acknowledged>>

\* The kernel releases the lock of a process that dies, in whatever step.
DieInAppend(p) ==
    /\ task[p] # None
    /\ task' = [task EXCEPT ![p] = None]
    /\ flocked' = Unlocked(p)
    /\ \/ Die(p)
       \/ /\ call[p] = None
          /\ deaths < MaxDeaths
          /\ deaths' = deaths + 1
          /\ seq' = [seq EXCEPT ![p] = 0]
          /\ UNCHANGED <<disk, call, outages, failures, promised, orphans>>
    /\ UNCHANGED <<begun, acknowledged>>

PowerFails ==
    /\ PowerFailure
    /\ task' = [p \in Procs |-> None]
    /\ flocked' = [i \in Inodes |-> None]
    /\ UNCHANGED <<begun, acknowledged>>

AppendNext ==
    \/ \E p \in Procs, e \in Events : BeginAppend(p, e)
    \/ \E p \in Procs :
           \/ OpenLock(p) \/ LockFails(p) \/ Flock(p)
           \/ ReadAndReplace(p) \/ CompareAndRelease(p)
           \/ task[p] # None /\ SystemCall(p) /\ UNCHANGED lvars
           \/ DieInAppend(p)
    \/ PowerFails

LedgerInit ==
    /\ task = [p \in Procs |-> None]
    /\ flocked = [i \in Inodes |-> None]
    /\ begun = {} /\ acknowledged = {}

Tasks ==
    [phase : {"ensure", "lock", "locked"}, event : Events, lock : Inodes \union {None}]

\* Events are told apart by numbers.
LedgerAssumption ==
    /\ Events \subseteq Nat /\ None \notin Tasks
    /\ LockPath \in Paths /\ LedgerPath \in Paths /\ LockPath # LedgerPath

LedgerTypeOK ==
    /\ FilesTypeOK
    /\ task \in [Procs -> {None} \union Tasks]
    /\ flocked \in [Inodes -> Procs \union {None}]
    /\ acknowledged \subseteq begun /\ begun \subseteq Events

\* The ledger is the log it promises to be: an append adds its event at the end
\* and nothing else, whoever dies or fails beside it, and an event its caller was
\* told about stays in its place whatever a power failure takes (append).
Promise == INSTANCE AppendLog WITH log <- Log

KeepsLog == Promise!Spec

\* Two appends never work on the ledger at once, whoever created the lock file.
OneAppends ==
    \A p, q \in Procs : InAppend(p, "locked") /\ InAppend(q, "locked") => p = q
=============================================================================
