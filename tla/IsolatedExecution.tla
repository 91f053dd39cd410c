--------------------------- MODULE IsolatedExecution ---------------------------
(***************************************************************************)
(* run_isolated (isolated_execution.rs): a program runs in a sandbox while two   *)
(* threads read what it prints, under one budget, and a monitor waits for its    *)
(* end, for the budget to be exceeded, or for the wall clock.  Threads, the       *)
(* program and the clock interleave between any two reads of shared state.        *)
(***************************************************************************)
EXTENDS Integers, FiniteSets

CONSTANTS
    Requests,       \* what may be asked: sizes, limits, required controls
    Chunk,          \* how much one read takes at most
    MaxPrinted,     \* bound on what the program prints on one stream
    None

VARIABLES
    request, monitor,       \* what is asked, and where the monitor is
    child,                  \* the sandboxed program
    printed, reader,        \* of each stream: what was written, and its thread
    claimed, overflow,      \* the atomics that the readers share
    late,                   \* the wall limit has elapsed
    result                  \* what run_isolated returned

IsolatedAssumption ==
    /\ \A q \in Requests : q.output \in Nat
    /\ Chunk \in Nat

isolated == <<request, monitor, child, printed, reader, claimed, overflow, late, result>>

Streams == {"stdout", "stderr"}
NoThread == [at |-> "none", holds |-> 0, taken |-> 0, bytes |-> 0, truncated |-> FALSE]
Smaller(x, y) == IF x < y THEN x ELSE y

IsolatedInit ==
    /\ request \in Requests
    /\ monitor = "validate"
    /\ child = [status |-> "none", reaped |-> FALSE, lost |-> FALSE]
    /\ printed = [s \in Streams |-> 0]
    /\ reader = [s \in Streams |-> NoThread]
    /\ claimed = 0 /\ overflow = FALSE /\ late = FALSE
    /\ result = None

Running == child.status = "running"

\* ChildGuard::kill_and_reap and its Drop: a child that has ended keeps its status.
Killed == IF Running THEN "killed" ELSE child.status
Reaped == [status |-> Killed, reaped |-> TRUE, lost |-> FALSE]

\* What the Drop of the guard leaves: it ignores a kill or a wait that the host
\* refuses, and the child is lost then, as it was or killed but not waited for.
Dropped ==
    {Reaped} \union
    {[status |-> status, reaped |-> FALSE, lost |-> TRUE] : status \in {child.status, Killed}}

-----------------------------------------------------------------------------
(* run_isolated, before the launch *)

\* IsolationLimits::validate
InRange(q) == q.output > 0 /\ q.staging =< q.space

\* validate_request: no control that the backend cannot give, and no more bytes
\* than the staging limit.
ValidRequest(q) ==
    /\ InRange(q)
    /\ q.requires = {}
    /\ q.program > 0
    /\ q.program + q.input =< q.staging
    /\ q.arguments

Proceed(at) ==
    /\ monitor' = at
    /\ UNCHANGED <<request, printed, reader, claimed, overflow, late, result>>

Refuse(error) ==
    /\ result' = [error |-> error]
    /\ monitor' = "returned"
    /\ UNCHANGED <<request, printed, reader, claimed, overflow, late>>

Validate ==
    /\ monitor = "validate"
    /\ IF ValidRequest(request) THEN Proceed("stage") ELSE Refuse("invalid")
    /\ UNCHANGED child

\* create_sealed_payload: a payload that cannot be written, sealed and read back
\* ends the call before anything runs.
Stage ==
    /\ monitor = "stage"
    /\ Proceed("launch") \/ Refuse("staging")
    /\ UNCHANGED child

\* A backend that is missing or cannot be launched is an error: nothing is run
\* without it.
Launch ==
    /\ monitor = "launch"
    /\ \/ Proceed("stdout") /\ child' = [child EXCEPT !.status = "running"]
       \/ Refuse("launch") /\ UNCHANGED child

\* spawn_bounded_reader, for one stream after the other: a failure drops the guard.
SpawnReader ==
    /\ monitor \in Streams
    /\ \/ /\ reader' = [reader EXCEPT ![monitor].at = "read"]
          /\ monitor' = IF monitor = "stdout" THEN "stderr" ELSE "overflow?"
          /\ UNCHANGED <<request, child, printed, claimed, overflow, late, result>>
       \/ Refuse("reader") /\ child' \in Dropped

-----------------------------------------------------------------------------
(* The program and the clock *)

WriteOut ==
    /\ Running
    /\ \E s \in Streams :
           /\ printed[s] < MaxPrinted
           /\ printed' = [printed EXCEPT ![s] = @ + 1]
    /\ UNCHANGED <<request, monitor, child, reader, claimed, overflow, late, result>>

End ==
    /\ Running
    /\ \E status \in {"success", "nonzero", "signaled"} :
           child' = [child EXCEPT !.status = status]
    /\ UNCHANGED <<request, monitor, printed, reader, claimed, overflow, late, result>>

Elapse ==
    /\ ~late /\ late' = TRUE
    /\ UNCHANGED <<request, monitor, child, printed, reader, claimed, overflow, result>>

-----------------------------------------------------------------------------
(* spawn_bounded_reader: the threads *)

\* One read takes what there is, up to the buffer, or finds the pipe closed.
Read(s) ==
    LET waiting == printed[s] - reader[s].taken
    IN  /\ reader[s].at = "read"
        /\ \/ \E count \in 1 .. Smaller(waiting, Chunk) :
                  reader' = [reader EXCEPT ![s].at = "claim", ![s].holds = count,
                                           ![s].taken = @ + count]
           \/ /\ waiting = 0 /\ ~Running
              /\ reader' = [reader EXCEPT ![s].at = "done"]
        /\ UNCHANGED <<request, monitor, child, printed, claimed, overflow, late, result>>

\* claim_output_budget: the exchange is retried until it takes the budget from
\* the value that it read.
Claim(s) ==
    LET retained == Smaller(request.output - claimed, reader[s].holds)
    IN  /\ reader[s].at = "claim"
        /\ claimed' = claimed + retained
        /\ reader' = [reader EXCEPT ![s].bytes = @ + retained, ![s].holds = 0,
                          ![s].truncated = @ \/ retained # reader[s].holds,
                          ![s].at = IF retained # reader[s].holds THEN "flag" ELSE "read"]
        /\ UNCHANGED <<request, monitor, child, printed, overflow, late, result>>

Flag(s) ==
    /\ reader[s].at = "flag"
    /\ overflow' = TRUE
    /\ reader' = [reader EXCEPT ![s].at = "read"]
    /\ UNCHANGED <<request, monitor, child, printed, claimed, late, result>>

-----------------------------------------------------------------------------
(* monitor_child *)

Watch(at) == monitor' = at /\ UNCHANGED child
Kill(at) == monitor' = at /\ child' = Reaped

\* A kill or a wait that fails ends the call, and the Drop tries both once more.
KillFails == Refuse("kill") /\ child' \in Dropped

CheckOverflow ==
    /\ monitor = "overflow?"
    /\ \/ /\ IF overflow THEN Kill("join_overflow") ELSE Watch("late?")
          /\ UNCHANGED <<request, printed, reader, claimed, overflow, late, result>>
       \/ overflow /\ KillFails

CheckClock ==
    /\ monitor = "late?"
    /\ \/ /\ IF late THEN Kill("join_timeout") ELSE Watch("ended?")
          /\ UNCHANGED <<request, printed, reader, claimed, overflow, late, result>>
       \/ late /\ KillFails

\* try_wait, which may fail too; the guard is dropped then.
TryWait ==
    /\ monitor = "ended?"
    /\ \/ /\ IF Running THEN Watch("overflow?") ELSE Kill("join_status")
          /\ UNCHANGED <<request, printed, reader, claimed, overflow, late, result>>
       \/ Refuse("wait") /\ child' \in Dropped

Joining == {"join_overflow", "join_timeout", "join_status"}
Joined == \A s \in Streams : reader[s].at = "done"

\* The termination that is told.
Termination ==
    CASE monitor = "join_overflow" -> "overflow"
      [] monitor = "join_timeout" -> "timeout"
      [] monitor = "join_status" /\ overflow -> "overflow"
      [] OTHER -> child.status

Report(termination) ==
    /\ result' = [termination |-> termination,
                  bytes |-> [s \in Streams |-> reader[s].bytes],
                  truncated |-> \E s \in Streams : reader[s].truncated]
    /\ monitor' = "returned"
    /\ UNCHANGED <<request, child, printed, reader, claimed, overflow, late>>

\* Mutant of ReportEnd: the status and the flag are looked at before the threads
\* are joined.
ReportUnjoined ==
    \/ monitor \in Joining /\ Report(Termination)
    \/ monitor \in Joining /\ Refuse("reader") /\ UNCHANGED child

\* Both threads are joined, and only then the flag is loaded; a thread may have
\* failed to read.
ReportEnd ==
    \/ monitor \in Joining /\ Joined /\ Report(Termination)
    \/ monitor \in Joining /\ Refuse("reader") /\ UNCHANGED child

IsolatedNext ==
    \/ Validate \/ Stage \/ Launch \/ SpawnReader \/ WriteOut \/ End \/ Elapse
    \/ \E s \in Streams : Read(s) \/ Claim(s) \/ Flag(s)
    \/ CheckOverflow \/ CheckClock \/ TryWait \/ ReportEnd

IsolatedSpec == IsolatedInit /\ [][IsolatedNext]_isolated

-----------------------------------------------------------------------------
(* Properties *)

Reported(terminations) ==
    result # None /\ "termination" \in DOMAIN result /\ result.termination \in terminations

\* A report of an end tells the whole of it: the program ended by itself in that
\* way and nothing that it printed, on either stream, is missing.  An overflow is
\* told only of a program that printed more than the budget, and a timeout only
\* of one that the clock overtook.
ReportIsTrue ==
    /\ Reported({"success", "nonzero", "signaled"}) =>
           /\ child.status = result.termination
           /\ result.bytes = printed /\ ~result.truncated
    /\ Reported({"overflow"}) => printed["stdout"] + printed["stderr"] > request.output
    /\ Reported({"timeout"}) => late
    /\ ~Reported({"killed"})

\* The two streams never keep more than the budget that they share.  A program
\* that the call reports of is never left running or unwaited for; when the call
\* fails, it is only if the host has refused the last kill or the wait after it.
NothingLeft ==
    /\ reader["stdout"].bytes + reader["stderr"].bytes = claimed
    /\ claimed =< request.output
    /\ result # None /\ child.status # "none" =>
           \/ child.reaped /\ ~Running
           \/ child.lost /\ "error" \in DOMAIN result
=============================================================================
