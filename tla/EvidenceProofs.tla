---------------------------- MODULE EvidenceProofs ----------------------------
(***************************************************************************)
(* Proofs about what evidence is made of, for every choice of constants.   *)
(***************************************************************************)
EXTENDS MCEvidence, FiniteSetTheorems, TLAPS

-----------------------------------------------------------------------------
(* The isolated execution. *)

Ended == {"success", "nonzero", "signaled"}
Before == {"validate", "stage", "launch"}
Ongoing == {"stdout", "stderr", "overflow?", "late?", "ended?"}
Places == Before \union Ongoing \union Sandbox!Joining \union {"returned"}
Children == [status : {"none", "running", "killed"} \union Ended, reaped : BOOLEAN, lost : BOOLEAN]
Readers ==
    [at : {"none", "read", "claim", "flag", "done"}, holds : Nat,
     taken : Nat, bytes : Nat, truncated : BOOLEAN]

IsolatedTypes ==
    /\ request \in Sandboxed /\ monitor \in Places /\ child \in Children
    /\ printed \in [Sandbox!Streams -> Nat]
    /\ reader \in [Sandbox!Streams -> Readers]
    /\ claimed \in Nat /\ overflow \in BOOLEAN /\ late \in BOOLEAN

\* What a thread r has taken from a pipe, of what was printed, is kept, in its
\* buffer, or was cut off because the budget is spent.
ReaderFits(r, wrote, spent, flagged, open) ==
    /\ r.at # "claim" => r.holds = 0
    /\ r.truncated \/ r.taken = r.bytes + r.holds
    /\ r.truncated => /\ r.taken > r.bytes + r.holds
                      /\ spent
                      /\ flagged \/ r.at = "flag"
    /\ r.at = "flag" => r.truncated
    /\ r.at = "done" => r.taken = wrote /\ ~open
    /\ r.taken <= wrote
ReaderOK(s) ==
    ReaderFits(reader[s], printed[s], claimed = request.output, overflow, Sandbox!Running)

BudgetOK ==
    /\ claimed = reader["stdout"].bytes + reader["stderr"].bytes
    /\ claimed <= request.output
    /\ overflow => reader["stdout"].truncated \/ reader["stderr"].truncated

\* What each place of the monitor says of the threads and of the child.
Unspawned ==
    /\ monitor \in Before \union {"stdout"} => reader["stdout"] = Sandbox!NoThread
    /\ monitor \in Before \union Sandbox!Streams => reader["stderr"] = Sandbox!NoThread
Watched(m, c) ==
    /\ m \in Before => c.status = "none"
    /\ m \in Ongoing => c.status \in {"running"} \union Ended
    /\ m \in Sandbox!Joining => c.reaped = TRUE /\ c.status # "running"
    /\ m = "join_overflow" => overflow
    /\ m = "join_timeout" => late
    /\ m = "join_status" => c.status \in Ended
    /\ m = "returned" =>
           \/ c.status = "none"
           \/ c.reaped = TRUE /\ c.status # "running"
           \/ c.lost = TRUE /\ "error" \in DOMAIN result /\ "termination" \notin DOMAIN result
    /\ m = "returned" \/ result = None
MonitorOK == Watched(monitor, child)

\* The report of an end is made once, when the threads are done.
Told(termination) ==
    /\ Sandbox!Joined
    /\ monitor = "returned"
    /\ result.bytes = [s \in Sandbox!Streams |-> reader[s].bytes]
    /\ result.truncated = (\E s \in Sandbox!Streams : reader[s].truncated)
    /\ \/ termination \in Ended /\ child.status = termination /\ ~overflow
       \/ termination = "overflow" /\ overflow
       \/ termination = "timeout" /\ late

ReportOK == result # None /\ "termination" \in DOMAIN result => Told(result.termination)

IsolatedInv ==
    /\ IsolatedTypes
    /\ \A s \in Sandbox!Streams : ReaderOK(s)
    /\ BudgetOK /\ Unspawned /\ MonitorOK /\ ReportOK

LEMMA IsolatedStarts ==
    ASSUME Sandbox!IsolatedInit PROVE IsolatedInv
<1> USE DEF Sandbox!IsolatedInit, Sandbox!Streams, Before, Ongoing, Sandbox!Joining
<1>1. request.output \in Nat
    BY Trials DEF Sandbox!IsolatedAssumption
<1>2. IsolatedTypes
    BY DEF IsolatedTypes, Readers, Children, Places, Sandbox!NoThread
<1>3. \A s \in Sandbox!Streams : ReaderOK(s)
    BY DEF ReaderOK, ReaderFits, Sandbox!NoThread, Sandbox!Running
<1>4. BudgetOK
    BY <1>1 DEF BudgetOK, Sandbox!NoThread
<1>5. MonitorOK /\ Unspawned
    BY DEF MonitorOK, Watched, Unspawned
<1>6. ReportOK
    BY DEF ReportOK
<1> QED BY <1>2, <1>3, <1>4, <1>5, <1>6 DEF IsolatedInv

\* The monitor alone moves: the threads are left as they are, and a child that is
\* started finds none.
MonitorMoves == UNCHANGED <<request, printed, reader, claimed, overflow, late>>

LEMMA MonitorMovesOK ==
    ASSUME IsolatedInv, MonitorMoves,
           child' \in Children, monitor' \in Places,
           child'.status = "running" => child.status = "running" \/ monitor \in Before,
           monitor' \in Before => monitor \in Before,
           monitor' = "stdout" => monitor \in Before,
           monitor' \notin {"stderr"},
           MonitorOK', ReportOK'
    PROVE  IsolatedInv'
<1> USE DEF Sandbox!Streams
<1>1. /\ IsolatedTypes /\ \A t \in Sandbox!Streams : ReaderOK(t)
      /\ BudgetOK /\ Unspawned
    BY DEF IsolatedInv
<1>2. IsolatedTypes'
    BY <1>1 DEF IsolatedTypes, MonitorMoves
<1>3. ASSUME NEW t \in Sandbox!Streams PROVE ReaderOK(t)'
  <2>1. ReaderOK(t) /\ reader'[t] = reader[t] /\ printed'[t] = printed[t]
        /\ claimed' = claimed /\ request' = request /\ overflow' = overflow
      BY <1>1, <1>3 DEF MonitorMoves
  <2>2. CASE monitor \in Before
    <3>1. reader[t].at # "done"
        BY <1>1, <1>3, <2>2 DEF Unspawned, Sandbox!NoThread
    <3> QED BY <2>1, <3>1 DEF ReaderOK, ReaderFits
  <2>3. CASE monitor \notin Before
    <3>1. Sandbox!Running' => Sandbox!Running
        BY <2>3 DEF Sandbox!Running
    <3> QED BY <2>1, <3>1 DEF ReaderOK, ReaderFits
  <2> QED BY <2>2, <2>3
<1>4. BudgetOK'
    BY <1>1 DEF BudgetOK, MonitorMoves
<1>5. Unspawned'
    BY <1>1 DEF Unspawned, MonitorMoves
<1> QED BY <1>2, <1>3, <1>4, <1>5 DEF IsolatedInv

LEMMA ReapedIs ==
    ASSUME child \in Children
    PROVE  /\ Sandbox!Reaped \in Children /\ Sandbox!Reaped.reaped = TRUE
           /\ Sandbox!Reaped.status # "running"
           /\ child.status \in Ended => Sandbox!Reaped.status = child.status
<1>1. child.status \in {"none", "running", "killed"} \union Ended
    BY DEF Children
<1>2. CASE Sandbox!Running
    BY <1>1, <1>2 DEF Children, Ended, Sandbox!Reaped, Sandbox!Killed, Sandbox!Running
<1>3. CASE ~Sandbox!Running
    BY <1>1, <1>3 DEF Children, Ended, Sandbox!Reaped, Sandbox!Killed, Sandbox!Running
<1> QED BY <1>2, <1>3

LEMMA DroppedIs ==
    ASSUME child \in Children, NEW c \in Sandbox!Dropped
    PROVE  /\ c \in Children
           /\ c.status = "running" => child.status = "running"
           /\ \/ c.lost = TRUE
              \/ c.reaped = TRUE /\ c.status # "running"
<1>1. CASE c = Sandbox!Reaped
    BY <1>1, ReapedIs
<1>2. ASSUME NEW status \in {child.status, Sandbox!Killed},
             c = [status |-> status, reaped |-> FALSE, lost |-> TRUE]
      PROVE  /\ c \in Children /\ c.lost = TRUE
             /\ c.status = "running" => child.status = "running"
  <2>1. child.status \in {"none", "running", "killed"} \union Ended
      BY DEF Children
  <2>2. status \in {child.status, "killed"}
      BY <1>2 DEF Sandbox!Killed
  <2> QED BY <1>2, <2>1, <2>2 DEF Children
<1> QED BY <1>1, <1>2 DEF Sandbox!Dropped

\* A call that fails after the launch drops the guard.
LEMMA DroppedOK ==
    ASSUME IsolatedInv, monitor \in Ongoing, NEW error, Sandbox!Refuse(error),
           child' \in Sandbox!Dropped
    PROVE  IsolatedInv'
<1> USE DEF Before, Ongoing, Sandbox!Joining, Ended
<1>1. monitor \in Places /\ child \in Children
    BY DEF IsolatedInv, IsolatedTypes
<1>2. /\ child' \in Children
      /\ child'.status = "running" => child.status = "running"
      /\ \/ child'.lost = TRUE
         \/ child'.reaped = TRUE /\ child'.status # "running"
    BY <1>1, DroppedIs
<1>3. MonitorMoves /\ monitor' = "returned" /\ result' = [error |-> error]
    BY DEF MonitorMoves, Sandbox!Refuse
<1>4. "error" \in DOMAIN result' /\ "termination" \notin DOMAIN result'
    BY <1>3
<1>5. MonitorOK' /\ ReportOK'
    BY <1>2, <1>3, <1>4 DEF MonitorOK, Watched, ReportOK
<1> QED BY <1>2, <1>3, <1>5, MonitorMovesOK DEF Places

LEMMA ValidateKeeps ==
    ASSUME IsolatedInv, Sandbox!Validate PROVE IsolatedInv'
<1> USE DEF Before, Ongoing, Sandbox!Joining, Ended
<1>1. /\ monitor \in Places /\ child \in Children /\ child.status \in {"none", "running", "killed"} \union Ended
      /\ overflow \in BOOLEAN /\ late \in BOOLEAN /\ child.reaped \in BOOLEAN /\ MonitorOK /\ ReportOK
    BY DEF IsolatedInv, IsolatedTypes, Children
<1>0. /\ Sandbox!Reaped \in Children /\ Sandbox!Reaped.reaped = TRUE
      /\ Sandbox!Reaped.status # "running"
      /\ child.status \in Ended => Sandbox!Reaped.status = child.status
    BY <1>1, ReapedIs
<1>2. Sandbox!Validate
    OBVIOUS
<1>3. IsolatedInv'
  <2>1. MonitorMoves
      BY <1>2 DEF MonitorMoves, Sandbox!Validate, Sandbox!Proceed, Sandbox!Refuse
  <2>2. child' \in Children /\ monitor' \in Places
      BY <1>1, <1>2 DEF Children, Places, Sandbox!Validate, Sandbox!Proceed, Sandbox!Refuse
  <2>3. /\ child'.status = "running" => child.status = "running" \/ monitor \in Before
        /\ monitor' \in Before => monitor \in Before
        /\ monitor' = "stdout" => monitor \in Before
        /\ monitor' \notin {"stderr"}
      BY <1>1, <1>2 DEF Children, Sandbox!Validate, Sandbox!Proceed, Sandbox!Refuse
  <2>4. MonitorOK'
      BY <1>1, <1>2 DEF MonitorOK, Watched, Children, Sandbox!Validate, Sandbox!Proceed, Sandbox!Refuse
  <2>5. ReportOK'
      BY <1>1, <1>2 DEF MonitorOK, Watched, ReportOK, Told, Sandbox!Joined, Sandbox!Validate, Sandbox!Proceed, Sandbox!Refuse
  <2> QED BY <2>1, <2>2, <2>3, <2>4, <2>5, MonitorMovesOK
<1> QED BY <1>3

LEMMA StageKeeps ==
    ASSUME IsolatedInv, Sandbox!Stage PROVE IsolatedInv'
<1> USE DEF Before, Ongoing, Sandbox!Joining, Ended
<1>1. /\ monitor \in Places /\ child \in Children /\ child.status \in {"none", "running", "killed"} \union Ended
      /\ overflow \in BOOLEAN /\ late \in BOOLEAN /\ child.reaped \in BOOLEAN /\ MonitorOK /\ ReportOK
    BY DEF IsolatedInv, IsolatedTypes, Children
<1>0. /\ Sandbox!Reaped \in Children /\ Sandbox!Reaped.reaped = TRUE
      /\ Sandbox!Reaped.status # "running"
      /\ child.status \in Ended => Sandbox!Reaped.status = child.status
    BY <1>1, ReapedIs
<1>2. Sandbox!Stage
    OBVIOUS
<1>3. IsolatedInv'
  <2>1. MonitorMoves
      BY <1>2 DEF MonitorMoves, Sandbox!Stage, Sandbox!Proceed, Sandbox!Refuse
  <2>2. child' \in Children /\ monitor' \in Places
      BY <1>1, <1>2 DEF Children, Places, Sandbox!Stage, Sandbox!Proceed, Sandbox!Refuse
  <2>3. /\ child'.status = "running" => child.status = "running" \/ monitor \in Before
        /\ monitor' \in Before => monitor \in Before
        /\ monitor' = "stdout" => monitor \in Before
        /\ monitor' \notin {"stderr"}
      BY <1>1, <1>2 DEF Children, Sandbox!Stage, Sandbox!Proceed, Sandbox!Refuse
  <2>4. MonitorOK'
      BY <1>1, <1>2 DEF MonitorOK, Watched, Children, Sandbox!Stage, Sandbox!Proceed, Sandbox!Refuse
  <2>5. ReportOK'
      BY <1>1, <1>2 DEF MonitorOK, Watched, ReportOK, Told, Sandbox!Joined, Sandbox!Stage, Sandbox!Proceed, Sandbox!Refuse
  <2> QED BY <2>1, <2>2, <2>3, <2>4, <2>5, MonitorMovesOK
<1> QED BY <1>3

LEMMA LaunchKeeps ==
    ASSUME IsolatedInv, Sandbox!Launch PROVE IsolatedInv'
<1> USE DEF Before, Ongoing, Sandbox!Joining, Ended
<1>1. /\ monitor \in Places /\ child \in Children /\ child.status \in {"none", "running", "killed"} \union Ended
      /\ overflow \in BOOLEAN /\ late \in BOOLEAN /\ child.reaped \in BOOLEAN /\ MonitorOK /\ ReportOK
    BY DEF IsolatedInv, IsolatedTypes, Children
<1>0. /\ Sandbox!Reaped \in Children /\ Sandbox!Reaped.reaped = TRUE
      /\ Sandbox!Reaped.status # "running"
      /\ child.status \in Ended => Sandbox!Reaped.status = child.status
    BY <1>1, ReapedIs
<1>2. Sandbox!Launch
    OBVIOUS
<1>3. IsolatedInv'
  <2>1. MonitorMoves
      BY <1>2 DEF MonitorMoves, Sandbox!Launch, Sandbox!Proceed, Sandbox!Refuse
  <2>2. child' \in Children /\ monitor' \in Places
      BY <1>1, <1>2 DEF Children, Places, Sandbox!Launch, Sandbox!Proceed, Sandbox!Refuse
  <2>3. /\ child'.status = "running" => child.status = "running" \/ monitor \in Before
        /\ monitor' \in Before => monitor \in Before
        /\ monitor' = "stdout" => monitor \in Before
        /\ monitor' \notin {"stderr"}
      BY <1>1, <1>2 DEF Children, Sandbox!Launch, Sandbox!Proceed, Sandbox!Refuse
  <2>4. MonitorOK'
      BY <1>1, <1>2 DEF MonitorOK, Watched, Children, Sandbox!Launch, Sandbox!Proceed, Sandbox!Refuse
  <2>5. ReportOK'
      BY <1>1, <1>2 DEF MonitorOK, Watched, ReportOK, Told, Sandbox!Joined, Sandbox!Launch, Sandbox!Proceed, Sandbox!Refuse
  <2> QED BY <2>1, <2>2, <2>3, <2>4, <2>5, MonitorMovesOK
<1> QED BY <1>3

LEMMA CheckOverflowKeeps ==
    ASSUME IsolatedInv, Sandbox!CheckOverflow PROVE IsolatedInv'
<1> USE DEF Before, Ongoing, Sandbox!Joining, Ended
<1>1. /\ monitor \in Places /\ child \in Children /\ child.status \in {"none", "running", "killed"} \union Ended
      /\ overflow \in BOOLEAN /\ late \in BOOLEAN /\ child.reaped \in BOOLEAN /\ MonitorOK /\ ReportOK
    BY DEF IsolatedInv, IsolatedTypes, Children
<1>0. /\ Sandbox!Reaped \in Children /\ Sandbox!Reaped.reaped = TRUE
      /\ Sandbox!Reaped.status # "running"
      /\ child.status \in Ended => Sandbox!Reaped.status = child.status
    BY <1>1, ReapedIs
<1>2. Sandbox!CheckOverflow
    OBVIOUS
<1>3. CASE ~Sandbox!KillFails
  <2>0. /\ monitor = "overflow?" /\ UNCHANGED <<request, printed, reader, claimed, overflow, late, result>>
        /\ \/ overflow /\ monitor' = "join_overflow" /\ child' = Sandbox!Reaped
           \/ monitor' = "late?" /\ child' = child
    <3>1. CASE overflow = TRUE
        BY <1>2, <1>3, <3>1 DEF Sandbox!CheckOverflow, Sandbox!Kill, Sandbox!KillFails
    <3>2. CASE overflow = FALSE
        BY <1>2, <1>3, <3>2 DEF Sandbox!CheckOverflow, Sandbox!Watch
    <3> QED BY <1>1, <3>1, <3>2
  <2>1. MonitorMoves
      BY <2>0 DEF MonitorMoves
  <2>2. child' \in Children /\ monitor' \in Places
      BY <1>1, <1>0, <2>0 DEF Places
  <2>3. /\ child'.status = "running" => child.status = "running" \/ monitor \in Before
        /\ monitor' \in Before => monitor \in Before
        /\ monitor' = "stdout" => monitor \in Before
        /\ monitor' \notin {"stderr"}
      BY <1>1, <1>0, <2>0 DEF Places
  <2>4. MonitorOK'
    <3>1. result' = None /\ child.status \in {"running"} \union Ended
        BY <1>1, <2>0 DEF MonitorOK, Watched
    <3>2. CASE child' = Sandbox!Reaped /\ overflow' /\ monitor' = "join_overflow"
      <4>1. child'.reaped = TRUE /\ child'.status # "running"
          BY <1>0, <3>2
      <4> QED BY <3>1, <3>2, <4>1 DEF MonitorOK, Watched
    <3>3. CASE monitor' = "late?" /\ child' = child
        BY <3>1, <3>3 DEF MonitorOK, Watched
    <3> QED BY <2>0, <3>2, <3>3
  <2>5. ReportOK'
      BY <1>1, <1>0, <2>0 DEF MonitorOK, Watched, ReportOK, Told, Sandbox!Joined
  <2> QED BY <2>1, <2>2, <2>3, <2>4, <2>5, MonitorMovesOK
<1>4. CASE Sandbox!KillFails
  <2>1. monitor \in Ongoing
      BY <1>2 DEF Sandbox!CheckOverflow
  <2> QED BY <1>4, <2>1, DroppedOK DEF Sandbox!KillFails
<1> QED BY <1>3, <1>4

LEMMA CheckClockKeeps ==
    ASSUME IsolatedInv, Sandbox!CheckClock PROVE IsolatedInv'
<1> USE DEF Before, Ongoing, Sandbox!Joining, Ended
<1>1. /\ monitor \in Places /\ child \in Children /\ child.status \in {"none", "running", "killed"} \union Ended
      /\ overflow \in BOOLEAN /\ late \in BOOLEAN /\ child.reaped \in BOOLEAN /\ MonitorOK /\ ReportOK
    BY DEF IsolatedInv, IsolatedTypes, Children
<1>0. /\ Sandbox!Reaped \in Children /\ Sandbox!Reaped.reaped = TRUE
      /\ Sandbox!Reaped.status # "running"
      /\ child.status \in Ended => Sandbox!Reaped.status = child.status
    BY <1>1, ReapedIs
<1>2. Sandbox!CheckClock
    OBVIOUS
<1>3. CASE ~Sandbox!KillFails
  <2>0. /\ monitor = "late?" /\ UNCHANGED <<request, printed, reader, claimed, overflow, late, result>>
        /\ \/ late /\ monitor' = "join_timeout" /\ child' = Sandbox!Reaped
           \/ monitor' = "ended?" /\ child' = child
    <3>1. CASE late = TRUE
        BY <1>2, <1>3, <3>1 DEF Sandbox!CheckClock, Sandbox!Kill, Sandbox!KillFails
    <3>2. CASE late = FALSE
        BY <1>2, <1>3, <3>2 DEF Sandbox!CheckClock, Sandbox!Watch
    <3> QED BY <1>1, <3>1, <3>2
  <2>1. MonitorMoves
      BY <2>0 DEF MonitorMoves
  <2>2. child' \in Children /\ monitor' \in Places
      BY <1>1, <1>0, <2>0 DEF Places
  <2>3. /\ child'.status = "running" => child.status = "running" \/ monitor \in Before
        /\ monitor' \in Before => monitor \in Before
        /\ monitor' = "stdout" => monitor \in Before
        /\ monitor' \notin {"stderr"}
      BY <1>1, <1>0, <2>0 DEF Places
  <2>4. MonitorOK'
    <3>1. result' = None /\ child.status \in {"running"} \union Ended
        BY <1>1, <2>0 DEF MonitorOK, Watched
    <3>2. CASE child' = Sandbox!Reaped /\ late' /\ monitor' = "join_timeout"
      <4>1. child'.reaped = TRUE /\ child'.status # "running"
          BY <1>0, <3>2
      <4> QED BY <3>1, <3>2, <4>1 DEF MonitorOK, Watched
    <3>3. CASE monitor' = "ended?" /\ child' = child
        BY <3>1, <3>3 DEF MonitorOK, Watched
    <3> QED BY <2>0, <3>2, <3>3
  <2>5. ReportOK'
      BY <1>1, <1>0, <2>0 DEF MonitorOK, Watched, ReportOK, Told, Sandbox!Joined
  <2> QED BY <2>1, <2>2, <2>3, <2>4, <2>5, MonitorMovesOK
<1>4. CASE Sandbox!KillFails
  <2>1. monitor \in Ongoing
      BY <1>2 DEF Sandbox!CheckClock
  <2> QED BY <1>4, <2>1, DroppedOK DEF Sandbox!KillFails
<1> QED BY <1>3, <1>4

LEMMA TryWaitKeeps ==
    ASSUME IsolatedInv, Sandbox!TryWait PROVE IsolatedInv'
<1> USE DEF Before, Ongoing, Sandbox!Joining, Ended
<1>1. /\ monitor \in Places /\ child \in Children /\ child.status \in {"none", "running", "killed"} \union Ended
      /\ overflow \in BOOLEAN /\ late \in BOOLEAN /\ child.reaped \in BOOLEAN /\ MonitorOK /\ ReportOK
    BY DEF IsolatedInv, IsolatedTypes, Children
<1>0. /\ Sandbox!Reaped \in Children /\ Sandbox!Reaped.reaped = TRUE
      /\ Sandbox!Reaped.status # "running"
      /\ child.status \in Ended => Sandbox!Reaped.status = child.status
    BY <1>1, ReapedIs
<1>2. Sandbox!TryWait
    OBVIOUS
<1>3. CASE ~(Sandbox!Refuse("wait") /\ child' \in Sandbox!Dropped)
  <2>0. /\ monitor = "ended?" /\ UNCHANGED <<request, printed, reader, claimed, overflow, late, result>>
        /\ \/ monitor' = "overflow?" /\ child' = child
           \/ child.status # "running" /\ monitor' = "join_status" /\ child' = Sandbox!Reaped
      BY <1>2, <1>3 DEF Sandbox!TryWait, Sandbox!Kill, Sandbox!Watch, Sandbox!Running
  <2>1. MonitorMoves
      BY <2>0 DEF MonitorMoves
  <2>2. child' \in Children /\ monitor' \in Places
      BY <1>1, <1>0, <2>0 DEF Places
  <2>3. /\ child'.status = "running" => child.status = "running" \/ monitor \in Before
        /\ monitor' \in Before => monitor \in Before
        /\ monitor' = "stdout" => monitor \in Before
        /\ monitor' \notin {"stderr"}
      BY <1>1, <1>0, <2>0 DEF Places
  <2>4. MonitorOK'
      BY <1>1, <1>0, <2>0 DEF MonitorOK, Watched
  <2>5. ReportOK'
      BY <1>1, <2>0 DEF MonitorOK, Watched, ReportOK
  <2> QED BY <2>1, <2>2, <2>3, <2>4, <2>5, MonitorMovesOK
<1>4. CASE Sandbox!Refuse("wait") /\ child' \in Sandbox!Dropped
  <2>1. monitor \in Ongoing
      BY <1>2 DEF Sandbox!TryWait
  <2> QED BY <1>4, <2>1, DroppedOK
<1> QED BY <1>3, <1>4

LEMMA ReportEndKeeps ==
    ASSUME IsolatedInv, Sandbox!ReportEnd PROVE IsolatedInv'
<1> USE DEF Before, Ongoing, Sandbox!Joining, Ended
<1>1. /\ monitor \in Places /\ child \in Children /\ child.status \in {"none", "running", "killed"} \union Ended
      /\ overflow \in BOOLEAN /\ late \in BOOLEAN /\ child.reaped \in BOOLEAN /\ MonitorOK /\ ReportOK
    BY DEF IsolatedInv, IsolatedTypes, Children
<1>0. /\ Sandbox!Reaped \in Children /\ Sandbox!Reaped.reaped = TRUE
      /\ Sandbox!Reaped.status # "running"
      /\ child.status \in Ended => Sandbox!Reaped.status = child.status
    BY <1>1, ReapedIs
<1>2. Sandbox!ReportEnd
    OBVIOUS
<1>3. IsolatedInv'
  <2>1. MonitorMoves
      BY <1>2 DEF MonitorMoves, Sandbox!ReportEnd, Sandbox!Report, Sandbox!Termination, Sandbox!Refuse
  <2>2. child' \in Children /\ monitor' \in Places
      BY <1>1, <1>2 DEF Children, Places, Sandbox!ReportEnd, Sandbox!Report, Sandbox!Termination, Sandbox!Refuse
  <2>3. /\ child'.status = "running" => child.status = "running" \/ monitor \in Before
        /\ monitor' \in Before => monitor \in Before
        /\ monitor' = "stdout" => monitor \in Before
        /\ monitor' \notin {"stderr"}
      BY <1>1, <1>2 DEF Children, Sandbox!ReportEnd, Sandbox!Report, Sandbox!Termination, Sandbox!Refuse
  <2>4. MonitorOK'
      BY <1>1, <1>2 DEF MonitorOK, Watched, Children, Sandbox!ReportEnd, Sandbox!Report, Sandbox!Termination, Sandbox!Refuse
  <2>5. ReportOK'
    <3>1. CASE Sandbox!Refuse("reader")
      <4>1. result' = [error |-> "reader"] /\ "termination" \notin DOMAIN [error |-> "reader"]
          BY <3>1 DEF Sandbox!Refuse
      <4> QED BY <4>1 DEF ReportOK
    <3>2. CASE monitor \in Sandbox!Joining /\ Sandbox!Joined /\ Sandbox!Report(Sandbox!Termination)
      <4>1. /\ Sandbox!Joined' /\ monitor' = "returned"
            /\ reader' = reader /\ child' = child /\ overflow' = overflow /\ late' = late
          BY <3>2 DEF Sandbox!Report, Sandbox!Joined
      <4>2. /\ result'.termination = Sandbox!Termination
            /\ result'.bytes = [s \in Sandbox!Streams |-> reader'[s].bytes]
            /\ result'.truncated = (\E s \in Sandbox!Streams : reader'[s].truncated)
          BY <3>2, <4>1 DEF Sandbox!Report
      <4>3. \/ Sandbox!Termination \in Ended /\ child.status = Sandbox!Termination /\ ~overflow
            \/ Sandbox!Termination = "overflow" /\ overflow
            \/ Sandbox!Termination = "timeout" /\ late
        <5>1. CASE monitor = "join_overflow"
            BY <1>1, <5>1 DEF Sandbox!Termination, MonitorOK, Watched
        <5>2. CASE monitor = "join_timeout"
            BY <1>1, <5>2 DEF Sandbox!Termination, MonitorOK, Watched
        <5>3. CASE monitor = "join_status"
            BY <1>1, <5>3 DEF Sandbox!Termination, MonitorOK, Watched
        <5> QED BY <3>2, <5>1, <5>2, <5>3
      <4> QED BY <4>1, <4>2, <4>3 DEF ReportOK, Told
    <3> QED BY <1>2, <3>1, <3>2 DEF Sandbox!ReportEnd
  <2> QED BY <2>1, <2>2, <2>3, <2>4, <2>5, MonitorMovesOK
<1> QED BY <1>3

LEMMA IsolatedMonitors ==
    ASSUME IsolatedInv,
           \/ Sandbox!Validate \/ Sandbox!Stage \/ Sandbox!Launch
           \/ Sandbox!CheckOverflow \/ Sandbox!CheckClock \/ Sandbox!TryWait \/ Sandbox!ReportEnd
    PROVE  IsolatedInv'
BY ValidateKeeps, StageKeeps, LaunchKeeps, CheckOverflowKeeps, CheckClockKeeps, TryWaitKeeps, ReportEndKeeps

\* A thread that is at work moves, alone.
LEMMA ReaderMovesOK ==
    ASSUME IsolatedInv, NEW s \in Sandbox!Streams, NEW r \in Readers,
           UNCHANGED <<request, monitor, child, printed, late, result>>,
           reader' = [reader EXCEPT ![s] = r],
           reader[s].at \notin {"none", "done"},
           claimed' \in Nat, claimed' + reader[s].bytes = claimed + r.bytes,
           claimed' <= request.output,
           claimed = request.output => claimed' = request.output,
           overflow' \in BOOLEAN, overflow => overflow', overflow' => overflow \/ r.truncated,
           reader[s].truncated => r.truncated,
           ReaderFits(r, printed[s], claimed' = request.output, overflow', Sandbox!Running)
    PROVE  IsolatedInv'
<1> USE DEF Sandbox!Streams
<1>1. /\ IsolatedTypes /\ \A t \in Sandbox!Streams : ReaderOK(t)
      /\ BudgetOK /\ Unspawned /\ MonitorOK /\ ReportOK
    BY DEF IsolatedInv
<1>2. /\ reader'[s] = r /\ \A t \in Sandbox!Streams \ {s} : reader'[t] = reader[t]
      /\ \A t \in Sandbox!Streams : reader[t] \in Readers
    BY <1>1 DEF IsolatedTypes
<1>3. IsolatedTypes'
    BY <1>1 DEF IsolatedTypes
<1>4. ASSUME NEW t \in Sandbox!Streams PROVE ReaderOK(t)'
  <2>1. CASE t = s
      BY <1>2, <2>1 DEF ReaderOK, Sandbox!Running
  <2>2. CASE t # s
    <3>1. ReaderOK(t) /\ reader'[t] = reader[t] /\ printed' = printed /\ request' = request
          /\ child' = child
        BY <1>1, <1>2, <2>2
    <3> QED BY <3>1 DEF ReaderOK, ReaderFits, Sandbox!Running
  <2> QED BY <2>1, <2>2
<1>5. BudgetOK'
  <2>1. /\ \A t \in Sandbox!Streams : reader[t].bytes \in Nat
        /\ r.bytes \in Nat /\ claimed \in Nat
      BY <1>1, <1>2 DEF IsolatedTypes, Readers
  <2>2. claimed' = reader'["stdout"].bytes + reader'["stderr"].bytes
    <3> DEFINE o == reader["stdout"].bytes
               e == reader["stderr"].bytes
    <3>0. claimed = o + e
        BY <1>1 DEF BudgetOK
    <3>1. CASE s = "stdout"
      <4>1. reader'["stdout"].bytes = r.bytes /\ reader'["stderr"].bytes = e
          BY <1>2, <3>1
      <4>2. claimed' + o = claimed + r.bytes /\ o \in Nat /\ e \in Nat
          BY <2>1, <3>1
      <4> QED BY <2>1, <3>0, <4>1, <4>2
    <3>2. CASE s = "stderr"
      <4>1. reader'["stderr"].bytes = r.bytes /\ reader'["stdout"].bytes = o
          BY <1>2, <3>2
      <4>2. claimed' + e = claimed + r.bytes /\ o \in Nat /\ e \in Nat
          BY <2>1, <3>2
      <4> QED BY <2>1, <3>0, <4>1, <4>2
    <3> QED BY <3>1, <3>2
  <2>3. overflow' => reader'["stdout"].truncated \/ reader'["stderr"].truncated
    <3>1. CASE s = "stdout"
        BY <1>1, <1>2, <3>1 DEF BudgetOK
    <3>2. CASE s = "stderr"
        BY <1>1, <1>2, <3>2 DEF BudgetOK
    <3> QED BY <3>1, <3>2
  <2> QED BY <2>2, <2>3 DEF BudgetOK
<1>6. Unspawned'
  <2>1. reader[s] # Sandbox!NoThread
      BY DEF Sandbox!NoThread
  <2> QED BY <1>1, <1>2, <2>1 DEF Unspawned
<1>7. MonitorOK'
    BY <1>1 DEF MonitorOK, Watched
<1>8. ReportOK'
  <2>1. ~Sandbox!Joined
      BY DEF Sandbox!Joined
  <2>2. result = None \/ "termination" \notin DOMAIN result
      BY <1>1, <2>1 DEF ReportOK, Told
  <2> QED BY <2>2 DEF ReportOK
<1> QED BY <1>3, <1>4, <1>5, <1>6, <1>7, <1>8 DEF IsolatedInv

LEMMA IsolatedReads ==
    ASSUME IsolatedInv, NEW s \in Sandbox!Streams,
           Sandbox!Read(s) \/ Sandbox!Claim(s) \/ Sandbox!Flag(s)
    PROVE  IsolatedInv'
<1>1. /\ request.output \in Nat /\ Chunk \in Nat /\ claimed \in Nat /\ printed[s] \in Nat
      /\ reader[s] \in Readers /\ reader \in [Sandbox!Streams -> Readers]
      /\ overflow \in BOOLEAN /\ claimed <= request.output
      /\ ReaderOK(s)
    BY Trials DEF Sandbox!IsolatedAssumption, IsolatedInv, IsolatedTypes, BudgetOK
<1>2. /\ reader[s].holds \in Nat /\ reader[s].taken \in Nat /\ reader[s].bytes \in Nat
      /\ reader[s].truncated \in BOOLEAN
    BY <1>1 DEF Readers
<1>3. CASE Sandbox!Read(s)
  <2> DEFINE waiting == printed[s] - reader[s].taken
  <2>1. reader[s].at = "read" /\ reader[s].holds = 0
        /\ UNCHANGED <<request, monitor, child, printed, claimed, overflow, late, result>>
      BY <1>1, <1>3 DEF Sandbox!Read, ReaderOK, ReaderFits
  <2>2. ASSUME NEW count \in 1 .. Sandbox!Smaller(waiting, Chunk),
               reader' = [reader EXCEPT ![s].at = "claim", ![s].holds = count, ![s].taken = @ + count]
        PROVE  IsolatedInv'
    <3> DEFINE r == [reader[s] EXCEPT !.at = "claim", !.holds = count, !.taken = @ + count]
    <3>1. reader' = [reader EXCEPT ![s] = r]
        BY <1>1, <2>2
    <3>2. count \in Nat /\ count > 0 /\ reader[s].taken + count <= printed[s]
        BY <1>1, <1>2 DEF Sandbox!Smaller
    <3>0. reader[s].taken + count \in Nat
        BY <1>2, <3>2
    <3>3. /\ r \in Readers /\ r.at = "claim" /\ r.holds = count /\ r.taken = reader[s].taken + count
          /\ r.bytes = reader[s].bytes /\ r.truncated = reader[s].truncated
      <4> HIDE <2>1, <2>2
      <4> QED BY <1>1, <3>0, <3>2 DEF Readers
    <3> HIDE DEF r
    <3>4. ReaderFits(r, printed[s], claimed' = request.output, overflow', Sandbox!Running)
        BY <1>1, <1>2, <2>1, <3>2, <3>3 DEF ReaderOK, ReaderFits
    <3> QED BY <1>1, <1>2, <2>1, <3>1, <3>3, <3>4, ReaderMovesOK
  <2>3. ASSUME waiting = 0, ~Sandbox!Running, reader' = [reader EXCEPT ![s].at = "done"]
        PROVE  IsolatedInv'
    <3> DEFINE r == [reader[s] EXCEPT !.at = "done"]
    <3>1. reader' = [reader EXCEPT ![s] = r]
        BY <1>1, <2>3
    <3>2. /\ r \in Readers /\ r.at = "done" /\ r.holds = 0 /\ r.taken = reader[s].taken
          /\ r.bytes = reader[s].bytes /\ r.truncated = reader[s].truncated
          /\ reader[s].taken = printed[s]
        BY <1>1, <1>2, <2>1, <2>3 DEF Readers
    <3> HIDE DEF r
    <3>3. ReaderFits(r, printed[s], claimed' = request.output, overflow', Sandbox!Running)
        BY <1>1, <1>2, <2>1, <2>3, <3>2 DEF ReaderOK, ReaderFits
    <3> QED BY <1>1, <1>2, <2>1, <3>1, <3>2, <3>3, ReaderMovesOK
  <2> QED BY <1>3, <2>2, <2>3 DEF Sandbox!Read
<1>4. CASE Sandbox!Claim(s)
  <2> DEFINE retained_ == Sandbox!Smaller(request.output - claimed, reader[s].holds)
             cut == retained_ # reader[s].holds
             r == [reader[s] EXCEPT !.bytes = @ + retained_, !.holds = 0, !.truncated = @ \/ cut,
                                    !.at = IF cut THEN "flag" ELSE "read"]
  <2>1. /\ reader[s].at = "claim" /\ claimed' = claimed + retained_
        /\ UNCHANGED <<request, monitor, child, printed, overflow, late, result>>
        /\ reader' = [reader EXCEPT ![s] = r]
      BY <1>1, <1>4 DEF Sandbox!Claim
  <2>2. /\ retained_ \in Nat /\ retained_ <= reader[s].holds /\ claimed + retained_ <= request.output
        /\ cut => retained_ < reader[s].holds /\ claimed + retained_ = request.output
        /\ claimed = request.output => retained_ = 0
      BY <1>1, <1>2 DEF Sandbox!Smaller
  <2> HIDE DEF retained_
  <2>3. /\ r \in Readers /\ r.holds = 0 /\ r.taken = reader[s].taken
        /\ r.bytes = reader[s].bytes + retained_
        /\ cut => r.truncated /\ r.at = "flag"
        /\ ~cut => r.truncated = reader[s].truncated /\ r.at = "read"
    <3>0. reader[s].bytes + retained_ \in Nat
        BY <1>2, <2>2
    <3>1. CASE cut
      <4>1. r = [reader[s] EXCEPT !.bytes = @ + retained_, !.holds = 0, !.truncated = TRUE, !.at = "flag"]
          BY <3>1
      <4> HIDE DEF r
      <4> QED BY <1>1, <3>0, <3>1, <4>1 DEF Readers
    <3>2. CASE ~cut
      <4>1. (reader[s].truncated \/ cut) = reader[s].truncated
          BY <1>2, <3>2
      <4>2. r = [reader[s] EXCEPT !.bytes = @ + retained_, !.holds = 0, !.at = "read",
                                  !.truncated = reader[s].truncated]
          BY <3>2, <4>1
      <4> HIDE DEF r
      <4> QED BY <1>1, <1>2, <3>0, <3>2, <4>2 DEF Readers
    <3> QED BY <3>1, <3>2
  <2> HIDE DEF r
  <2>4. ReaderFits(r, printed[s], claimed' = request.output, overflow', Sandbox!Running)
    <3>1. CASE cut
        BY <1>1, <1>2, <2>1, <2>2, <2>3, <3>1 DEF ReaderOK, ReaderFits
    <3>2. CASE ~cut
        BY <1>1, <1>2, <2>1, <2>2, <2>3, <3>2 DEF ReaderOK, ReaderFits
    <3> QED BY <3>1, <3>2
  <2>5. claimed' \in Nat /\ claimed' + reader[s].bytes = claimed + r.bytes /\ claimed' <= request.output
        /\ (claimed = request.output => claimed' = request.output)
    <3>1. claimed' + reader[s].bytes = claimed + r.bytes
      <4>1. claimed' = claimed + retained_ /\ r.bytes = reader[s].bytes + retained_
          BY <2>1, <2>3
      <4> QED BY <1>1, <1>2, <2>2, <4>1
    <3> QED BY <1>1, <2>1, <2>2, <3>1
  <2> QED BY <1>1, <1>2, <2>1, <2>3, <2>4, <2>5, ReaderMovesOK
<1>5. CASE Sandbox!Flag(s)
  <2> DEFINE r == [reader[s] EXCEPT !.at = "read"]
  <2>1. /\ reader[s].at = "flag" /\ overflow' = TRUE
        /\ UNCHANGED <<request, monitor, child, printed, claimed, late, result>>
        /\ reader' = [reader EXCEPT ![s] = r]
      BY <1>1, <1>5 DEF Sandbox!Flag
  <2>2. /\ r \in Readers /\ r.holds = reader[s].holds /\ r.taken = reader[s].taken /\ r.at = "read"
        /\ r.bytes = reader[s].bytes /\ r.truncated = reader[s].truncated
      BY <1>1, <1>2 DEF Readers
  <2> HIDE DEF r
  <2>3. reader[s].truncated
      BY <1>1, <2>1 DEF ReaderOK, ReaderFits
  <2>4. ReaderFits(r, printed[s], claimed' = request.output, overflow', Sandbox!Running)
      BY <1>1, <1>2, <2>1, <2>2 DEF ReaderOK, ReaderFits
  <2> QED BY <1>1, <1>2, <2>1, <2>2, <2>3, <2>4, ReaderMovesOK
<1> QED BY <1>3, <1>4, <1>5

LEMMA IsolatedSpawns ==
    ASSUME IsolatedInv, Sandbox!SpawnReader PROVE IsolatedInv'
<1> USE DEF Sandbox!Streams, Before, Ongoing, Sandbox!Joining, Ended
<1>1. /\ IsolatedTypes /\ \A t \in Sandbox!Streams : ReaderOK(t)
      /\ BudgetOK /\ Unspawned /\ MonitorOK /\ ReportOK
    BY DEF IsolatedInv
<1>2. monitor \in Sandbox!Streams /\ child \in Children
    BY <1>1 DEF Sandbox!SpawnReader, IsolatedTypes
<1>3. CASE Sandbox!Refuse("reader") /\ child' \in Sandbox!Dropped
    BY <1>2, <1>3, DroppedOK
<1>4. CASE /\ reader' = [reader EXCEPT ![monitor].at = "read"]
           /\ monitor' = IF monitor = "stdout" THEN "stderr" ELSE "overflow?"
           /\ UNCHANGED <<request, child, printed, claimed, overflow, late, result>>
  <2> DEFINE r == [Sandbox!NoThread EXCEPT !.at = "read"]
  <2>1. reader[monitor] = Sandbox!NoThread
      BY <1>1, <1>2 DEF Unspawned
  <2>2. reader' = [reader EXCEPT ![monitor] = r]
      BY <1>4, <2>1 DEF IsolatedTypes
  <2>3. /\ r \in Readers /\ r.at = "read" /\ r.holds = 0 /\ r.taken = 0 /\ r.bytes = 0
        /\ ~r.truncated
      BY DEF Readers, Sandbox!NoThread
  <2> HIDE DEF r
  <2>4. /\ reader'[monitor] = r
        /\ \A t \in Sandbox!Streams \ {monitor} : reader'[t] = reader[t]
      BY <1>1, <1>2, <2>2 DEF IsolatedTypes
  <2>5. IsolatedTypes'
      BY <1>1, <1>2, <1>4, <2>2, <2>3 DEF IsolatedTypes, Places
  <2>6. ASSUME NEW t \in Sandbox!Streams PROVE ReaderOK(t)'
    <3>1. printed[t] \in Nat /\ printed' = printed /\ child' = child
          /\ request' = request /\ claimed' = claimed /\ overflow' = overflow
        BY <1>1, <1>4 DEF IsolatedTypes
    <3>2. CASE t = monitor
      <4>1. reader'[t] = r
          BY <2>4, <3>2
      <4> QED BY <2>3, <3>1, <4>1 DEF ReaderOK, ReaderFits
    <3>3. CASE t # monitor
      <4>1. reader'[t] = reader[t] /\ ReaderOK(t)
          BY <1>1, <2>4, <3>3
      <4> QED BY <3>1, <4>1 DEF ReaderOK, ReaderFits, Sandbox!Running
    <3> QED BY <3>2, <3>3
  <2>7. BudgetOK'
    <3>1. /\ reader'["stdout"].bytes = reader["stdout"].bytes
          /\ reader'["stderr"].bytes = reader["stderr"].bytes
          /\ reader["stdout"].truncated => reader'["stdout"].truncated
          /\ reader["stderr"].truncated => reader'["stderr"].truncated
      <4>1. reader[monitor].bytes = 0 /\ ~reader[monitor].truncated
          BY <2>1 DEF Sandbox!NoThread
      <4>2. CASE monitor = "stdout"
          BY <2>3, <2>4, <4>1, <4>2
      <4>3. CASE monitor = "stderr"
          BY <2>3, <2>4, <4>1, <4>3
      <4> QED BY <1>2, <4>2, <4>3
    <3>2. claimed' = claimed /\ overflow' = overflow /\ request' = request
        BY <1>4
    <3> QED BY <1>1, <3>1, <3>2 DEF BudgetOK
  <2>8. Unspawned'
      BY <1>1, <1>2, <1>4, <2>4 DEF Unspawned
  <2>9. MonitorOK'
      BY <1>1, <1>2, <1>4 DEF MonitorOK, Watched
  <2>10. ReportOK'
    <3>1. result' = None
        BY <1>1, <1>2, <1>4 DEF MonitorOK, Watched
    <3> QED BY <3>1 DEF ReportOK
  <2> QED BY <2>5, <2>6, <2>7, <2>8, <2>9, <2>10 DEF IsolatedInv
<1> QED BY <1>3, <1>4 DEF Sandbox!SpawnReader

\* The program and the clock.
LEMMA IsolatedRuns ==
    ASSUME IsolatedInv, Sandbox!WriteOut \/ Sandbox!End \/ Sandbox!Elapse
    PROVE  IsolatedInv'
<1> USE DEF Sandbox!Streams, Ended
<1>1. /\ IsolatedTypes /\ \A t \in Sandbox!Streams : ReaderOK(t)
      /\ BudgetOK /\ Unspawned /\ MonitorOK /\ ReportOK
    BY DEF IsolatedInv
<1>2. CASE Sandbox!WriteOut
  <2>1. PICK s \in Sandbox!Streams : printed' = [printed EXCEPT ![s] = @ + 1]
      BY <1>2 DEF Sandbox!WriteOut
  <2>2. /\ child.status = "running" /\ printed' \in [Sandbox!Streams -> Nat]
        /\ \A t \in Sandbox!Streams : printed[t] \in Nat /\ printed'[t] \in Nat /\ printed[t] <= printed'[t]
        /\ UNCHANGED <<request, monitor, child, reader, claimed, overflow, late, result>>
      BY <1>1, <1>2, <2>1 DEF Sandbox!WriteOut, Sandbox!Running, IsolatedTypes
  <2>3. ASSUME NEW t \in Sandbox!Streams PROVE ReaderOK(t)'
    <3>1. ReaderOK(t) /\ reader[t].taken \in Nat /\ reader[t].at # "done"
        BY <1>1, <2>2 DEF ReaderOK, ReaderFits, IsolatedTypes, Readers, Sandbox!Running
    <3> QED BY <2>2, <3>1 DEF ReaderOK, ReaderFits, Sandbox!Running
  <2>4. IsolatedTypes' /\ BudgetOK' /\ Unspawned'
      BY <1>1, <2>2 DEF IsolatedTypes, BudgetOK, Unspawned
  <2>5. MonitorOK'
      BY <1>1, <2>2 DEF MonitorOK, Watched
  <2>6. ReportOK'
      BY <1>1, <2>2 DEF ReportOK, Told, Sandbox!Joined
  <2> QED BY <2>3, <2>4, <2>5, <2>6 DEF IsolatedInv
<1>3. CASE Sandbox!End
  <2>1. PICK status \in Ended : child' = [child EXCEPT !.status = status]
      BY <1>3 DEF Sandbox!End
  <2>2. /\ child.status = "running" /\ child' \in Children /\ child'.status \in Ended
        /\ child'.reaped = child.reaped /\ child'.lost = child.lost
        /\ UNCHANGED <<request, monitor, printed, reader, claimed, overflow, late, result>>
      BY <1>1, <1>3, <2>1 DEF Sandbox!End, Sandbox!Running, IsolatedTypes, Children
  <2>3. ASSUME NEW t \in Sandbox!Streams PROVE ReaderOK(t)'
    <3>1. ReaderOK(t) /\ reader[t].at # "done"
        BY <1>1, <2>2 DEF ReaderOK, ReaderFits, Sandbox!Running
    <3> QED BY <2>2, <3>1 DEF ReaderOK, ReaderFits, Sandbox!Running
  <2>4. IsolatedTypes' /\ BudgetOK' /\ Unspawned'
      BY <1>1, <2>2 DEF IsolatedTypes, BudgetOK, Unspawned
  <2>5. /\ monitor \notin Before \union Sandbox!Joining
        /\ \/ monitor # "returned" /\ result = None
           \/ child.lost = TRUE /\ "error" \in DOMAIN result /\ "termination" \notin DOMAIN result
      BY <1>1, <2>2 DEF MonitorOK, Watched, Before, Sandbox!Joining
  <2>6. MonitorOK'
    <3>1. /\ monitor' = monitor /\ result' = result
          /\ child'.status \in Ended /\ child'.lost = child.lost
          /\ monitor \notin Before \union Sandbox!Joining
        BY <2>2, <2>5
    <3>2. CASE monitor # "returned"
      <4>1. result' = None /\ monitor' # "returned"
          BY <1>1, <3>1, <3>2 DEF MonitorOK, Watched
      <4> QED BY <3>1, <4>1 DEF MonitorOK, Watched, Before, Ongoing, Sandbox!Joining
    <3>3. CASE monitor = "returned"
      <4>1. child'.lost = TRUE /\ "error" \in DOMAIN result' /\ "termination" \notin DOMAIN result'
          BY <2>5, <3>1, <3>3
      <4> QED BY <3>1, <3>3, <4>1 DEF MonitorOK, Watched, Before, Ongoing, Sandbox!Joining
    <3> QED BY <3>2, <3>3
  <2>7. ReportOK'
      BY <2>2, <2>5 DEF ReportOK
  <2> QED BY <2>3, <2>4, <2>6, <2>7 DEF IsolatedInv
<1>4. CASE Sandbox!Elapse
  <2>1. /\ late' = TRUE
        /\ UNCHANGED <<request, monitor, child, printed, reader, claimed, overflow, result>>
      BY <1>4 DEF Sandbox!Elapse
  <2>2. IsolatedTypes' /\ BudgetOK' /\ Unspawned'
      BY <1>1, <2>1 DEF IsolatedTypes, BudgetOK, Unspawned
  <2>3. \A t \in Sandbox!Streams : ReaderOK(t)'
      BY <1>1, <2>1 DEF ReaderOK, ReaderFits, Sandbox!Running
  <2>4. MonitorOK'
      BY <1>1, <2>1 DEF MonitorOK, Watched
  <2>5. ReportOK'
      BY <1>1, <2>1 DEF ReportOK, Told, Sandbox!Joined
  <2> QED BY <2>2, <2>3, <2>4, <2>5 DEF IsolatedInv
<1> QED BY <1>2, <1>3, <1>4

LEMMA IsolatedSteps ==
    ASSUME IsolatedInv, Sandbox!IsolatedNext \/ UNCHANGED sandbox PROVE IsolatedInv'
<1>1. CASE UNCHANGED sandbox
  <2>1. UNCHANGED <<request, monitor, child, printed, reader, claimed, overflow, late, result>>
      BY <1>1 DEF sandbox
  <2> QED BY <2>1 DEF IsolatedInv, IsolatedTypes, ReaderOK, BudgetOK, Unspawned, MonitorOK, Watched,
                      ReportOK, Told, Sandbox!Running, Sandbox!Joined
<1>2. CASE Sandbox!IsolatedNext
    BY <1>2, IsolatedMonitors, IsolatedReads, IsolatedSpawns, IsolatedRuns DEF Sandbox!IsolatedNext
<1> QED BY <1>1, <1>2

LEMMA IsolatedTells ==
    ASSUME IsolatedInv PROVE IsolationSound
<1> USE DEF Sandbox!Streams
<1>1. /\ request.output \in Nat /\ IsolatedTypes /\ \A s \in Sandbox!Streams : ReaderOK(s)
      /\ BudgetOK /\ MonitorOK /\ ReportOK
    BY Trials DEF Sandbox!IsolatedAssumption, IsolatedInv, IsolatedTypes
<1>2. Sandbox!NothingLeft
    <2>1. result # None /\ child.status # "none" =>
              \/ child.reaped = TRUE /\ ~Sandbox!Running
              \/ child.lost = TRUE /\ "error" \in DOMAIN result
        BY <1>1 DEF MonitorOK, Watched, Sandbox!Running
    <2> QED BY <1>1, <2>1 DEF BudgetOK, Sandbox!NothingLeft
<1>3. overflow => printed["stdout"] + printed["stderr"] > request.output
  <2> SUFFICES ASSUME overflow PROVE printed["stdout"] + printed["stderr"] > request.output
      OBVIOUS
  <2>1. \A s \in Sandbox!Streams :
            /\ reader[s].taken \in Nat /\ reader[s].bytes \in Nat /\ reader[s].holds \in Nat
            /\ printed[s] \in Nat
      BY <1>1 DEF IsolatedTypes, Readers
  <2>2. \A s \in Sandbox!Streams : reader[s].bytes <= reader[s].taken /\ reader[s].taken <= printed[s]
      BY <1>1, <2>1 DEF ReaderOK, ReaderFits
  <2>3. PICK s \in Sandbox!Streams : reader[s].truncated
      BY <1>1 DEF BudgetOK
  <2>4. reader[s].bytes < reader[s].taken /\ claimed = request.output
      BY <1>1, <2>1, <2>3 DEF ReaderOK, ReaderFits
  <2>5. claimed = reader["stdout"].bytes + reader["stderr"].bytes
      BY <1>1 DEF BudgetOK
  <2> QED BY <2>1, <2>2, <2>4, <2>5
<1>4. ASSUME Sandbox!Reported(Ended)
      PROVE  child.status = result.termination /\ result.bytes = printed /\ ~result.truncated
  <2>1. Told(result.termination) /\ result.termination \in Ended
      BY <1>1, <1>4 DEF Sandbox!Reported, ReportOK
  <2>2. child.status = result.termination /\ ~overflow
      BY <2>1 DEF Told, Ended
  <2>3. \A s \in Sandbox!Streams : reader[s].at = "done" /\ ReaderOK(s) /\ reader[s] \in Readers
                                   /\ printed[s] \in Nat
      BY <1>1, <2>1 DEF Told, Sandbox!Joined, IsolatedTypes
  <2>4. \A s \in Sandbox!Streams : ~reader[s].truncated /\ reader[s].bytes = printed[s]
      BY <2>2, <2>3 DEF ReaderOK, ReaderFits, Readers
  <2>5. [s \in Sandbox!Streams |-> reader[s].bytes] = printed
      BY <1>1, <2>4 DEF IsolatedTypes
  <2> QED BY <2>1, <2>2, <2>4, <2>5 DEF Told
<1>5. Sandbox!Reported({"overflow"}) => overflow
    BY <1>1 DEF ReportOK, Told, Ended, Sandbox!Reported
<1>6. Sandbox!Reported({"timeout"}) => late
    BY <1>1 DEF ReportOK, Told, Ended, Sandbox!Reported
<1>7. ~Sandbox!Reported({"killed"})
    BY <1>1 DEF ReportOK, Told, Ended, Sandbox!Reported
<1>8. Sandbox!ReportIsTrue
    BY <1>3, <1>4, <1>5, <1>6, <1>7 DEF Sandbox!ReportIsTrue, Ended
<1> QED BY <1>2, <1>8 DEF IsolationSound

-----------------------------------------------------------------------------
(* The terminal challenge. *)

Hows == {Challenge!InProcess} \union Challenge!Isolated
Evaluations == [candidate : Challenge!Candidates, how : Hows,
                outcome : {"nonfinite", "mismatch", "passed"}]
KeptTypes ==
    [commitments : SUBSET Reveals, discoveries : SUBSET Maps,
     candidates : SUBSET Challenge!Candidates, reveals : SUBSET Reveals,
     runners : SUBSET Runners, evaluations : SUBSET Evaluations,
     authentic : SUBSET Evaluations]
SaidTypes ==
    [registered : [Challenge!Suites -> Reveals \union {None}],
     claimed : [Reveals -> Challenge!Candidates \union {None}],
     revealed : [Reveals -> Challenge!Candidates \union {None}],
     terminal : [Reveals -> Evaluations \union {None}]]
Calls ==
    [op : {"idle", "commit", "materialize", "reveal", "evaluate", "isolated"},
     at : {"idle", "register", "persist", "claim", "transition", "terminal", "run"},
     on : Reveals \union Challenge!Candidates \union {None}, how : Hows \union {None}]
ChallengeTypes ==
    /\ kept \in KeptTypes /\ said \in SaidTypes
    /\ retained \subseteq Maps /\ call \in [Callers -> Calls]

\* Whom a suite is claimed by was kept, for a commitment that stands; a reveal is
\* made under a claim; and an evaluation is what its map gives, printed by a
\* program that was admitted.
CandidateOK(c) == Challenge!CommitmentStands(c.commitment)
ClaimedOK(r) ==
    said.claimed[r] # None =>
        said.claimed[r] \in kept.candidates /\ said.claimed[r].commitment = r
RevealOK(r) == said.claimed[r] # None /\ Challenge!CommitmentStands(r)
RevealedOK(r) == said.revealed[r] # None => said.revealed[r] = said.claimed[r]
EvaluationOK(e) ==
    /\ e = Challenge!Evaluation(e.candidate, e.how)
    /\ e.how = Challenge!InProcess \/ e.how.runner \in Faithful \intersect kept.runners
AuthenticOK(e) ==
    /\ e \in kept.evaluations
    /\ Challenge!Sealed(e.candidate) /\ Challenge!RevealStands(e.candidate)
    /\ said.terminal[e.candidate.commitment] = e

\* What a caller works on is as it was when the call began.
CallOK(k) ==
    /\ k.op = "commit" => k.on \in Reveals
    /\ k.op = "materialize" => k.on \in kept.candidates
    /\ k.op = "reveal" => Challenge!Sealed(k.on)
    /\ k.op \in {"evaluate", "isolated"} =>
           /\ k.on \in Challenge!Candidates /\ k.how \in Hows
           /\ k.how = Challenge!InProcess \/ k.how.runner \in kept.runners

ChallengeInv ==
    /\ ChallengeTypes
    /\ \A c \in kept.candidates : CandidateOK(c)
    /\ \A r \in Reveals : ClaimedOK(r) /\ RevealedOK(r)
    /\ \A r \in kept.reveals : RevealOK(r)
    /\ \A e \in kept.evaluations : EvaluationOK(e)
    /\ \A e \in kept.authentic : AuthenticOK(e)
    /\ \A p \in Callers : CallOK(call[p])

\* Records are only added, and what is said is said for ever.
Grows ==
    /\ kept.commitments \subseteq kept'.commitments
    /\ kept.discoveries \subseteq kept'.discoveries
    /\ kept.candidates \subseteq kept'.candidates
    /\ kept.reveals \subseteq kept'.reveals
    /\ kept.runners \subseteq kept'.runners
    /\ kept.evaluations \subseteq kept'.evaluations
    /\ kept.authentic \subseteq kept'.authentic
    /\ \A s \in Challenge!Suites :
           said.registered[s] # None => said'.registered[s] = said.registered[s]
    /\ \A r \in Reveals :
           /\ said.claimed[r] # None => said'.claimed[r] = said.claimed[r]
           /\ said.revealed[r] # None => said'.revealed[r] = said.revealed[r]
           /\ said.terminal[r] # None => said'.terminal[r] = said.terminal[r]

LEMMA NothingIsNone ==
    /\ None \notin Reveals /\ None \notin Challenge!Candidates /\ None \notin Runners
    /\ \A c \in Challenge!Candidates, how \in Hows :
           None # Challenge!Observed(c) /\ None # Challenge!Evaluation(c, how)
BY Trials DEF Challenge!ChallengeAssumption, Hows

LEMMA CandidateFields ==
    ASSUME NEW c \in Challenge!Candidates
    PROVE  c.map \in Maps /\ c.commitment \in Reveals
BY DEF Challenge!Candidates

LEMMA SuiteOf ==
    ASSUME NEW r \in Reveals PROVE Challenge!Suite(r) \in Challenge!Suites
BY DEF Challenge!Suite, Challenge!Suites

LEMMA EvaluationIs ==
    ASSUME NEW c \in Challenge!Candidates, NEW how \in Hows
    PROVE  /\ Challenge!Evaluation(c, how) \in Evaluations
           /\ Challenge!Evaluation(c, how).candidate = c
           /\ Challenge!Evaluation(c, how).how = how
           /\ Challenge!Evaluation(c, how).outcome = Challenge!Outcome(c)
<1>1. Challenge!Outcome(c) \in {"nonfinite", "mismatch", "passed"}
    BY DEF Challenge!Outcome
<1> QED BY <1>1 DEF Challenge!Evaluation, Evaluations

\* What stands goes on standing.
LEMMA CommitmentsStand ==
    ASSUME Grows, NEW r \in Reveals, Challenge!CommitmentStands(r)
    PROVE  Challenge!CommitmentStands(r)'
<1>1. said.registered[Challenge!Suite(r)] # None
    BY NothingIsNone DEF Challenge!CommitmentStands
<1> QED BY <1>1, SuiteOf DEF Grows, Challenge!CommitmentStands

LEMMA SealsStand ==
    ASSUME Grows, NEW c \in Challenge!Candidates, Challenge!Sealed(c)
    PROVE  Challenge!Sealed(c)'
<1>1. c.commitment \in Reveals /\ c # None
    BY NothingIsNone, CandidateFields
<1>2. Challenge!CommitmentStands(c.commitment)'
    BY <1>1, CommitmentsStand DEF Challenge!Sealed
<1>3. Challenge!ClaimStands(c)'
    BY <1>1 DEF Challenge!Sealed, Challenge!ClaimStands, Grows
<1> QED BY <1>2, <1>3 DEF Challenge!Sealed, Grows

LEMMA RevealsStand ==
    ASSUME Grows, NEW c \in Challenge!Candidates, Challenge!RevealStands(c)
    PROVE  Challenge!RevealStands(c)'
BY NothingIsNone, CandidateFields DEF Challenge!RevealStands, Grows

LEMMA CallsStand ==
    ASSUME Grows, ChallengeTypes, NEW k \in Calls, CallOK(k) PROVE CallOK(k)'
<1>1. k.op = "commit" => k.on \in Reveals
    BY DEF CallOK
<1>2. k.op = "materialize" => k.on \in kept'.candidates
    BY DEF CallOK, Grows
<1>3. k.op = "reveal" => Challenge!Sealed(k.on)'
  <2>1. k.op = "reveal" => k.on \in Challenge!Candidates
      BY DEF CallOK, Challenge!Sealed, ChallengeTypes, KeptTypes
  <2> QED BY <2>1, SealsStand DEF CallOK
<1>4. k.op \in {"evaluate", "isolated"} =>
          /\ k.on \in Challenge!Candidates /\ k.how \in Hows
          /\ k.how = Challenge!InProcess \/ k.how.runner \in kept'.runners
    BY DEF CallOK, Grows
<1> QED BY <1>1, <1>2, <1>3, <1>4 DEF CallOK

\* A step has to answer for what it adds alone.
LEMMA ChallengeKeeps ==
    ASSUME ChallengeInv, Grows, ChallengeTypes',
           \A c \in kept'.candidates \ kept.candidates : CandidateOK(c)',
           \A r \in Reveals : said'.claimed[r] = said.claimed[r] \/ ClaimedOK(r)',
           \A r \in Reveals : said'.revealed[r] = said.revealed[r] \/ RevealedOK(r)',
           \A r \in kept'.reveals \ kept.reveals : RevealOK(r)',
           \A e \in kept'.evaluations \ kept.evaluations : EvaluationOK(e)',
           \A e \in kept'.authentic \ kept.authentic : AuthenticOK(e)',
           \A p \in Callers : call'[p] = call[p] \/ CallOK(call[p])'
    PROVE  ChallengeInv'
<1>1. ChallengeTypes
    BY DEF ChallengeInv
<1>2. /\ kept.candidates \subseteq Challenge!Candidates /\ kept.reveals \subseteq Reveals
      /\ kept.evaluations \subseteq Evaluations /\ kept.authentic \subseteq Evaluations
      /\ \A p \in Callers : call[p] \in Calls
    BY <1>1 DEF ChallengeTypes, KeptTypes
<1>3. ASSUME NEW c \in kept'.candidates PROVE CandidateOK(c)'
  <2>1. CASE c \in kept.candidates
    <3>1. Challenge!CommitmentStands(c.commitment) /\ c.commitment \in Reveals
        BY <1>2, <2>1, CandidateFields DEF ChallengeInv, CandidateOK
    <3> QED BY <3>1, CommitmentsStand DEF CandidateOK
  <2> QED BY <2>1
<1>4. ASSUME NEW r \in Reveals PROVE ClaimedOK(r)'
  <2>1. CASE said'.claimed[r] = said.claimed[r]
    <3>1. ClaimedOK(r)
        BY DEF ChallengeInv
    <3> QED BY <2>1, <3>1 DEF ClaimedOK, Grows
  <2> QED BY <2>1
<1>5. ASSUME NEW r \in Reveals PROVE RevealedOK(r)'
  <2>1. CASE said'.revealed[r] = said.revealed[r]
    <3>1. RevealedOK(r)
        BY DEF ChallengeInv
    <3> QED BY <2>1, <3>1 DEF RevealedOK, Grows
  <2> QED BY <2>1
<1>6. ASSUME NEW r \in kept'.reveals PROVE RevealOK(r)'
  <2>1. CASE r \in kept.reveals
    <3>1. RevealOK(r) /\ r \in Reveals
        BY <1>2, <2>1 DEF ChallengeInv
    <3>2. Challenge!CommitmentStands(r)'
        BY <3>1, CommitmentsStand DEF RevealOK
    <3> QED BY <3>1, <3>2 DEF RevealOK, Grows
  <2> QED BY <2>1
<1>7. ASSUME NEW e \in kept'.evaluations PROVE EvaluationOK(e)'
  <2>1. CASE e \in kept.evaluations
    <3>1. EvaluationOK(e)
        BY <2>1 DEF ChallengeInv
    <3> QED BY <3>1 DEF EvaluationOK, Grows
  <2> QED BY <2>1
<1>8. ASSUME NEW e \in kept'.authentic PROVE AuthenticOK(e)'
  <2>1. CASE e \in kept.authentic
    <3>1. AuthenticOK(e) /\ e.candidate \in Challenge!Candidates /\ e.how \in Hows
        BY <1>2, <2>1 DEF ChallengeInv, Evaluations
    <3>2. EvaluationOK(e)
        BY <3>1 DEF ChallengeInv, AuthenticOK
    <3>3. e # None /\ e.candidate.commitment \in Reveals
        BY <3>1, <3>2, NothingIsNone, CandidateFields DEF EvaluationOK
    <3>4. Challenge!Sealed(e.candidate)' /\ Challenge!RevealStands(e.candidate)'
        BY <3>1, SealsStand, RevealsStand DEF AuthenticOK
    <3> QED BY <3>1, <3>3, <3>4 DEF AuthenticOK, Grows
  <2> QED BY <2>1
<1>9. ASSUME NEW p \in Callers PROVE CallOK(call[p])'
  <2>1. CASE call'[p] = call[p]
    <3>1. PICK k \in Calls : k = call[p] /\ CallOK(k)
        BY <1>2 DEF ChallengeInv
    <3>2. CallOK(k)'
        BY <1>1, <3>1, CallsStand
    <3> QED BY <2>1, <3>1, <3>2 DEF CallOK
  <2> QED BY <2>1
<1> QED BY <1>3, <1>4, <1>5, <1>6, <1>7, <1>8, <1>9 DEF ChallengeInv

\* The calls one after the other: what each adds.
LEMMA CallMoves ==
    ASSUME ChallengeTypes, NEW p \in Callers, NEW k \in Calls,
           call' = [call EXCEPT ![p] = k], CallOK(k)'
    PROVE  /\ call' \in [Callers -> Calls]
           /\ \A q \in Callers : call'[q] = call[q] \/ CallOK(call[q])'
<1>1. call \in [Callers -> Calls]
    BY DEF ChallengeTypes
<1>2. call'[p] = k
    BY <1>1
<1>3. CallOK(call[p])'
    BY <1>2 DEF CallOK
<1> QED BY <1>1, <1>3

LEMMA CallReturns ==
    ASSUME ChallengeTypes, NEW p \in Callers, Challenge!Return(p)
    PROVE  /\ call' \in [Callers -> Calls]
           /\ \A q \in Callers : call'[q] = call[q] \/ CallOK(call[q])'
<1>1. Challenge!Idle \in Calls /\ Challenge!Idle.op = "idle"
    BY DEF Challenge!Idle, Calls
<1>2. CallOK(Challenge!Idle)'
    BY DEF CallOK, Challenge!Idle
<1> QED BY <1>1, <1>2, CallMoves DEF Challenge!Return

LEMMA CallBegins ==
    ASSUME ChallengeTypes, NEW p \in Callers,
           NEW op \in {"commit", "materialize", "reveal", "evaluate", "isolated"},
           NEW at \in {"register", "claim", "transition", "terminal", "run"},
           NEW on \in Reveals \union Challenge!Candidates, NEW how \in Hows \union {None},
           Challenge!Begin(p, op, at, on, how),
           op = "commit" => on \in Reveals,
           op = "materialize" => on \in kept'.candidates,
           op = "reveal" => Challenge!Sealed(on)',
           op \in {"evaluate", "isolated"} =>
               /\ on \in Challenge!Candidates /\ how \in Hows
               /\ how = Challenge!InProcess \/ how.runner \in kept'.runners
    PROVE  /\ call' \in [Callers -> Calls]
           /\ \A q \in Callers : call'[q] = call[q] \/ CallOK(call[q])'
<1> DEFINE k == [op |-> op, at |-> at, on |-> on, how |-> how]
<1>1. k \in Calls /\ k.op = op /\ k.on = on /\ k.how = how
    BY DEF Calls
<1>2. call' = [call EXCEPT ![p] = k]
    BY DEF Challenge!Begin
<1> HIDE DEF k
<1>3. CallOK(k)'
  <2>1. k.op = "reveal" => Challenge!Sealed(k.on)'
      BY <1>1
  <2> QED BY <1>1, <2>1 DEF CallOK
<1> QED BY <1>1, <1>2, <1>3, CallMoves

LEMMA CallSteps ==
    ASSUME ChallengeInv, NEW p \in Callers,
           NEW at \in {"persist", "terminal"}, Challenge!Step(p, at), Grows
    PROVE  /\ call' \in [Callers -> Calls]
           /\ \A q \in Callers : call'[q] = call[q] \/ CallOK(call[q])'
<1>1. ChallengeTypes /\ call \in [Callers -> Calls] /\ call[p] \in Calls /\ CallOK(call[p])
    BY DEF ChallengeInv, ChallengeTypes
<1>2. PICK c \in Calls : c = call[p] /\ CallOK(c)
    BY <1>1
<1> DEFINE k == [c EXCEPT !.at = at]
<1>3. k \in Calls /\ k.op = c.op /\ k.on = c.on /\ k.how = c.how
    BY DEF Calls
<1>4. call' = [call EXCEPT ![p] = k]
    BY <1>1, <1>2 DEF Challenge!Step
<1> HIDE DEF k
<1>5. CallOK(c)'
    BY <1>1, <1>2, CallsStand
<1>6. CallOK(k)'
    BY <1>3, <1>5 DEF CallOK
<1> QED BY <1>1, <1>3, <1>4, <1>6, CallMoves

\* What is kept of a kind, and what is said for the first time.
LEMMA Kept_commitments ==
    ASSUME kept \in KeptTypes, NEW x \in Reveals, Challenge!Keep("commitments", x)
    PROVE  /\ kept'.commitments = kept.commitments \union {x}
           /\ kept'.discoveries = kept.discoveries
           /\ kept'.candidates = kept.candidates
           /\ kept'.reveals = kept.reveals
           /\ kept'.runners = kept.runners
           /\ kept'.evaluations = kept.evaluations
           /\ kept'.authentic = kept.authentic
           /\ kept' \in KeptTypes
BY DEF Challenge!Keep, KeptTypes

LEMMA Kept_discoveries ==
    ASSUME kept \in KeptTypes, NEW x \in Maps, Challenge!Keep("discoveries", x)
    PROVE  /\ kept'.commitments = kept.commitments
           /\ kept'.discoveries = kept.discoveries \union {x}
           /\ kept'.candidates = kept.candidates
           /\ kept'.reveals = kept.reveals
           /\ kept'.runners = kept.runners
           /\ kept'.evaluations = kept.evaluations
           /\ kept'.authentic = kept.authentic
           /\ kept' \in KeptTypes
BY DEF Challenge!Keep, KeptTypes

LEMMA Kept_candidates ==
    ASSUME kept \in KeptTypes, NEW x \in Challenge!Candidates, Challenge!Keep("candidates", x)
    PROVE  /\ kept'.commitments = kept.commitments
           /\ kept'.discoveries = kept.discoveries
           /\ kept'.candidates = kept.candidates \union {x}
           /\ kept'.reveals = kept.reveals
           /\ kept'.runners = kept.runners
           /\ kept'.evaluations = kept.evaluations
           /\ kept'.authentic = kept.authentic
           /\ kept' \in KeptTypes
BY DEF Challenge!Keep, KeptTypes

LEMMA Kept_reveals ==
    ASSUME kept \in KeptTypes, NEW x \in Reveals, Challenge!Keep("reveals", x)
    PROVE  /\ kept'.commitments = kept.commitments
           /\ kept'.discoveries = kept.discoveries
           /\ kept'.candidates = kept.candidates
           /\ kept'.reveals = kept.reveals \union {x}
           /\ kept'.runners = kept.runners
           /\ kept'.evaluations = kept.evaluations
           /\ kept'.authentic = kept.authentic
           /\ kept' \in KeptTypes
BY DEF Challenge!Keep, KeptTypes

LEMMA Kept_runners ==
    ASSUME kept \in KeptTypes, NEW x \in Runners, Challenge!Keep("runners", x)
    PROVE  /\ kept'.commitments = kept.commitments
           /\ kept'.discoveries = kept.discoveries
           /\ kept'.candidates = kept.candidates
           /\ kept'.reveals = kept.reveals
           /\ kept'.runners = kept.runners \union {x}
           /\ kept'.evaluations = kept.evaluations
           /\ kept'.authentic = kept.authentic
           /\ kept' \in KeptTypes
BY DEF Challenge!Keep, KeptTypes

LEMMA Kept_evaluations ==
    ASSUME kept \in KeptTypes, NEW x \in Evaluations, Challenge!Keep("evaluations", x)
    PROVE  /\ kept'.commitments = kept.commitments
           /\ kept'.discoveries = kept.discoveries
           /\ kept'.candidates = kept.candidates
           /\ kept'.reveals = kept.reveals
           /\ kept'.runners = kept.runners
           /\ kept'.evaluations = kept.evaluations \union {x}
           /\ kept'.authentic = kept.authentic
           /\ kept' \in KeptTypes
BY DEF Challenge!Keep, KeptTypes

LEMMA Kept_authentic ==
    ASSUME kept \in KeptTypes, NEW x \in Evaluations, Challenge!Keep("authentic", x)
    PROVE  /\ kept'.commitments = kept.commitments
           /\ kept'.discoveries = kept.discoveries
           /\ kept'.candidates = kept.candidates
           /\ kept'.reveals = kept.reveals
           /\ kept'.runners = kept.runners
           /\ kept'.evaluations = kept.evaluations
           /\ kept'.authentic = kept.authentic \union {x}
           /\ kept' \in KeptTypes
BY DEF Challenge!Keep, KeptTypes

LEMMA Said_registered ==
    ASSUME said \in SaidTypes, NEW key \in Challenge!Suites, NEW x \in Reveals,
           Challenge!MaySay("registered", key, x), Challenge!Say("registered", key, x)
    PROVE  /\ said.registered[key] \in {None, x}
           /\ said'.registered = [said.registered EXCEPT ![key] = x]
           /\ said'.claimed = said.claimed
           /\ said'.revealed = said.revealed
           /\ said'.terminal = said.terminal
           /\ said' \in SaidTypes
BY DEF Challenge!MaySay, Challenge!Say, SaidTypes

LEMMA Said_claimed ==
    ASSUME said \in SaidTypes, NEW key \in Reveals, NEW x \in Challenge!Candidates,
           Challenge!MaySay("claimed", key, x), Challenge!Say("claimed", key, x)
    PROVE  /\ said.claimed[key] \in {None, x}
           /\ said'.registered = said.registered
           /\ said'.claimed = [said.claimed EXCEPT ![key] = x]
           /\ said'.revealed = said.revealed
           /\ said'.terminal = said.terminal
           /\ said' \in SaidTypes
BY DEF Challenge!MaySay, Challenge!Say, SaidTypes

LEMMA Said_revealed ==
    ASSUME said \in SaidTypes, NEW key \in Reveals, NEW x \in Challenge!Candidates,
           Challenge!MaySay("revealed", key, x), Challenge!Say("revealed", key, x)
    PROVE  /\ said.revealed[key] \in {None, x}
           /\ said'.registered = said.registered
           /\ said'.claimed = said.claimed
           /\ said'.revealed = [said.revealed EXCEPT ![key] = x]
           /\ said'.terminal = said.terminal
           /\ said' \in SaidTypes
BY DEF Challenge!MaySay, Challenge!Say, SaidTypes

LEMMA Said_terminal ==
    ASSUME said \in SaidTypes, NEW key \in Reveals, NEW x \in Evaluations,
           Challenge!MaySay("terminal", key, x), Challenge!Say("terminal", key, x)
    PROVE  /\ said.terminal[key] \in {None, x}
           /\ said'.registered = said.registered
           /\ said'.claimed = said.claimed
           /\ said'.revealed = said.revealed
           /\ said'.terminal = [said.terminal EXCEPT ![key] = x]
           /\ said' \in SaidTypes
BY DEF Challenge!MaySay, Challenge!Say, SaidTypes

LEMMA CommitKeeps ==
    ASSUME ChallengeInv, NEW p \in Callers, Challenge!Commit(p), UNCHANGED <<retained, fallen>>
    PROVE  ChallengeInv'
<1>1. /\ ChallengeTypes /\ kept \in KeptTypes /\ said \in SaidTypes /\ retained \subseteq Maps
      /\ call[p] \in Calls /\ CallOK(call[p])
    BY DEF ChallengeInv, ChallengeTypes
<1>2. CASE Challenge!BeginCommit(p)
  <2>1. PICK r \in Reveals : Challenge!Begin(p, "commit", "register", r, None)
                             /\ kept' = kept /\ said' = said
      BY <1>2 DEF Challenge!BeginCommit
  <2>2. Grows
      BY <2>1 DEF Grows
  <2>3. /\ call' \in [Callers -> Calls]
        /\ \A q \in Callers : call'[q] = call[q] \/ CallOK(call[q])'
      BY <1>1, <2>1, CallBegins
  <2>4. ChallengeTypes'
      BY <1>1, <2>1, <2>3 DEF ChallengeTypes
  <2> QED BY <2>1, <2>2, <2>3, <2>4, ChallengeKeeps
<1>3. CASE Challenge!RegisterSuite(p)
  <2> DEFINE r == call[p].on
  <2>1. /\ call[p].op = "commit" /\ r \in Reveals /\ kept' = kept
      BY <1>1, <1>3 DEF Challenge!RegisterSuite, Challenge!At, CallOK
  <2>2. Challenge!Suite(r) \in Challenge!Suites
      BY <2>1, SuiteOf
  <2>3. CASE /\ Challenge!MaySay("registered", Challenge!Suite(r), r)
             /\ Challenge!Say("registered", Challenge!Suite(r), r) /\ Challenge!Step(p, "persist")
    <3>1. /\ said.registered[Challenge!Suite(r)] \in {None, r}
          /\ said'.registered = [said.registered EXCEPT ![Challenge!Suite(r)] = r]
          /\ said'.claimed = said.claimed /\ said'.revealed = said.revealed
          /\ said'.terminal = said.terminal /\ said' \in SaidTypes
        BY <1>1, <2>1, <2>2, <2>3, Said_registered
    <3>2. said.registered \in [Challenge!Suites -> Reveals \union {None}]
        BY <1>1 DEF SaidTypes
    <3>3. Grows
        BY <2>1, <2>2, <3>1, <3>2 DEF Grows
    <3>4. /\ call' \in [Callers -> Calls]
          /\ \A q \in Callers : call'[q] = call[q] \/ CallOK(call[q])'
        BY <2>3, <3>3, CallSteps
    <3>5. ChallengeTypes'
        BY <1>1, <2>1, <3>1, <3>4 DEF ChallengeTypes
    <3> QED BY <2>1, <3>1, <3>3, <3>4, <3>5, ChallengeKeeps
  <2>4. CASE Challenge!Return(p) /\ said' = said
    <3>1. Grows
        BY <2>1, <2>4 DEF Grows
    <3>2. /\ call' \in [Callers -> Calls]
          /\ \A q \in Callers : call'[q] = call[q] \/ CallOK(call[q])'
        BY <1>1, <2>4, CallReturns
    <3>3. ChallengeTypes'
        BY <1>1, <2>1, <2>4, <3>2 DEF ChallengeTypes
    <3> QED BY <2>1, <2>4, <3>1, <3>2, <3>3, ChallengeKeeps
  <2> QED BY <1>3, <2>3, <2>4 DEF Challenge!RegisterSuite
<1>4. CASE Challenge!PersistCommitment(p)
  <2> DEFINE r == call[p].on
  <2>1. /\ r \in Reveals /\ Challenge!Keep("commitments", r) /\ Challenge!Return(p) /\ said' = said
      BY <1>1, <1>4 DEF Challenge!PersistCommitment, Challenge!At, CallOK
  <2> HIDE DEF r
  <2>2. /\ kept'.commitments = kept.commitments \union {r}
        /\ kept'.discoveries = kept.discoveries /\ kept'.candidates = kept.candidates
        /\ kept'.reveals = kept.reveals /\ kept'.runners = kept.runners
        /\ kept'.evaluations = kept.evaluations /\ kept'.authentic = kept.authentic
        /\ kept' \in KeptTypes
      BY <1>1, <2>1, Kept_commitments
  <2>3. Grows
      BY <2>1, <2>2 DEF Grows
  <2>4. /\ call' \in [Callers -> Calls]
        /\ \A q \in Callers : call'[q] = call[q] \/ CallOK(call[q])'
      BY <1>1, <2>1, CallReturns
  <2>5. ChallengeTypes'
      BY <1>1, <2>1, <2>2, <2>4 DEF ChallengeTypes
  <2> QED BY <2>1, <2>2, <2>3, <2>4, <2>5, ChallengeKeeps
<1> QED BY <1>2, <1>3, <1>4 DEF Challenge!Commit

LEMMA MaterializeKeeps ==
    ASSUME ChallengeInv, NEW p \in Callers, Challenge!Materialize(p), UNCHANGED <<retained, fallen>>
    PROVE  ChallengeInv'
<1>1. /\ ChallengeTypes /\ kept \in KeptTypes /\ said \in SaidTypes /\ retained \subseteq Maps
      /\ call[p] \in Calls /\ CallOK(call[p]) /\ call \in [Callers -> Calls]
    BY DEF ChallengeInv, ChallengeTypes
<1>2. CASE Challenge!Discover(p)
  <2>1. PICK m \in Maps : Challenge!Keep("discoveries", m) /\ said' = said /\ call' = call
      BY <1>1, <1>2 DEF Challenge!Discover
  <2>2. /\ kept'.commitments = kept.commitments
        /\ kept'.discoveries = kept.discoveries \union {m} /\ kept'.candidates = kept.candidates
        /\ kept'.reveals = kept.reveals /\ kept'.runners = kept.runners
        /\ kept'.evaluations = kept.evaluations /\ kept'.authentic = kept.authentic
        /\ kept' \in KeptTypes
      BY <1>1, <2>1, Kept_discoveries
  <2>3. Grows
      BY <2>1, <2>2 DEF Grows
  <2>4. ChallengeTypes'
      BY <1>1, <2>1, <2>2 DEF ChallengeTypes
  <2> QED BY <2>1, <2>2, <2>3, <2>4, ChallengeKeeps
<1>3. CASE Challenge!BeginMaterialize(p)
  <2>1. PICK c \in Challenge!Candidates :
            /\ Challenge!CommitmentStands(c.commitment) /\ Challenge!Keep("candidates", c)
            /\ Challenge!Begin(p, "materialize", "claim", c, None) /\ said' = said
      BY <1>3 DEF Challenge!BeginMaterialize
  <2>2. /\ kept'.commitments = kept.commitments
        /\ kept'.discoveries = kept.discoveries /\ kept'.candidates = kept.candidates \union {c}
        /\ kept'.reveals = kept.reveals /\ kept'.runners = kept.runners
        /\ kept'.evaluations = kept.evaluations /\ kept'.authentic = kept.authentic
        /\ kept' \in KeptTypes
      BY <1>1, <2>1, Kept_candidates
  <2>3. Grows
      BY <2>1, <2>2 DEF Grows
  <2>4. /\ call' \in [Callers -> Calls]
        /\ \A q \in Callers : call'[q] = call[q] \/ CallOK(call[q])'
      BY <1>1, <2>1, <2>2, CallBegins
  <2>5. ChallengeTypes'
      BY <1>1, <2>1, <2>2, <2>4 DEF ChallengeTypes
  <2>6. CandidateOK(c)'
      BY <2>1, <2>3, CandidateFields, CommitmentsStand DEF CandidateOK
  <2> QED BY <2>1, <2>2, <2>3, <2>4, <2>5, <2>6, ChallengeKeeps
<1>4. CASE Challenge!ClaimChallenge(p)
  <2> DEFINE c == call[p].on
  <2>1. /\ c \in kept.candidates /\ kept' = kept /\ Challenge!Return(p)
      BY <1>1, <1>4 DEF Challenge!ClaimChallenge, Challenge!At, CallOK
  <2>2. c \in Challenge!Candidates /\ c.commitment \in Reveals
      BY <1>1, <2>1, CandidateFields DEF KeptTypes
  <2>3. /\ call' \in [Callers -> Calls]
        /\ \A q \in Callers : call'[q] = call[q] \/ CallOK(call[q])'
      BY <1>1, <2>1, CallReturns
  <2>4. CASE said' = said
    <3>1. Grows
        BY <2>1, <2>4 DEF Grows
    <3>2. ChallengeTypes'
        BY <1>1, <2>1, <2>3, <2>4 DEF ChallengeTypes
    <3> QED BY <2>1, <2>3, <2>4, <3>1, <3>2, ChallengeKeeps
  <2>5. CASE Challenge!MaySay("claimed", c.commitment, c) /\ Challenge!Say("claimed", c.commitment, c)
    <3>1. /\ said.claimed[c.commitment] \in {None, c}
          /\ said'.claimed = [said.claimed EXCEPT ![c.commitment] = c]
          /\ said'.registered = said.registered /\ said'.revealed = said.revealed
          /\ said'.terminal = said.terminal /\ said' \in SaidTypes
        BY <1>1, <2>2, <2>5, Said_claimed
    <3>2. said.claimed \in [Reveals -> Challenge!Candidates \union {None}]
        BY <1>1 DEF SaidTypes
    <3>3. Grows
        BY <2>1, <2>2, <3>1, <3>2 DEF Grows
    <3>4. ChallengeTypes'
        BY <1>1, <2>1, <2>3, <3>1 DEF ChallengeTypes
    <3>5. ASSUME NEW r \in Reveals PROVE said'.claimed[r] = said.claimed[r] \/ ClaimedOK(r)'
      <4>1. CASE r = c.commitment
          BY <2>1, <2>2, <3>1, <3>2, <4>1 DEF ClaimedOK
      <4>2. CASE r # c.commitment
          BY <3>1, <3>2, <4>2
      <4> QED BY <4>1, <4>2
    <3> QED BY <2>1, <2>3, <3>1, <3>3, <3>4, <3>5, ChallengeKeeps
  <2> QED BY <1>4, <2>4, <2>5 DEF Challenge!ClaimChallenge
<1> QED BY <1>2, <1>3, <1>4 DEF Challenge!Materialize

LEMMA RevealKeeps ==
    ASSUME ChallengeInv, NEW p \in Callers, Challenge!PersistReveal(p), UNCHANGED <<retained, fallen>>
    PROVE  ChallengeInv'
<1>1. /\ ChallengeTypes /\ kept \in KeptTypes /\ said \in SaidTypes /\ retained \subseteq Maps
      /\ call[p] \in Calls /\ CallOK(call[p]) /\ call \in [Callers -> Calls]
    BY DEF ChallengeInv, ChallengeTypes
<1>2. CASE Challenge!BeginReveal(p)
  <2>1. PICK c \in Challenge!Candidates :
            /\ Challenge!Sealed(c) /\ c.commitment \in Reveals
            /\ Challenge!Begin(p, "reveal", "transition", c, None)
            /\ Challenge!Keep("reveals", c.commitment) /\ said' = said
      BY <1>2 DEF Challenge!BeginReveal, Challenge!Deep
  <2>2. /\ kept'.commitments = kept.commitments
        /\ kept'.discoveries = kept.discoveries /\ kept'.candidates = kept.candidates
        /\ kept'.reveals = kept.reveals \union {c.commitment} /\ kept'.runners = kept.runners
        /\ kept'.evaluations = kept.evaluations /\ kept'.authentic = kept.authentic
        /\ kept' \in KeptTypes
      BY <1>1, <2>1, Kept_reveals
  <2>3. Grows
      BY <2>1, <2>2 DEF Grows
  <2>4. Challenge!Sealed(c)'
      BY <2>1, <2>3, SealsStand
  <2>5. /\ call' \in [Callers -> Calls]
        /\ \A q \in Callers : call'[q] = call[q] \/ CallOK(call[q])'
      BY <1>1, <2>1, <2>4, CallBegins
  <2>6. ChallengeTypes'
      BY <1>1, <2>1, <2>2, <2>5 DEF ChallengeTypes
  <2>7. RevealOK(c.commitment)'
      BY <2>4, NothingIsNone DEF RevealOK, Challenge!Sealed, Challenge!ClaimStands
  <2> QED BY <2>1, <2>2, <2>3, <2>5, <2>6, <2>7, ChallengeKeeps
<1>3. CASE Challenge!RecordReveal(p)
  <2> DEFINE c == call[p].on
  <2>1. /\ Challenge!Sealed(c) /\ kept' = kept /\ Challenge!Return(p)
      BY <1>1, <1>3 DEF Challenge!RecordReveal, Challenge!At, CallOK
  <2>2. c \in Challenge!Candidates /\ c.commitment \in Reveals
      BY <1>1, <2>1, CandidateFields DEF KeptTypes, Challenge!Sealed
  <2>3. /\ call' \in [Callers -> Calls]
        /\ \A q \in Callers : call'[q] = call[q] \/ CallOK(call[q])'
      BY <1>1, <2>1, CallReturns
  <2>4. CASE said' = said
    <3>1. Grows
        BY <2>1, <2>4 DEF Grows
    <3>2. ChallengeTypes'
        BY <1>1, <2>1, <2>3, <2>4 DEF ChallengeTypes
    <3> QED BY <2>1, <2>3, <2>4, <3>1, <3>2, ChallengeKeeps
  <2>5. CASE Challenge!MaySay("revealed", c.commitment, c) /\ Challenge!Say("revealed", c.commitment, c)
    <3>1. /\ said.revealed[c.commitment] \in {None, c}
          /\ said'.revealed = [said.revealed EXCEPT ![c.commitment] = c]
          /\ said'.registered = said.registered /\ said'.claimed = said.claimed
          /\ said'.terminal = said.terminal /\ said' \in SaidTypes
        BY <1>1, <2>2, <2>5, Said_revealed
    <3>2. said.revealed \in [Reveals -> Challenge!Candidates \union {None}]
        BY <1>1 DEF SaidTypes
    <3>3. Grows
        BY <2>1, <2>2, <3>1, <3>2 DEF Grows
    <3>4. ChallengeTypes'
        BY <1>1, <2>1, <2>3, <3>1 DEF ChallengeTypes
    <3>5. ASSUME NEW r \in Reveals PROVE said'.revealed[r] = said.revealed[r] \/ RevealedOK(r)'
      <4>1. CASE r = c.commitment
        <5>1. said.claimed[r] = c
            BY <2>1, <4>1 DEF Challenge!Sealed, Challenge!ClaimStands
        <5> QED BY <2>2, <3>1, <3>2, <4>1, <5>1 DEF RevealedOK
      <4>2. CASE r # c.commitment
          BY <3>1, <3>2, <4>2
      <4> QED BY <4>1, <4>2
    <3> QED BY <2>1, <2>3, <3>1, <3>3, <3>4, <3>5, ChallengeKeeps
  <2> QED BY <1>3, <2>4, <2>5 DEF Challenge!RecordReveal
<1> QED BY <1>2, <1>3 DEF Challenge!PersistReveal

LEMMA EvaluationKept ==
    ASSUME ChallengeInv, UNCHANGED retained, said' = said,
           NEW c \in Challenge!Candidates, NEW how \in Hows,
           how = Challenge!InProcess \/ how.runner \in Faithful \intersect kept.runners,
           Challenge!Keep("evaluations", Challenge!Evaluation(c, how)),
           Grows => /\ call' \in [Callers -> Calls]
                    /\ \A q \in Callers : call'[q] = call[q] \/ CallOK(call[q])'
    PROVE  ChallengeInv'
<1> DEFINE e == Challenge!Evaluation(c, how)
<1>1. /\ ChallengeTypes /\ kept \in KeptTypes /\ said \in SaidTypes /\ retained \subseteq Maps
    BY DEF ChallengeInv, ChallengeTypes
<1>2. e \in Evaluations /\ e.candidate = c /\ e.how = how
    BY EvaluationIs
<1>3. /\ kept'.commitments = kept.commitments
      /\ kept'.discoveries = kept.discoveries /\ kept'.candidates = kept.candidates
      /\ kept'.reveals = kept.reveals /\ kept'.runners = kept.runners
      /\ kept'.evaluations = kept.evaluations \union {e} /\ kept'.authentic = kept.authentic
      /\ kept' \in KeptTypes
    BY <1>1, <1>2, Kept_evaluations
<1>4. Grows
    BY <1>3 DEF Grows
<1>5. EvaluationOK(e)'
    BY <1>2, <1>3, Zenon DEF EvaluationOK, Challenge!Evaluation, Challenge!Outcome, Challenge!Observed
<1>6. ChallengeTypes'
    BY <1>1, <1>3, <1>4 DEF ChallengeTypes
<1> HIDE DEF e
<1> QED BY <1>3, <1>4, <1>5, <1>6, ChallengeKeeps

LEMMA EvaluateKeeps ==
    ASSUME ChallengeInv, NEW p \in Callers, Challenge!Evaluate(p), UNCHANGED <<retained, fallen>>
    PROVE  ChallengeInv'
<1>1. /\ ChallengeTypes /\ kept \in KeptTypes /\ said \in SaidTypes /\ retained \subseteq Maps
      /\ call[p] \in Calls /\ CallOK(call[p]) /\ call \in [Callers -> Calls]
    BY DEF ChallengeInv, ChallengeTypes
<1>2. CASE Challenge!EvaluateInProcess(p)
  <2>1. PICK c \in Challenge!Candidates :
            /\ Challenge!Begin(p, "evaluate", "terminal", c, Challenge!InProcess)
            /\ Challenge!Keep("evaluations", Challenge!Evaluation(c, Challenge!InProcess))
            /\ said' = said
      BY <1>2 DEF Challenge!EvaluateInProcess
  <2>2. Challenge!InProcess \in Hows
      BY DEF Hows
  <2>3. /\ call' \in [Callers -> Calls]
        /\ \A q \in Callers : call'[q] = call[q] \/ CallOK(call[q])'
      BY <1>1, <2>1, <2>2, CallBegins
  <2> QED BY <2>1, <2>2, <2>3, EvaluationKept
<1>3. CASE Challenge!AdmitRunner(p)
  <2>1. PICK u \in Runners : Challenge!Keep("runners", u) /\ said' = said /\ call' = call
      BY <1>3 DEF Challenge!AdmitRunner
  <2>2. /\ kept'.commitments = kept.commitments
        /\ kept'.discoveries = kept.discoveries /\ kept'.candidates = kept.candidates
        /\ kept'.reveals = kept.reveals /\ kept'.runners = kept.runners \union {u}
        /\ kept'.evaluations = kept.evaluations /\ kept'.authentic = kept.authentic
        /\ kept' \in KeptTypes
      BY <1>1, <2>1, Kept_runners
  <2>3. Grows
      BY <2>1, <2>2 DEF Grows
  <2>4. ChallengeTypes'
      BY <1>1, <2>1, <2>2 DEF ChallengeTypes
  <2> QED BY <2>1, <2>2, <2>3, <2>4, ChallengeKeeps
<1>4. CASE Challenge!BeginIsolated(p)
  <2>1. PICK c \in Challenge!Candidates, how \in Challenge!Isolated :
            /\ how.runner \in kept.runners
            /\ Challenge!Begin(p, "isolated", "run", c, how) /\ kept' = kept /\ said' = said
      BY <1>4 DEF Challenge!BeginIsolated
  <2>2. Grows
      BY <2>1 DEF Grows
  <2>3. /\ call' \in [Callers -> Calls]
        /\ \A q \in Callers : call'[q] = call[q] \/ CallOK(call[q])'
      BY <1>1, <2>1, CallBegins DEF Hows
  <2>4. ChallengeTypes'
      BY <1>1, <2>1, <2>3 DEF ChallengeTypes
  <2> QED BY <2>1, <2>2, <2>3, <2>4, ChallengeKeeps
<1>5. CASE Challenge!FinishIsolated(p)
  <2> DEFINE c == call[p].on
             how == call[p].how
  <2>1. /\ c \in Challenge!Candidates /\ how \in Hows /\ said' = said
        /\ how = Challenge!InProcess \/ how.runner \in kept.runners
      BY <1>1, <1>5 DEF Challenge!FinishIsolated, Challenge!At, CallOK
  <2>2. CASE Challenge!Return(p) /\ kept' = kept
    <3>1. Grows
        BY <2>1, <2>2 DEF Grows
    <3>2. /\ call' \in [Callers -> Calls]
          /\ \A q \in Callers : call'[q] = call[q] \/ CallOK(call[q])'
        BY <1>1, <2>2, CallReturns
    <3>3. ChallengeTypes'
        BY <1>1, <2>1, <2>2, <3>2 DEF ChallengeTypes
    <3> QED BY <2>1, <2>2, <3>1, <3>2, <3>3, ChallengeKeeps
  <2>3. ASSUME NEW report \in Challenge!Reports(how, c),
               report.ok, report.stdout = Challenge!Observed(c),
               Challenge!Keep("evaluations", Challenge!Evaluation(c, how)), Challenge!Step(p, "terminal")
        PROVE  ChallengeInv'
    <3>1. report.stdout # None
        BY <2>1, <2>3, NothingIsNone
    <3>2. how.runner \in Faithful
        BY <3>1, <2>3 DEF Challenge!Reports
    <3>3. Grows => /\ call' \in [Callers -> Calls]
                   /\ \A q \in Callers : call'[q] = call[q] \/ CallOK(call[q])'
        BY <2>3, CallSteps
    <3>4. PICK d \in Challenge!Candidates, w \in Hows : d = c /\ w = how
        BY <2>1
    <3> HIDE DEF c, how
    <3> QED BY <2>1, <2>3, <3>2, <3>3, <3>4, EvaluationKept
  <2> QED BY <1>5, <2>2, <2>3 DEF Challenge!FinishIsolated
<1>6. CASE Challenge!RecordTerminal(p)
  <2> DEFINE c == call[p].on
             e == Challenge!Evaluation(c, call[p].how)
  <2>1. /\ c \in Challenge!Candidates /\ call[p].how \in Hows /\ kept' = kept /\ Challenge!Return(p)
      BY <1>1, <1>6 DEF Challenge!RecordTerminal, Challenge!At, CallOK
  <2>2. c.commitment \in Reveals /\ e \in Evaluations
      BY <2>1, CandidateFields, EvaluationIs
  <2>3. /\ call' \in [Callers -> Calls]
        /\ \A q \in Callers : call'[q] = call[q] \/ CallOK(call[q])'
      BY <1>1, <2>1, CallReturns
  <2>4. CASE said' = said
    <3>1. Grows
        BY <2>1, <2>4 DEF Grows
    <3>2. ChallengeTypes'
        BY <1>1, <2>1, <2>3, <2>4 DEF ChallengeTypes
    <3> QED BY <2>1, <2>3, <2>4, <3>1, <3>2, ChallengeKeeps
  <2>5. CASE Challenge!MaySay("terminal", c.commitment, e) /\ Challenge!Say("terminal", c.commitment, e)
    <3> HIDE DEF e
    <3>1. /\ said.terminal[c.commitment] \in {None, e}
          /\ said'.terminal = [said.terminal EXCEPT ![c.commitment] = e]
          /\ said'.registered = said.registered /\ said'.claimed = said.claimed
          /\ said'.revealed = said.revealed /\ said' \in SaidTypes
        BY <1>1, <2>2, <2>5, Said_terminal
    <3>2. said.terminal \in [Reveals -> Evaluations \union {None}]
        BY <1>1 DEF SaidTypes
    <3>3. Grows
        BY <2>1, <2>2, <3>1, <3>2 DEF Grows
    <3>4. ChallengeTypes'
        BY <1>1, <2>1, <2>3, <3>1 DEF ChallengeTypes
    <3> QED BY <2>1, <2>3, <3>1, <3>3, <3>4, ChallengeKeeps
  <2> QED BY <1>6, <2>4, <2>5 DEF Challenge!RecordTerminal
<1>7. CASE Challenge!Authenticate(p)
  <2>1. PICK e \in kept.evaluations :
            Challenge!EvaluationStands(e) /\ Challenge!Keep("authentic", e) /\ said' = said /\ call' = call
      BY <1>7 DEF Challenge!Authenticate
  <2>2. e \in Evaluations /\ e.candidate \in Challenge!Candidates
      BY <1>1, <2>1 DEF KeptTypes, Evaluations
  <2>3. /\ kept'.commitments = kept.commitments
        /\ kept'.discoveries = kept.discoveries /\ kept'.candidates = kept.candidates
        /\ kept'.reveals = kept.reveals /\ kept'.runners = kept.runners
        /\ kept'.evaluations = kept.evaluations /\ kept'.authentic = kept.authentic \union {e}
        /\ kept' \in KeptTypes
      BY <1>1, <2>1, <2>2, Kept_authentic
  <2>4. Grows
      BY <2>1, <2>3 DEF Grows
  <2>5. /\ Challenge!Sealed(e.candidate) /\ Challenge!RevealStands(e.candidate)
        /\ said.terminal[e.candidate.commitment] = e
      BY <2>1 DEF Challenge!EvaluationStands, Challenge!Deep
  <2>6. AuthenticOK(e)'
      BY <2>1, <2>2, <2>3, <2>4, <2>5, SealsStand, RevealsStand DEF AuthenticOK
  <2>7. ChallengeTypes'
      BY <1>1, <2>1, <2>3 DEF ChallengeTypes
  <2> QED BY <2>1, <2>3, <2>4, <2>6, <2>7, ChallengeKeeps
<1> QED BY <1>2, <1>3, <1>4, <1>5, <1>6, <1>7 DEF Challenge!Evaluate

LEMMA ChallengeStarts ==
    ASSUME Challenge!ChallengeInit PROVE ChallengeInv
<1>1. /\ kept = [commitments |-> {}, discoveries |-> {}, candidates |-> {}, reveals |-> {},
                 runners |-> {}, evaluations |-> {}, authentic |-> {}]
      /\ said = [registered |-> [s \in Challenge!Suites |-> None], claimed |-> [r \in Reveals |-> None],
                 revealed |-> [r \in Reveals |-> None], terminal |-> [r \in Reveals |-> None]]
      /\ retained = Maps
      /\ call = [p \in Callers |-> Challenge!Idle]
    BY DEF Challenge!ChallengeInit
<1>2. kept \in KeptTypes /\ said \in SaidTypes
    BY <1>1 DEF KeptTypes, SaidTypes
<1>3. Challenge!Idle \in Calls /\ CallOK(Challenge!Idle)
    BY DEF Challenge!Idle, Calls, CallOK
<1>4. ChallengeTypes /\ \A p \in Callers : CallOK(call[p])
    BY <1>1, <1>2, <1>3 DEF ChallengeTypes
<1>5. \A r \in Reveals : ClaimedOK(r) /\ RevealedOK(r)
    BY <1>1 DEF ClaimedOK, RevealedOK
<1> QED BY <1>1, <1>4, <1>5 DEF ChallengeInv

LEMMA ChallengeSteps ==
    ASSUME ChallengeInv, Challenge!ChallengeNext \/ UNCHANGED challenges PROVE ChallengeInv'
<1>1. /\ ChallengeTypes /\ kept \in KeptTypes /\ said \in SaidTypes /\ retained \subseteq Maps
      /\ call \in [Callers -> Calls]
    BY DEF ChallengeInv, ChallengeTypes
<1>2. ASSUME NEW p \in Callers, Challenge!DieInCall(p) PROVE ChallengeInv'
  <2>1. Challenge!Return(p) /\ kept' = kept /\ said' = said /\ retained' = retained
      BY <1>2 DEF Challenge!DieInCall
  <2>2. Grows
      BY <2>1 DEF Grows
  <2>3. /\ call' \in [Callers -> Calls]
        /\ \A q \in Callers : call'[q] = call[q] \/ CallOK(call[q])'
      BY <1>1, <1>2, <2>1, CallReturns
  <2>4. ChallengeTypes'
      BY <1>1, <2>1, <2>3 DEF ChallengeTypes
  <2> QED BY <2>1, <2>2, <2>3, <2>4, ChallengeKeeps
<1>3. CASE Challenge!ForgetSource \/ UNCHANGED challenges
  <2>1. kept' = kept /\ said' = said /\ call' = call /\ retained' \subseteq retained
      BY <1>3 DEF Challenge!ForgetSource, challenges
  <2>2. Grows
      BY <2>1 DEF Grows
  <2>3. ChallengeTypes'
      BY <1>1, <2>1 DEF ChallengeTypes
  <2> QED BY <2>1, <2>2, <2>3, ChallengeKeeps
<1> QED BY <1>2, <1>3, CommitKeeps, MaterializeKeeps, RevealKeeps, EvaluateKeeps DEF Challenge!ChallengeNext

LEMMA ChallengeTells ==
    ASSUME ChallengeInv PROVE ChallengeSound
<1>1. /\ ChallengeTypes /\ kept \in KeptTypes
    BY DEF ChallengeInv, ChallengeTypes
<1>2. Challenge!CandidatesBlind
  <2>1. ASSUME NEW r \in kept.reveals
        PROVE  said.claimed[r] # None /\ said.registered[Challenge!Suite(r)] = r
      BY DEF ChallengeInv, RevealOK, Challenge!CommitmentStands
  <2>2. ASSUME NEW r \in Reveals
        PROVE  /\ said.revealed[r] # None => said.revealed[r] = said.claimed[r]
               /\ said.claimed[r] # None => said.registered[Challenge!Suite(r)] = r
    <3>1. ClaimedOK(r) /\ RevealedOK(r)
        BY DEF ChallengeInv
    <3>2. said.claimed[r] # None => CandidateOK(said.claimed[r]) /\ said.claimed[r].commitment = r
        BY <3>1 DEF ChallengeInv, ClaimedOK
    <3> QED BY <3>1, <3>2 DEF RevealedOK, CandidateOK, Challenge!CommitmentStands
  <2> QED BY <2>1, <2>2 DEF Challenge!CandidatesBlind
<1>3. Challenge!OneVerdict
  <2>1. ASSUME NEW e \in kept.authentic
        PROVE  /\ AuthenticOK(e) /\ EvaluationOK(e) /\ e.candidate \in Challenge!Candidates /\ e.how \in Hows
               /\ said.registered[Challenge!Suite(e.candidate.commitment)] = e.candidate.commitment
    <3>1. AuthenticOK(e) /\ e \in Evaluations
        BY <1>1 DEF ChallengeInv, KeptTypes
    <3> QED BY <3>1 DEF ChallengeInv, AuthenticOK, Evaluations, Challenge!Sealed, Challenge!CommitmentStands
  <2>2. ASSUME NEW d \in kept.authentic, NEW e \in kept.authentic,
               Challenge!Suite(d.candidate.commitment) = Challenge!Suite(e.candidate.commitment)
        PROVE  d = e
    <3>1. d.candidate.commitment = e.candidate.commitment
        BY <2>1, <2>2
    <3> QED BY <2>1, <3>1 DEF AuthenticOK
  <2>3. ASSUME NEW e \in kept.authentic
        PROVE  /\ e.candidate = said.claimed[e.candidate.commitment]
               /\ e.candidate = said.revealed[e.candidate.commitment]
               /\ e.outcome = "passed" =>
                      \A i \in DOMAIN e.candidate.commitment.cases :
                          e.candidate.map.gives[e.candidate.commitment.cases[i].input]
                              = e.candidate.commitment.cases[i].output
               /\ e.how # Challenge!InProcess => e.how.runner \in Faithful \intersect kept.runners
    <3>1. e.outcome = Challenge!Outcome(e.candidate)
        BY <2>1, EvaluationIs DEF EvaluationOK
    <3>2. e.outcome = "passed" =>
              \A i \in DOMAIN e.candidate.commitment.cases :
                  e.candidate.map.gives[e.candidate.commitment.cases[i].input]
                      = e.candidate.commitment.cases[i].output
        BY <3>1 DEF Challenge!Outcome, Challenge!Observed
    <3> QED BY <2>1, <3>2, Zenon DEF AuthenticOK, EvaluationOK, Challenge!Sealed, Challenge!ClaimStands,
                              Challenge!RevealStands
  <2> QED BY <2>2, <2>3 DEF Challenge!OneVerdict
<1> QED BY <1>2, <1>3 DEF ChallengeSound

-----------------------------------------------------------------------------
(* The files that are read while they are rewritten. *)

LEMMA EntryIs ==
    ASSUME NEW x, NEW y PROVE DOMAIN Entry(x, y) = {x} /\ Entry(x, y)[x] = y
BY DEF Entry

LEMMA MergedIs ==
    ASSUME NEW f, NEW g
    PROVE  /\ DOMAIN Merged(f, g) = DOMAIN f \union DOMAIN g
           /\ \A x \in DOMAIN f : Merged(f, g)[x] = f[x]
           /\ \A x \in DOMAIN g \ DOMAIN f : Merged(f, g)[x] = g[x]
           /\ Merged(f, g) = [x \in DOMAIN Merged(f, g) |-> Merged(f, g)[x]]
BY DEF Merged

\* What was noted first is all that is known, when it is added to nothing.
LEMMA MergedWithNothing ==
    ASSUME NEW g, g = [x \in DOMAIN g |-> g[x]] PROVE Merged(<<>>, g) = g
<1>1. DOMAIN <<>> = {}
    OBVIOUS
<1>2. Merged(<<>>, g) = [x \in DOMAIN g |-> g[x]]
    BY <1>1 DEF Merged
<1> QED BY <1>2

\* A part was read before, or it is the present one.
LEMMA ReadNextIs ==
    ASSUME NEW p \in Procs, NEW f \in Sources
    PROVE  /\ ReadNext(p, f) = [t \in DOMAIN ReadNext(p, f) |-> ReadNext(p, f)[t]]
           /\ \A t \in DOMAIN ReadNext(p, f) :
                  \/ t \in DOMAIN job[p].pass /\ ReadNext(p, f)[t] = job[p].pass[t]
                  \/ ReadNext(p, f)[t] = disk[f][t]
<1> DEFINE u == Parts[f][Cardinality(DOMAIN job[p].pass) + 1]
           e == Entry(u, disk[f][u])
<1>1. ReadNext(p, f) = Merged(job[p].pass, e)
    BY DEF ReadNext
<1>2. DOMAIN e = {u} /\ e[u] = disk[f][u]
    BY EntryIs
<1> DEFINE n == Merged(job[p].pass, e)
<1> HIDE DEF e, u
<1>3. /\ n = [t \in DOMAIN n |-> n[t]] /\ DOMAIN n = DOMAIN job[p].pass \union DOMAIN e
      /\ (\A t \in DOMAIN job[p].pass : n[t] = job[p].pass[t])
      /\ \A t \in DOMAIN e \ DOMAIN job[p].pass : n[t] = e[t]
    BY DEF Merged
<1> HIDE DEF n
<1>4. /\ n = [t \in DOMAIN n |-> n[t]]
      /\ \A t \in DOMAIN n :
             (t \in DOMAIN job[p].pass /\ n[t] = job[p].pass[t]) \/ n[t] = disk[f][t]
    BY <1>2, <1>3
<1> QED BY <1>1, <1>4 DEF n

\* A digest of the parts of f, noted as x.
Knows(k, x, f) == x \in DOMAIN k.seen /\ k.seen[x] = [t \in PartsOf(f) |-> k.seen[x][t]]

IsJob(k) ==
    k = [op |-> k.op, at |-> k.at, pass |-> k.pass, seen |-> k.seen, values |-> k.values,
         since |-> k.since, claim |-> k.claim]

NormalizeOK(k) ==
    k.op = "normalize" =>
        /\ k.at \in {"index", "shard1", "shard2", "copy1"} => k.values = <<>>
        /\ k.at \in {"shard2", "copy1", "copy2", "install", "record"} => Knows(k, "shard1", "shard1")
        /\ k.at \in {"copy1", "copy2", "install", "record"} => Knows(k, "shard2", "shard2")
        /\ k.at = "copy2" => k.values = k.seen["shard1"]
        /\ k.at \in {"install", "record"} => k.values = Merged(k.seen["shard1"], k.seen["shard2"])

ReadoutOK(k) ==
    k.op = "readout" =>
        /\ k.at \in {"open", "read"} => k.values = <<>>
        /\ k.at \in {"read", "answer"} => Knows(k, "base", "base")
        /\ k.at = "answer" => k.values = k.seen["base"]

CombineOK(k) == k.op = "combine" /\ k.at = "install" => Referenced(k.values)

ProfileOK(k) ==
    k.op = "profile" =>
        /\ k.at \in {"checkpoint", "config", "inventory", "metadata"} => k.values = <<>>
        /\ k.at \in {"inventory", "metadata", "live", "live_config", "persist"} =>
               Knows(k, "config", "config")
        /\ k.at \in {"live", "live_config", "persist"} => k.values = k.seen["config"]

\* How often the adapter was rewritten since the import began.
Since(k, count) == rewrites["adapter"] >= k.since + count
\* What was read of the adapter is there, or it was rewritten after.
StillThere(k, pass) ==
    \A t \in PartsOf("adapter") :
        t \in DOMAIN pass /\ disk["adapter"][t] # pass[t] => Since(k, 1)
\* What differs from the digest was written after it, and if the digest is right
\* again, somebody has written it back.
Differs(k, pass) ==
    \A t \in PartsOf("adapter") :
        t \in DOMAIN pass /\ pass[t] # k.seen["adapter"][t] =>
            /\ Since(k, 1)
            /\ disk["adapter"][t] = k.seen["adapter"][t] => Since(k, 2)
\* What is right again was written back.
WrittenBack(k, pass) ==
    \A t \in PartsOf("adapter") :
        /\ t \in DOMAIN pass /\ pass[t] = k.seen["adapter"][t]
        /\ k.seen["factors"][t] # k.seen["adapter"][t]
        => Since(k, 2)

Compared == {"delta", "check_base", "check_adapter", "check_config", "receipt"}
LoraOK(k) ==
    k.op = "lora" =>
        /\ k.since \in Nat /\ k.since <= rewrites["adapter"]
        /\ k.at \in {"config", "base", "adapter", "factors", "read"} => k.values = <<>>
        /\ k.at = "adapter" => StillThere(k, k.pass)
        /\ k.at \in {"factors", "read", "check"} \union Compared =>
               Knows(k, "adapter", "adapter") /\ StillThere(k, k.seen["adapter"])
        /\ k.at = "factors" => Differs(k, k.pass)
        /\ k.at \in {"read", "check"} \union Compared =>
               Knows(k, "factors", "adapter") /\ Differs(k, k.seen["factors"])
        /\ k.at \in {"check"} \union Compared => k.values = k.seen["factors"]
        /\ k.at = "check" => WrittenBack(k, k.pass)
        /\ k.at \in Compared => k.values = k.seen["adapter"] \/ Since(k, 2)

ActuateOK(k) ==
    k.op \in Actuating =>
        /\ k.op = "materialize" => k.claim \in Requests
        /\ k.op = "authenticate" => \E q \in Requests : k.claim.output = q.output
        /\ k.at \in {"plan", "open"} =>
               \A t \in PartsOf("base") : t \in DOMAIN k.pass => k.pass[t] \in Versions
        /\ k.at \in {"objects", "place"} => k.pass = <<>>
        /\ k.at \in {"plan", "objects", "place", "open", "delta"} => k.values = <<>>
        /\ k.at \in {"delta", "stream", "finish", "link", "compare", "installed"} =>
               /\ "base" \in DOMAIN k.seen
               /\ k.seen["base"] \in [PartsOf("base") -> Versions]
               /\ k.op = "materialize" => k.seen["base"] = k.claim.base
        /\ k.at \in {"stream", "finish"} =>
               /\ k.values = [t \in DOMAIN k.values |-> k.values[t]]
               /\ \A t \in DOMAIN k.values : t = "d" \/ k.values[t] = k.seen["base"][t]
        /\ k.at = "finish" => DOMAIN k.values = PartsOf("base") \union {"d"}
        /\ k.at \in {"link", "compare", "installed"} => k.values = Made(k.seen["base"])

JobOK(k) ==
    /\ IsJob(k)
    /\ NormalizeOK(k) /\ ReadoutOK(k) /\ CombineOK(k) /\ ProfileOK(k) /\ LoraOK(k) /\ ActuateOK(k)

FilesTypes ==
    /\ disk = [f \in Sources |-> disk[f]]
    /\ \A f \in Sources : disk[f] \in [PartsOf(f) -> Versions]
    /\ rewrites \in [Sources -> Nat]
    /\ job = [p \in Procs |-> job[p]]

\* What is told of a path is there, for ever.
TrueReceipt(r) ==
    /\ r.output \in DOMAIN outputs /\ outputs[r.output] = r.content
    /\ r.content = Made(r.base) /\ r.content # None
RecordOK(r) ==
    /\ r.kind = "normalization" => r.checkpoint = r.shards
    /\ r.kind = "readout" => r.weights = r.model
    /\ r.kind = "profile" => r.architecture = r.config
    /\ r.kind = "axis" => Exact(r) \/ r.raced
    /\ r.kind = "output" => TrueReceipt(r)
InstalledOK(o) ==
    outputs[o] # None => \E q \in Requests : q.output = o /\ outputs[o] = Made(q.base)
WrittenOK ==
    /\ outputs = [o \in {q.output : q \in Requests} |-> outputs[o]]
    /\ \A o \in DOMAIN outputs : InstalledOK(o)
    /\ \A r \in records : RecordOK(r)
    /\ \A r \in confirmed : TrueReceipt(r)
    /\ \A a \in admitted : Exact(a.receipt) \/ a.raced
    /\ \A c \in store : "combined" \in DOMAIN c => Referenced(c.combined)

FilesInv == FilesTypes /\ (\A p \in Procs : JobOK(job[p])) /\ WrittenOK

LEMMA FilesAre ==
    /\ {"index", "shard1", "shard2", "base", "adapter", "config", "delta", "delta1", "delta2"}
           \subseteq Sources
    /\ Modified \in PartsOf("base") /\ "d" \notin PartsOf("base")
    /\ "combined" \notin PartsOf("shard1") \union PartsOf("shard2")
    /\ 1 \in Versions /\ None \notin Requests
    /\ None \notin [PartsOf("base") \union {"d"} -> Versions]
    /\ Parts["base"] \in Seq(PartsOf("base"))
BY FilesAssumption DEF PartsOf, Sources

LEMMA IdleOK == JobOK(Idle)
BY DEF JobOK, IsJob, Idle, NormalizeOK, ReadoutOK, CombineOK, ProfileOK, LoraOK, ActuateOK, Actuating

\* One caller moves, and the files are as they are.
LEMMA JobMoves ==
    ASSUME FilesTypes, \A q \in Procs : JobOK(job[q]), UNCHANGED <<disk, rewrites>>,
           NEW p \in Procs, NEW k, JobOK(k), job' = [job EXCEPT ![p] = k]
    PROVE  FilesTypes' /\ \A q \in Procs : JobOK(job[q])'
<1>1. job'[p] = k /\ (\A q \in Procs \ {p} : job'[q] = job[q]) /\ job' = [q \in Procs |-> job'[q]]
    BY DEF FilesTypes
<1>2. FilesTypes'
    BY <1>1 DEF FilesTypes
<1>3. ASSUME NEW q \in Procs PROVE JobOK(job[q])'
  <2>1. PICK j : j = job'[q] /\ JobOK(j)
      BY <1>1
  <2>2. JobOK(j)'
      BY <2>1 DEF JobOK, NormalizeOK, ReadoutOK, CombineOK, ProfileOK, LoraOK, ActuateOK, Since, StillThere,
                  Differs, WrittenBack
  <2> QED BY <2>1, <2>2
<1> QED BY <1>2, <1>3

\* A job that goes on from another one.
Goes(k, j, at, pass, seen, values) ==
    k = [op |-> j.op, at |-> at, pass |-> pass, seen |-> seen, values |-> values,
         since |-> j.since, claim |-> j.claim]

LEMMA GoesIs ==
    ASSUME NEW k, NEW j, NEW at, NEW pass, NEW seen, NEW values, Goes(k, j, at, pass, seen, values)
    PROVE  /\ IsJob(k) /\ k.op = j.op /\ k.at = at /\ k.pass = pass /\ k.seen = seen
           /\ k.values = values /\ k.since = j.since /\ k.claim = j.claim
BY DEF Goes, IsJob

\* A job that goes on from another one, and has noted what was read.
Notes(k, j, at, x, n) == Goes(k, j, at, <<>>, Merged(Entry(x, n), j.seen), j.values)

\* What is known of the file that was opened.
LEMMA Opened ==
    ASSUME NEW k, NEW j, NEW at, NEW x, NEW n, Notes(k, j, at, x, n)
    PROVE  /\ IsJob(k) /\ k.op = j.op /\ k.at = at /\ k.pass = <<>>
           /\ k.values = j.values /\ k.since = j.since /\ k.claim = j.claim
           /\ DOMAIN k.seen = DOMAIN j.seen \union {x} /\ k.seen[x] = n
           /\ \A z \in DOMAIN j.seen \ {x} : k.seen[z] = j.seen[z]
<1>0. PICK g : g = j.seen
    OBVIOUS
<1> DEFINE e == Entry(x, n)
           s == Merged(e, g)
<1>1. /\ DOMAIN s = DOMAIN g \union {x} /\ s[x] = n
      /\ \A z \in DOMAIN g \ {x} : s[z] = g[z]
  <2>1. DOMAIN e = {x} /\ e[x] = n
      BY EntryIs
  <2> HIDE DEF e
  <2>2. /\ DOMAIN s = DOMAIN e \union DOMAIN g /\ (\A z \in DOMAIN e : s[z] = e[z])
        /\ \A z \in DOMAIN g \ DOMAIN e : s[z] = g[z]
      BY DEF Merged
  <2> HIDE DEF s
  <2> QED BY <2>1, <2>2
<1> HIDE DEF s
<1>2. Goes(k, j, at, <<>>, s, j.values)
    BY <1>0 DEF Notes, s, e
<1>3. /\ IsJob(k) /\ k.op = j.op /\ k.at = at /\ k.pass = <<>> /\ k.seen = s
      /\ k.values = j.values /\ k.since = j.since /\ k.claim = j.claim
    BY <1>2, GoesIs
<1> QED BY <1>0, <1>1, <1>3

LEMMA OneOperation ==
    ASSUME NEW k, IsJob(k)
    PROVE  /\ k.op = "normalize" /\ NormalizeOK(k) => JobOK(k)
           /\ k.op = "readout" /\ ReadoutOK(k) => JobOK(k)
           /\ k.op = "combine" /\ CombineOK(k) => JobOK(k)
           /\ k.op = "profile" /\ ProfileOK(k) => JobOK(k)
           /\ k.op = "lora" /\ LoraOK(k) => JobOK(k)
           /\ k.op \in Actuating /\ ActuateOK(k) => JobOK(k)
BY DEF JobOK, NormalizeOK, ReadoutOK, CombineOK, ProfileOK, LoraOK, ActuateOK, Actuating

\* What the assignments of a step make of the job.
LEMMA JobFields ==
    ASSUME NEW j, IsJob(j)
    PROVE  \E op, at, pass, seen, values, since, claim :
               j = [op |-> op, at |-> at, pass |-> pass, seen |-> seen, values |-> values,
                    since |-> since, claim |-> claim]
BY DEF IsJob

\* What is assigned to two fields, or to four, one after the other.
LEMMA TwoUpdates ==
    ASSUME NEW j, NEW a, NEW s
    PROVE  /\ [j EXCEPT !.at = a, !.seen = s] = [[j EXCEPT !.at = a] EXCEPT !.seen = s]
           /\ [j EXCEPT !.at = a, !.values = s] = [[j EXCEPT !.at = a] EXCEPT !.values = s]
OBVIOUS

LEMMA FourUpdates ==
    ASSUME NEW j, NEW o, NEW a, NEW s, NEW c
    PROVE  [j EXCEPT !.op = o, !.at = a, !.since = s, !.claim = c] =
               [[[[j EXCEPT !.op = o] EXCEPT !.at = a] EXCEPT !.since = s] EXCEPT !.claim = c]
OBVIOUS

LEMMA JobUpdates ==
    ASSUME NEW j, IsJob(j), NEW a, NEW n, NEW s
    PROVE  /\ Goes([j EXCEPT !.pass = n], j, j.at, n, j.seen, j.values)
           /\ Goes([j EXCEPT !.at = a], j, a, j.pass, j.seen, j.values)
           /\ Goes([j EXCEPT !.values = s], j, j.at, j.pass, j.seen, s)
           /\ Goes([[j EXCEPT !.at = a] EXCEPT !.pass = <<>>], j, a, <<>>, j.seen, j.values)
           /\ Goes([[j EXCEPT !.at = a, !.seen = s] EXCEPT !.pass = <<>>], j, a, <<>>, s, j.values)
           /\ Goes([[j EXCEPT !.at = a, !.values = s] EXCEPT !.pass = <<>>], j, a, <<>>, j.seen, s)
<1>1. PICK op, at, pass, seen, values, since, claim :
          j = [op |-> op, at |-> at, pass |-> pass, seen |-> seen, values |-> values,
               since |-> since, claim |-> claim]
    BY JobFields
<1>2. /\ j.op = op /\ j.at = at /\ j.pass = pass /\ j.seen = seen /\ j.values = values
      /\ j.since = since /\ j.claim = claim
    BY <1>1
<1>3. /\ [j EXCEPT !.pass = n] =
             [op |-> op, at |-> at, pass |-> n, seen |-> seen, values |-> values,
              since |-> since, claim |-> claim]
      /\ [j EXCEPT !.at = a] =
             [op |-> op, at |-> a, pass |-> pass, seen |-> seen, values |-> values,
              since |-> since, claim |-> claim]
      /\ [j EXCEPT !.values = s] =
             [op |-> op, at |-> at, pass |-> pass, seen |-> seen, values |-> s,
              since |-> since, claim |-> claim]
    BY <1>1
<1>4. [[j EXCEPT !.at = a] EXCEPT !.pass = <<>>] =
          [op |-> op, at |-> a, pass |-> <<>>, seen |-> seen, values |-> values,
           since |-> since, claim |-> claim]
  <2>1. [j EXCEPT !.at = a] =
          [op |-> op, at |-> a, pass |-> pass, seen |-> seen, values |-> values,
           since |-> since, claim |-> claim]
      BY <1>1
  <2>2. \A e : [[op |-> op, at |-> a, pass |-> pass, seen |-> seen, values |-> values,
           since |-> since, claim |-> claim]
               EXCEPT !.pass = e] =
          [op |-> op, at |-> a, pass |-> e, seen |-> seen, values |-> values,
           since |-> since, claim |-> claim]
      OBVIOUS
  <2> QED BY <2>1, <2>2
<1>5. [[j EXCEPT !.at = a, !.seen = s] EXCEPT !.pass = <<>>] =
          [op |-> op, at |-> a, pass |-> <<>>, seen |-> s, values |-> values,
           since |-> since, claim |-> claim]
  <2>1. [j EXCEPT !.at = a, !.seen = s] =
          [op |-> op, at |-> a, pass |-> pass, seen |-> s, values |-> values,
           since |-> since, claim |-> claim]
    <3>1. [[op |-> op, at |-> a, pass |-> pass, seen |-> seen, values |-> values,
           since |-> since, claim |-> claim]
             EXCEPT !.seen = s] =
          [op |-> op, at |-> a, pass |-> pass, seen |-> s, values |-> values,
           since |-> since, claim |-> claim]
        OBVIOUS
    <3>2. [j EXCEPT !.at = a] =
          [op |-> op, at |-> a, pass |-> pass, seen |-> seen, values |-> values,
           since |-> since, claim |-> claim]
        BY <1>3
    <3>3. [j EXCEPT !.at = a, !.seen = s] = [[j EXCEPT !.at = a] EXCEPT !.seen = s]
        BY TwoUpdates
    <3> QED BY <3>1, <3>2, <3>3
  <2>2. \A e : [[op |-> op, at |-> a, pass |-> pass, seen |-> s, values |-> values,
           since |-> since, claim |-> claim]
               EXCEPT !.pass = e] =
          [op |-> op, at |-> a, pass |-> e, seen |-> s, values |-> values,
           since |-> since, claim |-> claim]
      OBVIOUS
  <2> QED BY <2>1, <2>2
<1>6. [[j EXCEPT !.at = a, !.values = s] EXCEPT !.pass = <<>>] =
          [op |-> op, at |-> a, pass |-> <<>>, seen |-> seen, values |-> s,
           since |-> since, claim |-> claim]
  <2>1. [j EXCEPT !.at = a, !.values = s] =
          [op |-> op, at |-> a, pass |-> pass, seen |-> seen, values |-> s,
           since |-> since, claim |-> claim]
    <3>1. [[op |-> op, at |-> a, pass |-> pass, seen |-> seen, values |-> values,
           since |-> since, claim |-> claim]
             EXCEPT !.values = s] =
          [op |-> op, at |-> a, pass |-> pass, seen |-> seen, values |-> s,
           since |-> since, claim |-> claim]
        OBVIOUS
    <3>2. [j EXCEPT !.at = a] =
          [op |-> op, at |-> a, pass |-> pass, seen |-> seen, values |-> values,
           since |-> since, claim |-> claim]
        BY <1>3
    <3>3. [j EXCEPT !.at = a, !.values = s] = [[j EXCEPT !.at = a] EXCEPT !.values = s]
        BY TwoUpdates
    <3> QED BY <3>1, <3>2, <3>3
  <2>2. \A e : [[op |-> op, at |-> a, pass |-> pass, seen |-> seen, values |-> s,
           since |-> since, claim |-> claim]
               EXCEPT !.pass = e] =
          [op |-> op, at |-> a, pass |-> e, seen |-> seen, values |-> s,
           since |-> since, claim |-> claim]
      OBVIOUS
  <2> QED BY <2>1, <2>2
<1> QED BY <1>2, <1>3, <1>4, <1>5, <1>6 DEF Goes

\* What one step of a pass makes of the job.
LEMMA OpenFileGives ==
    ASSUME NEW p \in Procs, IsJob(job[p]), NEW f, NEW STATE accepted, NEW at,
           OpenFile(p, f, accepted, at)
    PROVE  \E k :
               /\ job' = [job EXCEPT ![p] = k]
               /\ \/ k = Idle
                  \/ Goes(k, job[p], job[p].at, ReadNext(p, f), job[p].seen, job[p].values)
                  \/ /\ DOMAIN ReadNext(p, f) = PartsOf(f) /\ accepted
                     /\ Notes(k, job[p], at, f, ReadNext(p, f))
<1> DEFINE n == ReadNext(p, f)
           j == job[p]
           s == Merged(Entry(f, n), j.seen)
           k1 == [j EXCEPT !.pass = n]
           k2 == [[j EXCEPT !.at = at, !.seen = s] EXCEPT !.pass = <<>>]
<1>1. \/ job' = [job EXCEPT ![p] = Idle]
      \/ job' = [job EXCEPT ![p] = k1]
      \/ DOMAIN n = PartsOf(f) /\ accepted /\ job' = [job EXCEPT ![p] = k2]
    BY DEF OpenFile, Pass, Refuse
<1> HIDE DEF n, s
<1>2. Goes(k1, j, j.at, n, j.seen, j.values) /\ Goes(k2, j, at, <<>>, s, j.values)
    BY JobUpdates
<1>3. Notes(k2, j, at, f, n)
    BY <1>2 DEF Notes, s
<1> HIDE DEF k1, k2
<1> QED BY <1>1, <1>2, <1>3, Zenon DEF n

LEMMA ReadTensorsGives ==
    ASSUME NEW p \in Procs, IsJob(job[p]), NEW f, NEW STATE authentic, NEW at,
           ReadTensors(p, f, authentic, at)
    PROVE  \E k :
               /\ job' = [job EXCEPT ![p] = k]
               /\ \/ k = Idle
                  \/ Goes(k, job[p], job[p].at, ReadNext(p, f), job[p].seen, job[p].values)
                  \/ /\ DOMAIN ReadNext(p, f) = PartsOf(f) /\ Consumed(ReadNext(p, f), authentic)
                     /\ Goes(k, job[p], at, <<>>, job[p].seen, Merged(job[p].values, ReadNext(p, f)))
<1> DEFINE n == ReadNext(p, f)
           j == job[p]
           s == Merged(j.values, n)
           k1 == [j EXCEPT !.pass = n]
           k2 == [[j EXCEPT !.at = at, !.values = s] EXCEPT !.pass = <<>>]
<1>1. \/ job' = [job EXCEPT ![p] = Idle]
      \/ job' = [job EXCEPT ![p] = k1]
      \/ DOMAIN n = PartsOf(f) /\ Consumed(n, authentic) /\ job' = [job EXCEPT ![p] = k2]
    BY DEF ReadTensors, Pass, Refuse
<1> HIDE DEF n, s
<1>2. Goes(k1, j, j.at, n, j.seen, j.values) /\ Goes(k2, j, at, <<>>, j.seen, s)
    BY JobUpdates
<1> HIDE DEF k1, k2
<1> QED BY <1>1, <1>2, Zenon DEF n, s

\* A file was read to its end, and is what it was.
Kept(k, p, f, at) ==
    /\ DOMAIN ReadNext(p, f) = PartsOf(f) /\ ReadNext(p, f) = job[p].seen[f]
    /\ Goes(k, job[p], at, <<>>, job[p].seen, job[p].values)

LEMMA RehashGives ==
    ASSUME NEW p \in Procs, IsJob(job[p]), NEW f, NEW at, Rehash(p, f, at)
    PROVE  \E k :
               /\ job' = [job EXCEPT ![p] = k]
               /\ \/ k = Idle
                  \/ Goes(k, job[p], job[p].at, ReadNext(p, f), job[p].seen, job[p].values)
                  \/ Kept(k, p, f, at)
<1> DEFINE n == ReadNext(p, f)
           j == job[p]
           k1 == [j EXCEPT !.pass = n]
           k2 == [[j EXCEPT !.at = at] EXCEPT !.pass = <<>>]
<1>1. \/ job' = [job EXCEPT ![p] = Idle]
      \/ job' = [job EXCEPT ![p] = k1]
      \/ DOMAIN n = PartsOf(f) /\ n = j.seen[f] /\ job' = [job EXCEPT ![p] = k2]
    BY DEF Rehash, Pass, Refuse
<1> HIDE DEF n
<1>2. Goes(k1, j, j.at, n, j.seen, j.values) /\ Goes(k2, j, at, <<>>, j.seen, j.values)
    BY JobUpdates
<1> HIDE DEF k1, k2
<1>3. CASE job' = [job EXCEPT ![p] = Idle]
    BY <1>3
<1>4. CASE job' = [job EXCEPT ![p] = k1]
    BY <1>2, <1>4 DEF n
<1>5. CASE DOMAIN n = PartsOf(f) /\ n = j.seen[f] /\ job' = [job EXCEPT ![p] = k2]
  <2>1. Kept(k2, p, f, at)
      BY <1>2, <1>5 DEF Kept, n
  <2> QED BY <2>1, <1>5
<1> QED BY <1>1, <1>3, <1>4, <1>5

LEMMA OpenFactorsGives ==
    ASSUME NEW p \in Procs, IsJob(job[p]), OpenFactors(p)
    PROVE  \E k :
               /\ job' = [job EXCEPT ![p] = k]
               /\ \/ k = Idle
                  \/ Goes(k, job[p], job[p].at, ReadNext(p, "adapter"), job[p].seen, job[p].values)
                  \/ /\ DOMAIN ReadNext(p, "adapter") = PartsOf("adapter")
                     /\ Notes(k, job[p], "read", "factors", ReadNext(p, "adapter"))
<1> DEFINE n == ReadNext(p, "adapter")
           j == job[p]
           s == Merged(Entry("factors", n), j.seen)
           k1 == [j EXCEPT !.pass = n]
           k2 == [[j EXCEPT !.at = "read", !.seen = s] EXCEPT !.pass = <<>>]
<1>1. \/ job' = [job EXCEPT ![p] = Idle]
      \/ job' = [job EXCEPT ![p] = k1]
      \/ DOMAIN n = PartsOf("adapter") /\ job' = [job EXCEPT ![p] = k2]
    BY DEF OpenFactors, Pass, Refuse
<1> HIDE DEF n, s
<1>2. Goes(k1, j, j.at, n, j.seen, j.values) /\ Goes(k2, j, "read", <<>>, s, j.values)
    BY JobUpdates
<1>3. Notes(k2, j, "read", "factors", n)
    BY <1>2 DEF Notes, s
<1> HIDE DEF k1, k2
<1> QED BY <1>1, <1>2, <1>3, Zenon DEF n

\* A call begins.
LEMMA BeginGives ==
    ASSUME NEW p \in Procs, NEW op, NEW at, NEW STATE since, NEW STATE claim,
           Begin(p, op, at, since, claim)
    PROVE  \E k :
               /\ job' = [job EXCEPT ![p] = k] /\ IsJob(k)
               /\ k.op = op /\ k.at = at /\ k.pass = <<>> /\ k.seen = <<>> /\ k.values = <<>>
               /\ k.since = since /\ k.claim = claim
<1> DEFINE k == [Idle EXCEPT !.op = op, !.at = at, !.since = since, !.claim = claim]
<1>0. k = [op |-> op, at |-> at, pass |-> <<>>, seen |-> <<>>, values |-> <<>>,
           since |-> since, claim |-> claim]
  <2>1. Idle = [op |-> "none", at |-> "none", pass |-> <<>>, seen |-> <<>>, values |-> <<>>,
                since |-> 0, claim |-> None]
      BY DEF Idle
  <2>2. [[op |-> "none", at |-> "none", pass |-> <<>>, seen |-> <<>>, values |-> <<>>,
           since |-> 0, claim |-> None]
           EXCEPT !.op = op] =
          [op |-> op, at |-> "none", pass |-> <<>>, seen |-> <<>>, values |-> <<>>,
           since |-> 0, claim |-> None]
      OBVIOUS
  <2>3. [[op |-> op, at |-> "none", pass |-> <<>>, seen |-> <<>>, values |-> <<>>,
           since |-> 0, claim |-> None]
           EXCEPT !.at = at] =
          [op |-> op, at |-> at, pass |-> <<>>, seen |-> <<>>, values |-> <<>>,
           since |-> 0, claim |-> None]
      OBVIOUS
  <2>4. [[op |-> op, at |-> at, pass |-> <<>>, seen |-> <<>>, values |-> <<>>,
           since |-> 0, claim |-> None]
           EXCEPT !.since = since] =
          [op |-> op, at |-> at, pass |-> <<>>, seen |-> <<>>, values |-> <<>>,
           since |-> since, claim |-> None]
      OBVIOUS
  <2>5. [[op |-> op, at |-> at, pass |-> <<>>, seen |-> <<>>, values |-> <<>>,
           since |-> since, claim |-> None]
           EXCEPT !.claim = claim] =
          [op |-> op, at |-> at, pass |-> <<>>, seen |-> <<>>, values |-> <<>>,
           since |-> since, claim |-> claim]
      OBVIOUS
  <2>6. k = [[[[Idle EXCEPT !.op = op] EXCEPT !.at = at] EXCEPT !.since = since] EXCEPT !.claim = claim]
      BY FourUpdates
  <2> HIDE DEF k
  <2> QED BY <2>1, <2>2, <2>3, <2>4, <2>5, <2>6
<1>1. /\ k.op = op /\ k.at = at /\ k.pass = <<>> /\ k.seen = <<>> /\ k.values = <<>>
      /\ k.since = since /\ k.claim = claim /\ IsJob(k)
  <2> HIDE DEF k
  <2> QED BY <1>0 DEF IsJob
<1>2. job' = [job EXCEPT ![p] = k]
    BY DEF Begin
<1> HIDE DEF k
<1> QED BY <1>1, <1>2

\* What is remembered of the adapter is as true of a job that knows as much.
LEMMA SameSince ==
    ASSUME NEW k, NEW j, k.since = j.since, NEW x, k.seen["adapter"] = j.seen["adapter"]
    PROVE  /\ StillThere(j, x) => StillThere(k, x)
           /\ Differs(j, x) => Differs(k, x)
           /\ k.seen["factors"] = j.seen["factors"] /\ WrittenBack(j, x) => WrittenBack(k, x)
           /\ Since(j, 2) => Since(k, 2)
BY DEF StillThere, Differs, WrittenBack, Since

LEMMA NothingRead ==
    ASSUME NEW k PROVE StillThere(k, <<>>) /\ Differs(k, <<>>) /\ WrittenBack(k, <<>>)
<1>1. DOMAIN <<>> = {}
    OBVIOUS
<1> QED BY <1>1 DEF StillThere, Differs, WrittenBack

\* One part more of the adapter was read.
LEMMA OneMoreRead ==
    ASSUME NEW j, NEW old, NEW n,
           \A t \in DOMAIN n : (t \in DOMAIN old /\ n[t] = old[t]) \/ n[t] = disk["adapter"][t]
    PROVE  /\ StillThere(j, old) => StillThere(j, n)
           /\ Knows(j, "adapter", "adapter") /\ StillThere(j, j.seen["adapter"]) /\ Differs(j, old)
                  => Differs(j, n)
           /\ Knows(j, "factors", "adapter") /\ Differs(j, j.seen["factors"]) /\ WrittenBack(j, old)
                  => WrittenBack(j, n)
<1>1. StillThere(j, old) => StillThere(j, n)
    BY DEF StillThere
<1>2. ASSUME Knows(j, "adapter", "adapter"), StillThere(j, j.seen["adapter"]), Differs(j, old)
      PROVE  Differs(j, n)
  <2>1. ASSUME NEW t \in PartsOf("adapter"), t \in DOMAIN n, n[t] # j.seen["adapter"][t]
        PROVE  Since(j, 1) /\ (disk["adapter"][t] = j.seen["adapter"][t] => Since(j, 2))
    <3>1. CASE t \in DOMAIN old /\ n[t] = old[t]
        BY <1>2, <2>1, <3>1 DEF Differs
    <3>2. CASE n[t] = disk["adapter"][t]
      <4>1. t \in DOMAIN j.seen["adapter"]
          BY <1>2, <2>1 DEF Knows
      <4> QED BY <1>2, <2>1, <3>2, <4>1 DEF StillThere
    <3> QED BY <2>1, <3>1, <3>2
  <2> QED BY <2>1 DEF Differs
<1>3. ASSUME Knows(j, "factors", "adapter"), Differs(j, j.seen["factors"]), WrittenBack(j, old)
      PROVE  WrittenBack(j, n)
  <2>1. ASSUME NEW t \in PartsOf("adapter"), t \in DOMAIN n, n[t] = j.seen["adapter"][t],
               j.seen["factors"][t] # j.seen["adapter"][t]
        PROVE  Since(j, 2)
    <3>1. CASE t \in DOMAIN old /\ n[t] = old[t]
        BY <1>3, <2>1, <3>1 DEF WrittenBack
    <3>2. CASE n[t] = disk["adapter"][t]
      <4>1. t \in DOMAIN j.seen["factors"]
          BY <1>3, <2>1 DEF Knows
      <4> QED BY <1>3, <2>1, <3>2, <4>1 DEF Differs
    <3> QED BY <2>1, <3>1, <3>2
  <2> QED BY <2>1 DEF WrittenBack
<1> QED BY <1>1, <1>2, <1>3

\* A pass that goes on: what the job knows does not depend on how far it is.
LEMMA PassGoesOn ==
    ASSUME FilesTypes, NEW j, JobOK(j), NEW f \in Sources, NEW n, NEW k,
           Goes(k, j, j.at, n, j.seen, j.values),
           \A t \in DOMAIN n : (t \in DOMAIN j.pass /\ n[t] = j.pass[t]) \/ n[t] = disk[f][t],
           j.op = "lora" /\ j.at \in {"adapter", "factors", "check"} => f = "adapter",
           j.op \in Actuating => j.at \notin {"objects", "place"} /\ (j.at \in {"plan", "open"} => f = "base")
    PROVE  JobOK(k)
<1>1. /\ IsJob(k) /\ k.op = j.op /\ k.at = j.at /\ k.pass = n /\ k.seen = j.seen
      /\ k.values = j.values /\ k.since = j.since /\ k.claim = j.claim
    BY GoesIs
<1>2. NormalizeOK(k) /\ ReadoutOK(k) /\ CombineOK(k) /\ ProfileOK(k)
    BY <1>1 DEF JobOK, NormalizeOK, ReadoutOK, CombineOK, ProfileOK, Knows
<1>3. LoraOK(k)
  <2>1. LoraOK(j)
      BY DEF JobOK
  <2> SUFFICES ASSUME j.op = "lora" PROVE LoraOK(k)
      BY <1>1 DEF LoraOK
  <2>2. j.at = "adapter" => StillThere(k, k.pass)
    <3>1. j.at = "adapter" => StillThere(j, n)
        BY <2>1, OneMoreRead DEF LoraOK
    <3> QED BY <1>1, <3>1, SameSince
  <2>3. j.at = "factors" => Differs(k, k.pass)
    <3>1. j.at = "factors" => Differs(j, n)
        BY <2>1, OneMoreRead DEF LoraOK
    <3> QED BY <1>1, <3>1, SameSince
  <2>4. j.at = "check" => WrittenBack(k, k.pass)
    <3>1. j.at = "check" => WrittenBack(j, n)
        BY <2>1, OneMoreRead DEF LoraOK
    <3> QED BY <1>1, <3>1, SameSince
  <2>5. /\ StillThere(k, k.seen["adapter"]) <=> StillThere(j, j.seen["adapter"])
        /\ Differs(k, k.seen["factors"]) <=> Differs(j, j.seen["factors"])
        /\ Since(k, 2) <=> Since(j, 2)
      BY <1>1, SameSince DEF Since
  <2>6. /\ Knows(k, "adapter", "adapter") <=> Knows(j, "adapter", "adapter")
        /\ Knows(k, "factors", "adapter") <=> Knows(j, "factors", "adapter")
      BY <1>1 DEF Knows
  <2> QED BY <1>1, <2>1, <2>2, <2>3, <2>4, <2>5, <2>6 DEF LoraOK
<1>4. ActuateOK(k)
  <2>1. ActuateOK(j)
      BY DEF JobOK
  <2> SUFFICES ASSUME j.op \in Actuating PROVE ActuateOK(k)
      BY <1>1 DEF ActuateOK
  <2>2. j.at \in {"plan", "open"} => \A t \in PartsOf("base") : t \in DOMAIN n => n[t] \in Versions
    <3>1. \A t \in PartsOf("base") : disk["base"][t] \in Versions
        BY FilesAre DEF FilesTypes
    <3> QED BY <2>1, <3>1 DEF ActuateOK
  <2> QED BY <1>1, <2>1, <2>2 DEF ActuateOK
<1> QED BY <1>1, <1>2, <1>3, <1>4 DEF JobOK

\* The steps that read: what they find keeps what is known of the job.

LEMMA IndexRead ==
    ASSUME FilesTypes, \A q \in Procs : JobOK(job[q]), UNCHANGED <<disk, rewrites>>,
           NEW p \in Procs, At(p, "normalize", "index"), OpenFile(p, "index", TRUE, "shard1")
    PROVE  FilesTypes' /\ \A q \in Procs : JobOK(job[q])'
<1> DEFINE j == job[p]
           n == ReadNext(p, "index")
<1>1. JobOK(j) /\ IsJob(j) /\ j.op = "normalize" /\ j.at = "index"
    BY DEF At, JobOK, Actuating
<1>2. /\ n = [t \in DOMAIN n |-> n[t]]
      /\ \A t \in DOMAIN n :
             (t \in DOMAIN j.pass /\ n[t] = j.pass[t]) \/ n[t] = disk["index"][t]
  <2>1. "index" \in Sources
      BY FilesAre
  <2> QED BY <2>1, ReadNextIs
<1>3. PICK k :
          /\ job' = [job EXCEPT ![p] = k]
          /\ \/ k = Idle
             \/ Goes(k, j, j.at, n, j.seen, j.values)
             \/ (DOMAIN n = PartsOf("index")
                  /\ Notes(k, j, "shard1", "index", n))
    BY <1>1, OpenFileGives
<1> HIDE DEF n, j
<1>4. CASE k = Idle
    BY <1>3, <1>4, IdleOK, JobMoves
<1>5. CASE Goes(k, j, j.at, n, j.seen, j.values)
  <2>1. "index" \in Sources
      BY FilesAre
  <2>2. /\ j.op = "lora" /\ j.at \in {"adapter", "factors", "check"} => "index" = "adapter"
        /\ j.op \in Actuating => j.at \notin {"objects", "place"} /\ (j.at \in {"plan", "open"} => "index" = "base")
      BY <1>1 DEF Actuating
  <2>3. JobOK(k)
      BY <1>1, <1>2, <1>5, <2>1, <2>2, PassGoesOn
  <2> QED BY <1>3, <2>3, JobMoves
<1>6. CASE DOMAIN n = PartsOf("index")
         /\ Notes(k, j, "shard1", "index", n)
  <2>0. DOMAIN n = PartsOf("index") /\ n = [t \in PartsOf("index") |-> n[t]]
      BY <1>2, <1>6
  <2>1. /\ IsJob(k) /\ k.op = j.op /\ k.at = "shard1" /\ k.pass = <<>>
        /\ k.values = j.values /\ k.since = j.since /\ k.claim = j.claim
        /\ DOMAIN k.seen = DOMAIN j.seen \union {"index"} /\ k.seen["index"] = n
        /\ \A z \in DOMAIN j.seen \ {"index"} : k.seen[z] = j.seen[z]
      BY <1>6, Opened
  <2>2. n = [t \in PartsOf("index") |-> n[t]]
      BY <2>0
  <2>3. NormalizeOK(k)
      BY <1>1, <1>2, <1>6, <2>1, <2>2 DEF JobOK, NormalizeOK, Knows
  <2>4. JobOK(k)
      BY <1>1, <2>1, <2>3, OneOperation
  <2> QED BY <1>3, <2>4, JobMoves
<1> QED BY <1>3, <1>4, <1>5, <1>6

LEMMA Shard1Opened ==
    ASSUME FilesTypes, \A q \in Procs : JobOK(job[q]), UNCHANGED <<disk, rewrites>>,
           NEW p \in Procs, At(p, "normalize", "shard1"), OpenFile(p, "shard1", TRUE, "shard2")
    PROVE  FilesTypes' /\ \A q \in Procs : JobOK(job[q])'
<1> DEFINE j == job[p]
           n == ReadNext(p, "shard1")
<1>1. JobOK(j) /\ IsJob(j) /\ j.op = "normalize" /\ j.at = "shard1"
    BY DEF At, JobOK, Actuating
<1>2. /\ n = [t \in DOMAIN n |-> n[t]]
      /\ \A t \in DOMAIN n :
             (t \in DOMAIN j.pass /\ n[t] = j.pass[t]) \/ n[t] = disk["shard1"][t]
  <2>1. "shard1" \in Sources
      BY FilesAre
  <2> QED BY <2>1, ReadNextIs
<1>3. PICK k :
          /\ job' = [job EXCEPT ![p] = k]
          /\ \/ k = Idle
             \/ Goes(k, j, j.at, n, j.seen, j.values)
             \/ (DOMAIN n = PartsOf("shard1")
                  /\ Notes(k, j, "shard2", "shard1", n))
    BY <1>1, OpenFileGives
<1> HIDE DEF n, j
<1>4. CASE k = Idle
    BY <1>3, <1>4, IdleOK, JobMoves
<1>5. CASE Goes(k, j, j.at, n, j.seen, j.values)
  <2>1. "shard1" \in Sources
      BY FilesAre
  <2>2. /\ j.op = "lora" /\ j.at \in {"adapter", "factors", "check"} => "shard1" = "adapter"
        /\ j.op \in Actuating => j.at \notin {"objects", "place"} /\ (j.at \in {"plan", "open"} => "shard1" = "base")
      BY <1>1 DEF Actuating
  <2>3. JobOK(k)
      BY <1>1, <1>2, <1>5, <2>1, <2>2, PassGoesOn
  <2> QED BY <1>3, <2>3, JobMoves
<1>6. CASE DOMAIN n = PartsOf("shard1")
         /\ Notes(k, j, "shard2", "shard1", n)
  <2>0. DOMAIN n = PartsOf("shard1") /\ n = [t \in PartsOf("shard1") |-> n[t]]
      BY <1>2, <1>6
  <2>1. /\ IsJob(k) /\ k.op = j.op /\ k.at = "shard2" /\ k.pass = <<>>
        /\ k.values = j.values /\ k.since = j.since /\ k.claim = j.claim
        /\ DOMAIN k.seen = DOMAIN j.seen \union {"shard1"} /\ k.seen["shard1"] = n
        /\ \A z \in DOMAIN j.seen \ {"shard1"} : k.seen[z] = j.seen[z]
      BY <1>6, Opened
  <2>2. n = [t \in PartsOf("shard1") |-> n[t]]
      BY <2>0
  <2>3. NormalizeOK(k)
      BY <1>1, <1>2, <1>6, <2>1, <2>2 DEF JobOK, NormalizeOK, Knows
  <2>4. JobOK(k)
      BY <1>1, <2>1, <2>3, OneOperation
  <2> QED BY <1>3, <2>4, JobMoves
<1> QED BY <1>3, <1>4, <1>5, <1>6

LEMMA Shard2Opened ==
    ASSUME FilesTypes, \A q \in Procs : JobOK(job[q]), UNCHANGED <<disk, rewrites>>,
           NEW p \in Procs, At(p, "normalize", "shard2"), OpenFile(p, "shard2", Bijective(p, ReadNext(p, "shard2")), "copy1")
    PROVE  FilesTypes' /\ \A q \in Procs : JobOK(job[q])'
<1> DEFINE j == job[p]
           n == ReadNext(p, "shard2")
<1>1. JobOK(j) /\ IsJob(j) /\ j.op = "normalize" /\ j.at = "shard2"
    BY DEF At, JobOK, Actuating
<1>2. /\ n = [t \in DOMAIN n |-> n[t]]
      /\ \A t \in DOMAIN n :
             (t \in DOMAIN j.pass /\ n[t] = j.pass[t]) \/ n[t] = disk["shard2"][t]
  <2>1. "shard2" \in Sources
      BY FilesAre
  <2> QED BY <2>1, ReadNextIs
<1>3. PICK k :
          /\ job' = [job EXCEPT ![p] = k]
          /\ \/ k = Idle
             \/ Goes(k, j, j.at, n, j.seen, j.values)
             \/ (DOMAIN n = PartsOf("shard2")
                  /\ Notes(k, j, "copy1", "shard2", n))
    BY <1>1, OpenFileGives
<1> HIDE DEF n, j
<1>4. CASE k = Idle
    BY <1>3, <1>4, IdleOK, JobMoves
<1>5. CASE Goes(k, j, j.at, n, j.seen, j.values)
  <2>1. "shard2" \in Sources
      BY FilesAre
  <2>2. /\ j.op = "lora" /\ j.at \in {"adapter", "factors", "check"} => "shard2" = "adapter"
        /\ j.op \in Actuating => j.at \notin {"objects", "place"} /\ (j.at \in {"plan", "open"} => "shard2" = "base")
      BY <1>1 DEF Actuating
  <2>3. JobOK(k)
      BY <1>1, <1>2, <1>5, <2>1, <2>2, PassGoesOn
  <2> QED BY <1>3, <2>3, JobMoves
<1>6. CASE DOMAIN n = PartsOf("shard2")
         /\ Notes(k, j, "copy1", "shard2", n)
  <2>0. DOMAIN n = PartsOf("shard2") /\ n = [t \in PartsOf("shard2") |-> n[t]]
      BY <1>2, <1>6
  <2>1. /\ IsJob(k) /\ k.op = j.op /\ k.at = "copy1" /\ k.pass = <<>>
        /\ k.values = j.values /\ k.since = j.since /\ k.claim = j.claim
        /\ DOMAIN k.seen = DOMAIN j.seen \union {"shard2"} /\ k.seen["shard2"] = n
        /\ \A z \in DOMAIN j.seen \ {"shard2"} : k.seen[z] = j.seen[z]
      BY <1>6, Opened
  <2>2. n = [t \in PartsOf("shard2") |-> n[t]]
      BY <2>0
  <2>3. NormalizeOK(k)
      BY <1>1, <1>2, <1>6, <2>1, <2>2 DEF JobOK, NormalizeOK, Knows
  <2>4. JobOK(k)
      BY <1>1, <2>1, <2>3, OneOperation
  <2> QED BY <1>3, <2>4, JobMoves
<1> QED BY <1>3, <1>4, <1>5, <1>6

LEMMA Shard1Copied ==
    ASSUME FilesTypes, \A q \in Procs : JobOK(job[q]), UNCHANGED <<disk, rewrites>>,
           NEW p \in Procs, At(p, "normalize", "copy1"), ReadTensors(p, "shard1", job[p].seen["shard1"], "copy2")
    PROVE  FilesTypes' /\ \A q \in Procs : JobOK(job[q])'
<1> DEFINE j == job[p]
           n == ReadNext(p, "shard1")
<1>1. JobOK(j) /\ IsJob(j) /\ j.op = "normalize" /\ j.at = "copy1"
    BY DEF At, JobOK, Actuating
<1>2. /\ n = [t \in DOMAIN n |-> n[t]]
      /\ \A t \in DOMAIN n :
             (t \in DOMAIN j.pass /\ n[t] = j.pass[t]) \/ n[t] = disk["shard1"][t]
  <2>1. "shard1" \in Sources
      BY FilesAre
  <2> QED BY <2>1, ReadNextIs
<1>3. PICK k :
          /\ job' = [job EXCEPT ![p] = k]
          /\ \/ k = Idle
             \/ Goes(k, j, j.at, n, j.seen, j.values)
             \/ (DOMAIN n = PartsOf("shard1") /\ Consumed(n, j.seen["shard1"])
                  /\ Goes(k, j, "copy2", <<>>, j.seen, Merged(j.values, n)))
    BY <1>1, ReadTensorsGives
<1> HIDE DEF n, j
<1>4. CASE k = Idle
    BY <1>3, <1>4, IdleOK, JobMoves
<1>5. CASE Goes(k, j, j.at, n, j.seen, j.values)
  <2>1. "shard1" \in Sources
      BY FilesAre
  <2>2. /\ j.op = "lora" /\ j.at \in {"adapter", "factors", "check"} => "shard1" = "adapter"
        /\ j.op \in Actuating => j.at \notin {"objects", "place"} /\ (j.at \in {"plan", "open"} => "shard1" = "base")
      BY <1>1 DEF Actuating
  <2>3. JobOK(k)
      BY <1>1, <1>2, <1>5, <2>1, <2>2, PassGoesOn
  <2> QED BY <1>3, <2>3, JobMoves
<1>6. CASE DOMAIN n = PartsOf("shard1") /\ Consumed(n, j.seen["shard1"])
         /\ Goes(k, j, "copy2", <<>>, j.seen, Merged(j.values, n))
  <2>0. DOMAIN n = PartsOf("shard1") /\ n = [t \in PartsOf("shard1") |-> n[t]]
      BY <1>2, <1>6
  <2> DEFINE s == Merged(j.values, n)
  <2>1. /\ IsJob(k) /\ k.op = j.op /\ k.at = "copy2" /\ k.pass = <<>> /\ k.seen = j.seen
        /\ k.values = s /\ k.since = j.since /\ k.claim = j.claim
      BY <1>6, GoesIs
  <2>2. /\ j.values = <<>> => s = n
        /\ j.seen["shard1"] = [t \in PartsOf("shard1") |-> j.seen["shard1"][t]] => n = j.seen["shard1"]
    <3>1. j.values = <<>> => s = n
        BY <1>2, MergedWithNothing
    <3>2. \A t \in DOMAIN n : n[t] = j.seen["shard1"][t]
        BY <1>6 DEF Consumed
    <3>3. j.seen["shard1"] = [t \in PartsOf("shard1") |-> j.seen["shard1"][t]] => n = j.seen["shard1"]
        BY <1>2, <1>6, <3>2
    <3> QED BY <3>1, <3>3
  <2> HIDE DEF s
  <2>3. NormalizeOK(k)
      BY <1>1, <1>2, <1>6, <2>1, <2>2 DEF JobOK, NormalizeOK, Knows
  <2>4. JobOK(k)
      BY <1>1, <2>1, <2>3, OneOperation
  <2> QED BY <1>3, <2>4, JobMoves
<1> QED BY <1>3, <1>4, <1>5, <1>6

LEMMA Shard2Copied ==
    ASSUME FilesTypes, \A q \in Procs : JobOK(job[q]), UNCHANGED <<disk, rewrites>>,
           NEW p \in Procs, At(p, "normalize", "copy2"), ReadTensors(p, "shard2", job[p].seen["shard2"], "install")
    PROVE  FilesTypes' /\ \A q \in Procs : JobOK(job[q])'
<1> DEFINE j == job[p]
           n == ReadNext(p, "shard2")
<1>1. JobOK(j) /\ IsJob(j) /\ j.op = "normalize" /\ j.at = "copy2"
    BY DEF At, JobOK, Actuating
<1>2. /\ n = [t \in DOMAIN n |-> n[t]]
      /\ \A t \in DOMAIN n :
             (t \in DOMAIN j.pass /\ n[t] = j.pass[t]) \/ n[t] = disk["shard2"][t]
  <2>1. "shard2" \in Sources
      BY FilesAre
  <2> QED BY <2>1, ReadNextIs
<1>3. PICK k :
          /\ job' = [job EXCEPT ![p] = k]
          /\ \/ k = Idle
             \/ Goes(k, j, j.at, n, j.seen, j.values)
             \/ (DOMAIN n = PartsOf("shard2") /\ Consumed(n, j.seen["shard2"])
                  /\ Goes(k, j, "install", <<>>, j.seen, Merged(j.values, n)))
    BY <1>1, ReadTensorsGives
<1> HIDE DEF n, j
<1>4. CASE k = Idle
    BY <1>3, <1>4, IdleOK, JobMoves
<1>5. CASE Goes(k, j, j.at, n, j.seen, j.values)
  <2>1. "shard2" \in Sources
      BY FilesAre
  <2>2. /\ j.op = "lora" /\ j.at \in {"adapter", "factors", "check"} => "shard2" = "adapter"
        /\ j.op \in Actuating => j.at \notin {"objects", "place"} /\ (j.at \in {"plan", "open"} => "shard2" = "base")
      BY <1>1 DEF Actuating
  <2>3. JobOK(k)
      BY <1>1, <1>2, <1>5, <2>1, <2>2, PassGoesOn
  <2> QED BY <1>3, <2>3, JobMoves
<1>6. CASE DOMAIN n = PartsOf("shard2") /\ Consumed(n, j.seen["shard2"])
         /\ Goes(k, j, "install", <<>>, j.seen, Merged(j.values, n))
  <2>0. DOMAIN n = PartsOf("shard2") /\ n = [t \in PartsOf("shard2") |-> n[t]]
      BY <1>2, <1>6
  <2> DEFINE s == Merged(j.values, n)
  <2>1. /\ IsJob(k) /\ k.op = j.op /\ k.at = "install" /\ k.pass = <<>> /\ k.seen = j.seen
        /\ k.values = s /\ k.since = j.since /\ k.claim = j.claim
      BY <1>6, GoesIs
  <2>2. /\ j.values = <<>> => s = n
        /\ j.seen["shard2"] = [t \in PartsOf("shard2") |-> j.seen["shard2"][t]] => n = j.seen["shard2"]
    <3>1. j.values = <<>> => s = n
        BY <1>2, MergedWithNothing
    <3>2. \A t \in DOMAIN n : n[t] = j.seen["shard2"][t]
        BY <1>6 DEF Consumed
    <3>3. j.seen["shard2"] = [t \in PartsOf("shard2") |-> j.seen["shard2"][t]] => n = j.seen["shard2"]
        BY <1>2, <1>6, <3>2
    <3> QED BY <3>1, <3>3
  <2> HIDE DEF s
  <2>3. NormalizeOK(k)
    <3>1. n = j.seen["shard2"]
        BY <1>1, <2>2 DEF JobOK, NormalizeOK, Knows
    <3>2. s = Merged(j.seen["shard1"], j.seen["shard2"])
        BY <1>1, <3>1 DEF JobOK, NormalizeOK, s
    <3> QED BY <1>1, <2>1, <3>2 DEF JobOK, NormalizeOK, Knows
  <2>4. JobOK(k)
      BY <1>1, <2>1, <2>3, OneOperation
  <2> QED BY <1>3, <2>4, JobMoves
<1> QED BY <1>3, <1>4, <1>5, <1>6

LEMMA ReadoutOpened ==
    ASSUME FilesTypes, \A q \in Procs : JobOK(job[q]), UNCHANGED <<disk, rewrites>>,
           NEW p \in Procs, At(p, "readout", "open"), OpenFile(p, "base", TRUE, "read")
    PROVE  FilesTypes' /\ \A q \in Procs : JobOK(job[q])'
<1> DEFINE j == job[p]
           n == ReadNext(p, "base")
<1>1. JobOK(j) /\ IsJob(j) /\ j.op = "readout" /\ j.at = "open"
    BY DEF At, JobOK, Actuating
<1>2. /\ n = [t \in DOMAIN n |-> n[t]]
      /\ \A t \in DOMAIN n :
             (t \in DOMAIN j.pass /\ n[t] = j.pass[t]) \/ n[t] = disk["base"][t]
  <2>1. "base" \in Sources
      BY FilesAre
  <2> QED BY <2>1, ReadNextIs
<1>3. PICK k :
          /\ job' = [job EXCEPT ![p] = k]
          /\ \/ k = Idle
             \/ Goes(k, j, j.at, n, j.seen, j.values)
             \/ (DOMAIN n = PartsOf("base")
                  /\ Notes(k, j, "read", "base", n))
    BY <1>1, OpenFileGives
<1> HIDE DEF n, j
<1>4. CASE k = Idle
    BY <1>3, <1>4, IdleOK, JobMoves
<1>5. CASE Goes(k, j, j.at, n, j.seen, j.values)
  <2>1. "base" \in Sources
      BY FilesAre
  <2>2. /\ j.op = "lora" /\ j.at \in {"adapter", "factors", "check"} => "base" = "adapter"
        /\ j.op \in Actuating => j.at \notin {"objects", "place"} /\ (j.at \in {"plan", "open"} => "base" = "base")
      BY <1>1 DEF Actuating
  <2>3. JobOK(k)
      BY <1>1, <1>2, <1>5, <2>1, <2>2, PassGoesOn
  <2> QED BY <1>3, <2>3, JobMoves
<1>6. CASE DOMAIN n = PartsOf("base")
         /\ Notes(k, j, "read", "base", n)
  <2>0. DOMAIN n = PartsOf("base") /\ n = [t \in PartsOf("base") |-> n[t]]
      BY <1>2, <1>6
  <2>1. /\ IsJob(k) /\ k.op = j.op /\ k.at = "read" /\ k.pass = <<>>
        /\ k.values = j.values /\ k.since = j.since /\ k.claim = j.claim
        /\ DOMAIN k.seen = DOMAIN j.seen \union {"base"} /\ k.seen["base"] = n
        /\ \A z \in DOMAIN j.seen \ {"base"} : k.seen[z] = j.seen[z]
      BY <1>6, Opened
  <2>2. n = [t \in PartsOf("base") |-> n[t]]
      BY <2>0
  <2>3. ReadoutOK(k)
      BY <1>1, <1>2, <1>6, <2>1, <2>2 DEF JobOK, ReadoutOK, Knows
  <2>4. JobOK(k)
      BY <1>1, <2>1, <2>3, OneOperation
  <2> QED BY <1>3, <2>4, JobMoves
<1> QED BY <1>3, <1>4, <1>5, <1>6

LEMMA ReadoutRead ==
    ASSUME FilesTypes, \A q \in Procs : JobOK(job[q]), UNCHANGED <<disk, rewrites>>,
           NEW p \in Procs, At(p, "readout", "read"), ReadTensors(p, "base", job[p].seen["base"], "answer")
    PROVE  FilesTypes' /\ \A q \in Procs : JobOK(job[q])'
<1> DEFINE j == job[p]
           n == ReadNext(p, "base")
<1>1. JobOK(j) /\ IsJob(j) /\ j.op = "readout" /\ j.at = "read"
    BY DEF At, JobOK, Actuating
<1>2. /\ n = [t \in DOMAIN n |-> n[t]]
      /\ \A t \in DOMAIN n :
             (t \in DOMAIN j.pass /\ n[t] = j.pass[t]) \/ n[t] = disk["base"][t]
  <2>1. "base" \in Sources
      BY FilesAre
  <2> QED BY <2>1, ReadNextIs
<1>3. PICK k :
          /\ job' = [job EXCEPT ![p] = k]
          /\ \/ k = Idle
             \/ Goes(k, j, j.at, n, j.seen, j.values)
             \/ (DOMAIN n = PartsOf("base") /\ Consumed(n, j.seen["base"])
                  /\ Goes(k, j, "answer", <<>>, j.seen, Merged(j.values, n)))
    BY <1>1, ReadTensorsGives
<1> HIDE DEF n, j
<1>4. CASE k = Idle
    BY <1>3, <1>4, IdleOK, JobMoves
<1>5. CASE Goes(k, j, j.at, n, j.seen, j.values)
  <2>1. "base" \in Sources
      BY FilesAre
  <2>2. /\ j.op = "lora" /\ j.at \in {"adapter", "factors", "check"} => "base" = "adapter"
        /\ j.op \in Actuating => j.at \notin {"objects", "place"} /\ (j.at \in {"plan", "open"} => "base" = "base")
      BY <1>1 DEF Actuating
  <2>3. JobOK(k)
      BY <1>1, <1>2, <1>5, <2>1, <2>2, PassGoesOn
  <2> QED BY <1>3, <2>3, JobMoves
<1>6. CASE DOMAIN n = PartsOf("base") /\ Consumed(n, j.seen["base"])
         /\ Goes(k, j, "answer", <<>>, j.seen, Merged(j.values, n))
  <2>0. DOMAIN n = PartsOf("base") /\ n = [t \in PartsOf("base") |-> n[t]]
      BY <1>2, <1>6
  <2> DEFINE s == Merged(j.values, n)
  <2>1. /\ IsJob(k) /\ k.op = j.op /\ k.at = "answer" /\ k.pass = <<>> /\ k.seen = j.seen
        /\ k.values = s /\ k.since = j.since /\ k.claim = j.claim
      BY <1>6, GoesIs
  <2>2. /\ j.values = <<>> => s = n
        /\ j.seen["base"] = [t \in PartsOf("base") |-> j.seen["base"][t]] => n = j.seen["base"]
    <3>1. j.values = <<>> => s = n
        BY <1>2, MergedWithNothing
    <3>2. \A t \in DOMAIN n : n[t] = j.seen["base"][t]
        BY <1>6 DEF Consumed
    <3>3. j.seen["base"] = [t \in PartsOf("base") |-> j.seen["base"][t]] => n = j.seen["base"]
        BY <1>2, <1>6, <3>2
    <3> QED BY <3>1, <3>3
  <2> HIDE DEF s
  <2>3. ReadoutOK(k)
      BY <1>1, <1>2, <1>6, <2>1, <2>2 DEF JobOK, ReadoutOK, Knows
  <2>4. JobOK(k)
      BY <1>1, <2>1, <2>3, OneOperation
  <2> QED BY <1>3, <2>4, JobMoves
<1> QED BY <1>3, <1>4, <1>5, <1>6

LEMMA Delta1Opened ==
    ASSUME FilesTypes, \A q \in Procs : JobOK(job[q]), UNCHANGED <<disk, rewrites>>,
           NEW p \in Procs, At(p, "combine", "delta1"), OpenFile(p, "delta1", Referenced(ReadNext(p, "delta1")), "delta2")
    PROVE  FilesTypes' /\ \A q \in Procs : JobOK(job[q])'
<1> DEFINE j == job[p]
           n == ReadNext(p, "delta1")
<1>1. JobOK(j) /\ IsJob(j) /\ j.op = "combine" /\ j.at = "delta1"
    BY DEF At, JobOK, Actuating
<1>2. /\ n = [t \in DOMAIN n |-> n[t]]
      /\ \A t \in DOMAIN n :
             (t \in DOMAIN j.pass /\ n[t] = j.pass[t]) \/ n[t] = disk["delta1"][t]
  <2>1. "delta1" \in Sources
      BY FilesAre
  <2> QED BY <2>1, ReadNextIs
<1>3. PICK k :
          /\ job' = [job EXCEPT ![p] = k]
          /\ \/ k = Idle
             \/ Goes(k, j, j.at, n, j.seen, j.values)
             \/ (DOMAIN n = PartsOf("delta1")
                  /\ Notes(k, j, "delta2", "delta1", n))
    BY <1>1, OpenFileGives
<1> HIDE DEF n, j
<1>4. CASE k = Idle
    BY <1>3, <1>4, IdleOK, JobMoves
<1>5. CASE Goes(k, j, j.at, n, j.seen, j.values)
  <2>1. "delta1" \in Sources
      BY FilesAre
  <2>2. /\ j.op = "lora" /\ j.at \in {"adapter", "factors", "check"} => "delta1" = "adapter"
        /\ j.op \in Actuating => j.at \notin {"objects", "place"} /\ (j.at \in {"plan", "open"} => "delta1" = "base")
      BY <1>1 DEF Actuating
  <2>3. JobOK(k)
      BY <1>1, <1>2, <1>5, <2>1, <2>2, PassGoesOn
  <2> QED BY <1>3, <2>3, JobMoves
<1>6. CASE DOMAIN n = PartsOf("delta1")
         /\ Notes(k, j, "delta2", "delta1", n)
  <2>0. DOMAIN n = PartsOf("delta1") /\ n = [t \in PartsOf("delta1") |-> n[t]]
      BY <1>2, <1>6
  <2>1. /\ IsJob(k) /\ k.op = j.op /\ k.at = "delta2" /\ k.pass = <<>>
        /\ k.values = j.values /\ k.since = j.since /\ k.claim = j.claim
        /\ DOMAIN k.seen = DOMAIN j.seen \union {"delta1"} /\ k.seen["delta1"] = n
        /\ \A z \in DOMAIN j.seen \ {"delta1"} : k.seen[z] = j.seen[z]
      BY <1>6, Opened
  <2>2. n = [t \in PartsOf("delta1") |-> n[t]]
      BY <2>0
  <2>3. CombineOK(k)
      BY <1>1, <1>2, <1>6, <2>1, <2>2 DEF JobOK, CombineOK, Knows
  <2>4. JobOK(k)
      BY <1>1, <2>1, <2>3, OneOperation
  <2> QED BY <1>3, <2>4, JobMoves
<1> QED BY <1>3, <1>4, <1>5, <1>6

LEMMA Delta2Opened ==
    ASSUME FilesTypes, \A q \in Procs : JobOK(job[q]), UNCHANGED <<disk, rewrites>>,
           NEW p \in Procs, At(p, "combine", "delta2"), OpenFile(p, "delta2", Referenced(ReadNext(p, "delta2")), "stream")
    PROVE  FilesTypes' /\ \A q \in Procs : JobOK(job[q])'
<1> DEFINE j == job[p]
           n == ReadNext(p, "delta2")
<1>1. JobOK(j) /\ IsJob(j) /\ j.op = "combine" /\ j.at = "delta2"
    BY DEF At, JobOK, Actuating
<1>2. /\ n = [t \in DOMAIN n |-> n[t]]
      /\ \A t \in DOMAIN n :
             (t \in DOMAIN j.pass /\ n[t] = j.pass[t]) \/ n[t] = disk["delta2"][t]
  <2>1. "delta2" \in Sources
      BY FilesAre
  <2> QED BY <2>1, ReadNextIs
<1>3. PICK k :
          /\ job' = [job EXCEPT ![p] = k]
          /\ \/ k = Idle
             \/ Goes(k, j, j.at, n, j.seen, j.values)
             \/ (DOMAIN n = PartsOf("delta2")
                  /\ Notes(k, j, "stream", "delta2", n))
    BY <1>1, OpenFileGives
<1> HIDE DEF n, j
<1>4. CASE k = Idle
    BY <1>3, <1>4, IdleOK, JobMoves
<1>5. CASE Goes(k, j, j.at, n, j.seen, j.values)
  <2>1. "delta2" \in Sources
      BY FilesAre
  <2>2. /\ j.op = "lora" /\ j.at \in {"adapter", "factors", "check"} => "delta2" = "adapter"
        /\ j.op \in Actuating => j.at \notin {"objects", "place"} /\ (j.at \in {"plan", "open"} => "delta2" = "base")
      BY <1>1 DEF Actuating
  <2>3. JobOK(k)
      BY <1>1, <1>2, <1>5, <2>1, <2>2, PassGoesOn
  <2> QED BY <1>3, <2>3, JobMoves
<1>6. CASE DOMAIN n = PartsOf("delta2")
         /\ Notes(k, j, "stream", "delta2", n)
  <2>0. DOMAIN n = PartsOf("delta2") /\ n = [t \in PartsOf("delta2") |-> n[t]]
      BY <1>2, <1>6
  <2>1. /\ IsJob(k) /\ k.op = j.op /\ k.at = "stream" /\ k.pass = <<>>
        /\ k.values = j.values /\ k.since = j.since /\ k.claim = j.claim
        /\ DOMAIN k.seen = DOMAIN j.seen \union {"delta2"} /\ k.seen["delta2"] = n
        /\ \A z \in DOMAIN j.seen \ {"delta2"} : k.seen[z] = j.seen[z]
      BY <1>6, Opened
  <2>2. n = [t \in PartsOf("delta2") |-> n[t]]
      BY <2>0
  <2>3. CombineOK(k)
      BY <1>1, <1>2, <1>6, <2>1, <2>2 DEF JobOK, CombineOK, Knows
  <2>4. JobOK(k)
      BY <1>1, <2>1, <2>3, OneOperation
  <2> QED BY <1>3, <2>4, JobMoves
<1> QED BY <1>3, <1>4, <1>5, <1>6

LEMMA CheckpointOpened ==
    ASSUME FilesTypes, \A q \in Procs : JobOK(job[q]), UNCHANGED <<disk, rewrites>>,
           NEW p \in Procs, At(p, "profile", "checkpoint"), OpenFile(p, "base", TRUE, "config")
    PROVE  FilesTypes' /\ \A q \in Procs : JobOK(job[q])'
<1> DEFINE j == job[p]
           n == ReadNext(p, "base")
<1>1. JobOK(j) /\ IsJob(j) /\ j.op = "profile" /\ j.at = "checkpoint"
    BY DEF At, JobOK, Actuating
<1>2. /\ n = [t \in DOMAIN n |-> n[t]]
      /\ \A t \in DOMAIN n :
             (t \in DOMAIN j.pass /\ n[t] = j.pass[t]) \/ n[t] = disk["base"][t]
  <2>1. "base" \in Sources
      BY FilesAre
  <2> QED BY <2>1, ReadNextIs
<1>3. PICK k :
          /\ job' = [job EXCEPT ![p] = k]
          /\ \/ k = Idle
             \/ Goes(k, j, j.at, n, j.seen, j.values)
             \/ (DOMAIN n = PartsOf("base")
                  /\ Notes(k, j, "config", "base", n))
    BY <1>1, OpenFileGives
<1> HIDE DEF n, j
<1>4. CASE k = Idle
    BY <1>3, <1>4, IdleOK, JobMoves
<1>5. CASE Goes(k, j, j.at, n, j.seen, j.values)
  <2>1. "base" \in Sources
      BY FilesAre
  <2>2. /\ j.op = "lora" /\ j.at \in {"adapter", "factors", "check"} => "base" = "adapter"
        /\ j.op \in Actuating => j.at \notin {"objects", "place"} /\ (j.at \in {"plan", "open"} => "base" = "base")
      BY <1>1 DEF Actuating
  <2>3. JobOK(k)
      BY <1>1, <1>2, <1>5, <2>1, <2>2, PassGoesOn
  <2> QED BY <1>3, <2>3, JobMoves
<1>6. CASE DOMAIN n = PartsOf("base")
         /\ Notes(k, j, "config", "base", n)
  <2>0. DOMAIN n = PartsOf("base") /\ n = [t \in PartsOf("base") |-> n[t]]
      BY <1>2, <1>6
  <2>1. /\ IsJob(k) /\ k.op = j.op /\ k.at = "config" /\ k.pass = <<>>
        /\ k.values = j.values /\ k.since = j.since /\ k.claim = j.claim
        /\ DOMAIN k.seen = DOMAIN j.seen \union {"base"} /\ k.seen["base"] = n
        /\ \A z \in DOMAIN j.seen \ {"base"} : k.seen[z] = j.seen[z]
      BY <1>6, Opened
  <2>2. n = [t \in PartsOf("base") |-> n[t]]
      BY <2>0
  <2>3. ProfileOK(k)
      BY <1>1, <1>2, <1>6, <2>1, <2>2 DEF JobOK, ProfileOK, Knows
  <2>4. JobOK(k)
      BY <1>1, <2>1, <2>3, OneOperation
  <2> QED BY <1>3, <2>4, JobMoves
<1> QED BY <1>3, <1>4, <1>5, <1>6

LEMMA ConfigOpened ==
    ASSUME FilesTypes, \A q \in Procs : JobOK(job[q]), UNCHANGED <<disk, rewrites>>,
           NEW p \in Procs, At(p, "profile", "config"), OpenFile(p, "config", TRUE, "inventory")
    PROVE  FilesTypes' /\ \A q \in Procs : JobOK(job[q])'
<1> DEFINE j == job[p]
           n == ReadNext(p, "config")
<1>1. JobOK(j) /\ IsJob(j) /\ j.op = "profile" /\ j.at = "config"
    BY DEF At, JobOK, Actuating
<1>2. /\ n = [t \in DOMAIN n |-> n[t]]
      /\ \A t \in DOMAIN n :
             (t \in DOMAIN j.pass /\ n[t] = j.pass[t]) \/ n[t] = disk["config"][t]
  <2>1. "config" \in Sources
      BY FilesAre
  <2> QED BY <2>1, ReadNextIs
<1>3. PICK k :
          /\ job' = [job EXCEPT ![p] = k]
          /\ \/ k = Idle
             \/ Goes(k, j, j.at, n, j.seen, j.values)
             \/ (DOMAIN n = PartsOf("config")
                  /\ Notes(k, j, "inventory", "config", n))
    BY <1>1, OpenFileGives
<1> HIDE DEF n, j
<1>4. CASE k = Idle
    BY <1>3, <1>4, IdleOK, JobMoves
<1>5. CASE Goes(k, j, j.at, n, j.seen, j.values)
  <2>1. "config" \in Sources
      BY FilesAre
  <2>2. /\ j.op = "lora" /\ j.at \in {"adapter", "factors", "check"} => "config" = "adapter"
        /\ j.op \in Actuating => j.at \notin {"objects", "place"} /\ (j.at \in {"plan", "open"} => "config" = "base")
      BY <1>1 DEF Actuating
  <2>3. JobOK(k)
      BY <1>1, <1>2, <1>5, <2>1, <2>2, PassGoesOn
  <2> QED BY <1>3, <2>3, JobMoves
<1>6. CASE DOMAIN n = PartsOf("config")
         /\ Notes(k, j, "inventory", "config", n)
  <2>0. DOMAIN n = PartsOf("config") /\ n = [t \in PartsOf("config") |-> n[t]]
      BY <1>2, <1>6
  <2>1. /\ IsJob(k) /\ k.op = j.op /\ k.at = "inventory" /\ k.pass = <<>>
        /\ k.values = j.values /\ k.since = j.since /\ k.claim = j.claim
        /\ DOMAIN k.seen = DOMAIN j.seen \union {"config"} /\ k.seen["config"] = n
        /\ \A z \in DOMAIN j.seen \ {"config"} : k.seen[z] = j.seen[z]
      BY <1>6, Opened
  <2>2. n = [t \in PartsOf("config") |-> n[t]]
      BY <2>0
  <2>3. ProfileOK(k)
      BY <1>1, <1>2, <1>6, <2>1, <2>2 DEF JobOK, ProfileOK, Knows
  <2>4. JobOK(k)
      BY <1>1, <2>1, <2>3, OneOperation
  <2> QED BY <1>3, <2>4, JobMoves
<1> QED BY <1>3, <1>4, <1>5, <1>6

LEMMA InventoryChecked ==
    ASSUME FilesTypes, \A q \in Procs : JobOK(job[q]), UNCHANGED <<disk, rewrites>>,
           NEW p \in Procs, At(p, "profile", "inventory"), Rehash(p, "base", "metadata")
    PROVE  FilesTypes' /\ \A q \in Procs : JobOK(job[q])'
<1> DEFINE j == job[p]
           n == ReadNext(p, "base")
<1>1. JobOK(j) /\ IsJob(j) /\ j.op = "profile" /\ j.at = "inventory"
    BY DEF At, JobOK, Actuating
<1>2. /\ n = [t \in DOMAIN n |-> n[t]]
      /\ \A t \in DOMAIN n :
             (t \in DOMAIN j.pass /\ n[t] = j.pass[t]) \/ n[t] = disk["base"][t]
  <2>1. "base" \in Sources
      BY FilesAre
  <2> QED BY <2>1, ReadNextIs
<1>3. PICK k :
          /\ job' = [job EXCEPT ![p] = k]
          /\ \/ k = Idle
             \/ Goes(k, j, j.at, n, j.seen, j.values)
             \/ (Kept(k, p, "base", "metadata"))
    BY <1>1, RehashGives
<1> HIDE DEF n, j
<1>4. CASE k = Idle
    BY <1>3, <1>4, IdleOK, JobMoves
<1>5. CASE Goes(k, j, j.at, n, j.seen, j.values)
  <2>1. "base" \in Sources
      BY FilesAre
  <2>2. /\ j.op = "lora" /\ j.at \in {"adapter", "factors", "check"} => "base" = "adapter"
        /\ j.op \in Actuating => j.at \notin {"objects", "place"} /\ (j.at \in {"plan", "open"} => "base" = "base")
      BY <1>1 DEF Actuating
  <2>3. JobOK(k)
      BY <1>1, <1>2, <1>5, <2>1, <2>2, PassGoesOn
  <2> QED BY <1>3, <2>3, JobMoves
<1>6. CASE Kept(k, p, "base", "metadata")
  <2>0. /\ DOMAIN n = PartsOf("base") /\ n = j.seen["base"]
        /\ Goes(k, j, "metadata", <<>>, j.seen, j.values)
      BY <1>6 DEF Kept, n, j
  <2>1. /\ IsJob(k) /\ k.op = j.op /\ k.at = "metadata" /\ k.pass = <<>> /\ k.seen = j.seen
        /\ k.values = j.values /\ k.since = j.since /\ k.claim = j.claim
      BY <2>0, GoesIs
  <2>2. n = j.seen["base"] /\ DOMAIN n = PartsOf("base")
      BY <2>0
  <2>3. ProfileOK(k)
      BY <1>1, <1>2, <1>6, <2>1, <2>2 DEF JobOK, ProfileOK, Knows
  <2>4. JobOK(k)
      BY <1>1, <2>1, <2>3, OneOperation
  <2> QED BY <1>3, <2>4, JobMoves
<1> QED BY <1>3, <1>4, <1>5, <1>6

LEMMA MetadataRead ==
    ASSUME FilesTypes, \A q \in Procs : JobOK(job[q]), UNCHANGED <<disk, rewrites>>,
           NEW p \in Procs, At(p, "profile", "metadata"), ReadTensors(p, "config", job[p].seen["config"], "live")
    PROVE  FilesTypes' /\ \A q \in Procs : JobOK(job[q])'
<1> DEFINE j == job[p]
           n == ReadNext(p, "config")
<1>1. JobOK(j) /\ IsJob(j) /\ j.op = "profile" /\ j.at = "metadata"
    BY DEF At, JobOK, Actuating
<1>2. /\ n = [t \in DOMAIN n |-> n[t]]
      /\ \A t \in DOMAIN n :
             (t \in DOMAIN j.pass /\ n[t] = j.pass[t]) \/ n[t] = disk["config"][t]
  <2>1. "config" \in Sources
      BY FilesAre
  <2> QED BY <2>1, ReadNextIs
<1>3. PICK k :
          /\ job' = [job EXCEPT ![p] = k]
          /\ \/ k = Idle
             \/ Goes(k, j, j.at, n, j.seen, j.values)
             \/ (DOMAIN n = PartsOf("config") /\ Consumed(n, j.seen["config"])
                  /\ Goes(k, j, "live", <<>>, j.seen, Merged(j.values, n)))
    BY <1>1, ReadTensorsGives
<1> HIDE DEF n, j
<1>4. CASE k = Idle
    BY <1>3, <1>4, IdleOK, JobMoves
<1>5. CASE Goes(k, j, j.at, n, j.seen, j.values)
  <2>1. "config" \in Sources
      BY FilesAre
  <2>2. /\ j.op = "lora" /\ j.at \in {"adapter", "factors", "check"} => "config" = "adapter"
        /\ j.op \in Actuating => j.at \notin {"objects", "place"} /\ (j.at \in {"plan", "open"} => "config" = "base")
      BY <1>1 DEF Actuating
  <2>3. JobOK(k)
      BY <1>1, <1>2, <1>5, <2>1, <2>2, PassGoesOn
  <2> QED BY <1>3, <2>3, JobMoves
<1>6. CASE DOMAIN n = PartsOf("config") /\ Consumed(n, j.seen["config"])
         /\ Goes(k, j, "live", <<>>, j.seen, Merged(j.values, n))
  <2>0. DOMAIN n = PartsOf("config") /\ n = [t \in PartsOf("config") |-> n[t]]
      BY <1>2, <1>6
  <2> DEFINE s == Merged(j.values, n)
  <2>1. /\ IsJob(k) /\ k.op = j.op /\ k.at = "live" /\ k.pass = <<>> /\ k.seen = j.seen
        /\ k.values = s /\ k.since = j.since /\ k.claim = j.claim
      BY <1>6, GoesIs
  <2>2. /\ j.values = <<>> => s = n
        /\ j.seen["config"] = [t \in PartsOf("config") |-> j.seen["config"][t]] => n = j.seen["config"]
    <3>1. j.values = <<>> => s = n
        BY <1>2, MergedWithNothing
    <3>2. \A t \in DOMAIN n : n[t] = j.seen["config"][t]
        BY <1>6 DEF Consumed
    <3>3. j.seen["config"] = [t \in PartsOf("config") |-> j.seen["config"][t]] => n = j.seen["config"]
        BY <1>2, <1>6, <3>2
    <3> QED BY <3>1, <3>3
  <2> HIDE DEF s
  <2>3. ProfileOK(k)
      BY <1>1, <1>2, <1>6, <2>1, <2>2 DEF JobOK, ProfileOK, Knows
  <2>4. JobOK(k)
      BY <1>1, <2>1, <2>3, OneOperation
  <2> QED BY <1>3, <2>4, JobMoves
<1> QED BY <1>3, <1>4, <1>5, <1>6

LEMMA LiveChecked ==
    ASSUME FilesTypes, \A q \in Procs : JobOK(job[q]), UNCHANGED <<disk, rewrites>>,
           NEW p \in Procs, At(p, "profile", "live"), Rehash(p, "base", "live_config")
    PROVE  FilesTypes' /\ \A q \in Procs : JobOK(job[q])'
<1> DEFINE j == job[p]
           n == ReadNext(p, "base")
<1>1. JobOK(j) /\ IsJob(j) /\ j.op = "profile" /\ j.at = "live"
    BY DEF At, JobOK, Actuating
<1>2. /\ n = [t \in DOMAIN n |-> n[t]]
      /\ \A t \in DOMAIN n :
             (t \in DOMAIN j.pass /\ n[t] = j.pass[t]) \/ n[t] = disk["base"][t]
  <2>1. "base" \in Sources
      BY FilesAre
  <2> QED BY <2>1, ReadNextIs
<1>3. PICK k :
          /\ job' = [job EXCEPT ![p] = k]
          /\ \/ k = Idle
             \/ Goes(k, j, j.at, n, j.seen, j.values)
             \/ (Kept(k, p, "base", "live_config"))
    BY <1>1, RehashGives
<1> HIDE DEF n, j
<1>4. CASE k = Idle
    BY <1>3, <1>4, IdleOK, JobMoves
<1>5. CASE Goes(k, j, j.at, n, j.seen, j.values)
  <2>1. "base" \in Sources
      BY FilesAre
  <2>2. /\ j.op = "lora" /\ j.at \in {"adapter", "factors", "check"} => "base" = "adapter"
        /\ j.op \in Actuating => j.at \notin {"objects", "place"} /\ (j.at \in {"plan", "open"} => "base" = "base")
      BY <1>1 DEF Actuating
  <2>3. JobOK(k)
      BY <1>1, <1>2, <1>5, <2>1, <2>2, PassGoesOn
  <2> QED BY <1>3, <2>3, JobMoves
<1>6. CASE Kept(k, p, "base", "live_config")
  <2>0. /\ DOMAIN n = PartsOf("base") /\ n = j.seen["base"]
        /\ Goes(k, j, "live_config", <<>>, j.seen, j.values)
      BY <1>6 DEF Kept, n, j
  <2>1. /\ IsJob(k) /\ k.op = j.op /\ k.at = "live_config" /\ k.pass = <<>> /\ k.seen = j.seen
        /\ k.values = j.values /\ k.since = j.since /\ k.claim = j.claim
      BY <2>0, GoesIs
  <2>2. n = j.seen["base"] /\ DOMAIN n = PartsOf("base")
      BY <2>0
  <2>3. ProfileOK(k)
      BY <1>1, <1>2, <1>6, <2>1, <2>2 DEF JobOK, ProfileOK, Knows
  <2>4. JobOK(k)
      BY <1>1, <2>1, <2>3, OneOperation
  <2> QED BY <1>3, <2>4, JobMoves
<1> QED BY <1>3, <1>4, <1>5, <1>6

LEMMA LiveConfigChecked ==
    ASSUME FilesTypes, \A q \in Procs : JobOK(job[q]), UNCHANGED <<disk, rewrites>>,
           NEW p \in Procs, At(p, "profile", "live_config"), Rehash(p, "config", "persist")
    PROVE  FilesTypes' /\ \A q \in Procs : JobOK(job[q])'
<1> DEFINE j == job[p]
           n == ReadNext(p, "config")
<1>1. JobOK(j) /\ IsJob(j) /\ j.op = "profile" /\ j.at = "live_config"
    BY DEF At, JobOK, Actuating
<1>2. /\ n = [t \in DOMAIN n |-> n[t]]
      /\ \A t \in DOMAIN n :
             (t \in DOMAIN j.pass /\ n[t] = j.pass[t]) \/ n[t] = disk["config"][t]
  <2>1. "config" \in Sources
      BY FilesAre
  <2> QED BY <2>1, ReadNextIs
<1>3. PICK k :
          /\ job' = [job EXCEPT ![p] = k]
          /\ \/ k = Idle
             \/ Goes(k, j, j.at, n, j.seen, j.values)
             \/ (Kept(k, p, "config", "persist"))
    BY <1>1, RehashGives
<1> HIDE DEF n, j
<1>4. CASE k = Idle
    BY <1>3, <1>4, IdleOK, JobMoves
<1>5. CASE Goes(k, j, j.at, n, j.seen, j.values)
  <2>1. "config" \in Sources
      BY FilesAre
  <2>2. /\ j.op = "lora" /\ j.at \in {"adapter", "factors", "check"} => "config" = "adapter"
        /\ j.op \in Actuating => j.at \notin {"objects", "place"} /\ (j.at \in {"plan", "open"} => "config" = "base")
      BY <1>1 DEF Actuating
  <2>3. JobOK(k)
      BY <1>1, <1>2, <1>5, <2>1, <2>2, PassGoesOn
  <2> QED BY <1>3, <2>3, JobMoves
<1>6. CASE Kept(k, p, "config", "persist")
  <2>0. /\ DOMAIN n = PartsOf("config") /\ n = j.seen["config"]
        /\ Goes(k, j, "persist", <<>>, j.seen, j.values)
      BY <1>6 DEF Kept, n, j
  <2>1. /\ IsJob(k) /\ k.op = j.op /\ k.at = "persist" /\ k.pass = <<>> /\ k.seen = j.seen
        /\ k.values = j.values /\ k.since = j.since /\ k.claim = j.claim
      BY <2>0, GoesIs
  <2>2. n = j.seen["config"] /\ DOMAIN n = PartsOf("config")
      BY <2>0
  <2>3. ProfileOK(k)
      BY <1>1, <1>2, <1>6, <2>1, <2>2 DEF JobOK, ProfileOK, Knows
  <2>4. JobOK(k)
      BY <1>1, <2>1, <2>3, OneOperation
  <2> QED BY <1>3, <2>4, JobMoves
<1> QED BY <1>3, <1>4, <1>5, <1>6

LEMMA LoraConfigRead ==
    ASSUME FilesTypes, \A q \in Procs : JobOK(job[q]), UNCHANGED <<disk, rewrites>>,
           NEW p \in Procs, At(p, "lora", "config"), OpenFile(p, "config", Range(ReadNext(p, "config")) \subseteq Supported, "base")
    PROVE  FilesTypes' /\ \A q \in Procs : JobOK(job[q])'
<1> DEFINE j == job[p]
           n == ReadNext(p, "config")
<1>1. JobOK(j) /\ IsJob(j) /\ j.op = "lora" /\ j.at = "config"
    BY DEF At, JobOK, Actuating
<1>2. /\ n = [t \in DOMAIN n |-> n[t]]
      /\ \A t \in DOMAIN n :
             (t \in DOMAIN j.pass /\ n[t] = j.pass[t]) \/ n[t] = disk["config"][t]
  <2>1. "config" \in Sources
      BY FilesAre
  <2> QED BY <2>1, ReadNextIs
<1>3. PICK k :
          /\ job' = [job EXCEPT ![p] = k]
          /\ \/ k = Idle
             \/ Goes(k, j, j.at, n, j.seen, j.values)
             \/ (DOMAIN n = PartsOf("config")
                  /\ Notes(k, j, "base", "config", n))
    BY <1>1, OpenFileGives
<1> HIDE DEF n, j
<1>4. CASE k = Idle
    BY <1>3, <1>4, IdleOK, JobMoves
<1>5. CASE Goes(k, j, j.at, n, j.seen, j.values)
  <2>1. "config" \in Sources
      BY FilesAre
  <2>2. /\ j.op = "lora" /\ j.at \in {"adapter", "factors", "check"} => "config" = "adapter"
        /\ j.op \in Actuating => j.at \notin {"objects", "place"} /\ (j.at \in {"plan", "open"} => "config" = "base")
      BY <1>1 DEF Actuating
  <2>3. JobOK(k)
      BY <1>1, <1>2, <1>5, <2>1, <2>2, PassGoesOn
  <2> QED BY <1>3, <2>3, JobMoves
<1>6. CASE DOMAIN n = PartsOf("config")
         /\ Notes(k, j, "base", "config", n)
  <2>0. DOMAIN n = PartsOf("config") /\ n = [t \in PartsOf("config") |-> n[t]]
      BY <1>2, <1>6
  <2>1. /\ IsJob(k) /\ k.op = j.op /\ k.at = "base" /\ k.pass = <<>>
        /\ k.values = j.values /\ k.since = j.since /\ k.claim = j.claim
        /\ DOMAIN k.seen = DOMAIN j.seen \union {"config"} /\ k.seen["config"] = n
        /\ \A z \in DOMAIN j.seen \ {"config"} : k.seen[z] = j.seen[z]
      BY <1>6, Opened
  <2>2. n = [t \in PartsOf("config") |-> n[t]]
      BY <2>0
  <2>3. LoraOK(k)
    <3>1. /\ j.since \in Nat /\ j.since <= rewrites["adapter"]
          /\ j.values = <<>>
        BY <1>1 DEF JobOK, LoraOK, Compared
    <3>9. k.since \in Nat /\ k.since <= rewrites["adapter"]
        BY <2>1, <3>1, <2>2, <1>6
    <3>10. k.values = <<>>
        BY <2>1, <3>1, <2>2, <1>6
    <3> QED BY <1>1, <2>1, <3>9, <3>10 DEF LoraOK, Compared
  <2>4. JobOK(k)
      BY <1>1, <2>1, <2>3, OneOperation
  <2> QED BY <1>3, <2>4, JobMoves
<1> QED BY <1>3, <1>4, <1>5, <1>6

LEMMA LoraBaseRead ==
    ASSUME FilesTypes, \A q \in Procs : JobOK(job[q]), UNCHANGED <<disk, rewrites>>,
           NEW p \in Procs, At(p, "lora", "base"), OpenFile(p, "base", TRUE, "adapter")
    PROVE  FilesTypes' /\ \A q \in Procs : JobOK(job[q])'
<1> DEFINE j == job[p]
           n == ReadNext(p, "base")
<1>1. JobOK(j) /\ IsJob(j) /\ j.op = "lora" /\ j.at = "base"
    BY DEF At, JobOK, Actuating
<1>2. /\ n = [t \in DOMAIN n |-> n[t]]
      /\ \A t \in DOMAIN n :
             (t \in DOMAIN j.pass /\ n[t] = j.pass[t]) \/ n[t] = disk["base"][t]
  <2>1. "base" \in Sources
      BY FilesAre
  <2> QED BY <2>1, ReadNextIs
<1>3. PICK k :
          /\ job' = [job EXCEPT ![p] = k]
          /\ \/ k = Idle
             \/ Goes(k, j, j.at, n, j.seen, j.values)
             \/ (DOMAIN n = PartsOf("base")
                  /\ Notes(k, j, "adapter", "base", n))
    BY <1>1, OpenFileGives
<1> HIDE DEF n, j
<1>4. CASE k = Idle
    BY <1>3, <1>4, IdleOK, JobMoves
<1>5. CASE Goes(k, j, j.at, n, j.seen, j.values)
  <2>1. "base" \in Sources
      BY FilesAre
  <2>2. /\ j.op = "lora" /\ j.at \in {"adapter", "factors", "check"} => "base" = "adapter"
        /\ j.op \in Actuating => j.at \notin {"objects", "place"} /\ (j.at \in {"plan", "open"} => "base" = "base")
      BY <1>1 DEF Actuating
  <2>3. JobOK(k)
      BY <1>1, <1>2, <1>5, <2>1, <2>2, PassGoesOn
  <2> QED BY <1>3, <2>3, JobMoves
<1>6. CASE DOMAIN n = PartsOf("base")
         /\ Notes(k, j, "adapter", "base", n)
  <2>0. DOMAIN n = PartsOf("base") /\ n = [t \in PartsOf("base") |-> n[t]]
      BY <1>2, <1>6
  <2>1. /\ IsJob(k) /\ k.op = j.op /\ k.at = "adapter" /\ k.pass = <<>>
        /\ k.values = j.values /\ k.since = j.since /\ k.claim = j.claim
        /\ DOMAIN k.seen = DOMAIN j.seen \union {"base"} /\ k.seen["base"] = n
        /\ \A z \in DOMAIN j.seen \ {"base"} : k.seen[z] = j.seen[z]
      BY <1>6, Opened
  <2>2. n = [t \in PartsOf("base") |-> n[t]]
      BY <2>0
  <2>3. LoraOK(k)
    <3>1. /\ j.since \in Nat /\ j.since <= rewrites["adapter"]
          /\ j.values = <<>>
        BY <1>1 DEF JobOK, LoraOK, Compared
    <3>9. k.since \in Nat /\ k.since <= rewrites["adapter"]
        BY <2>1, <3>1, <2>2, <1>6
    <3>10. k.values = <<>>
        BY <2>1, <3>1, <2>2, <1>6
    <3>11. StillThere(k, k.pass)
        BY <2>1, <3>1, SameSince, NothingRead
    <3> QED BY <1>1, <2>1, <3>9, <3>10, <3>11 DEF LoraOK, Compared
  <2>4. JobOK(k)
      BY <1>1, <2>1, <2>3, OneOperation
  <2> QED BY <1>3, <2>4, JobMoves
<1> QED BY <1>3, <1>4, <1>5, <1>6

LEMMA LoraAdapterRead ==
    ASSUME FilesTypes, \A q \in Procs : JobOK(job[q]), UNCHANGED <<disk, rewrites>>,
           NEW p \in Procs, At(p, "lora", "adapter"), OpenFile(p, "adapter", TRUE, "factors")
    PROVE  FilesTypes' /\ \A q \in Procs : JobOK(job[q])'
<1> DEFINE j == job[p]
           n == ReadNext(p, "adapter")
<1>1. JobOK(j) /\ IsJob(j) /\ j.op = "lora" /\ j.at = "adapter"
    BY DEF At, JobOK, Actuating
<1>2. /\ n = [t \in DOMAIN n |-> n[t]]
      /\ \A t \in DOMAIN n :
             (t \in DOMAIN j.pass /\ n[t] = j.pass[t]) \/ n[t] = disk["adapter"][t]
  <2>1. "adapter" \in Sources
      BY FilesAre
  <2> QED BY <2>1, ReadNextIs
<1>3. PICK k :
          /\ job' = [job EXCEPT ![p] = k]
          /\ \/ k = Idle
             \/ Goes(k, j, j.at, n, j.seen, j.values)
             \/ (DOMAIN n = PartsOf("adapter")
                  /\ Notes(k, j, "factors", "adapter", n))
    BY <1>1, OpenFileGives
<1> HIDE DEF n, j
<1>4. CASE k = Idle
    BY <1>3, <1>4, IdleOK, JobMoves
<1>5. CASE Goes(k, j, j.at, n, j.seen, j.values)
  <2>1. "adapter" \in Sources
      BY FilesAre
  <2>2. /\ j.op = "lora" /\ j.at \in {"adapter", "factors", "check"} => "adapter" = "adapter"
        /\ j.op \in Actuating => j.at \notin {"objects", "place"} /\ (j.at \in {"plan", "open"} => "adapter" = "base")
      BY <1>1 DEF Actuating
  <2>3. JobOK(k)
      BY <1>1, <1>2, <1>5, <2>1, <2>2, PassGoesOn
  <2> QED BY <1>3, <2>3, JobMoves
<1>6. CASE DOMAIN n = PartsOf("adapter")
         /\ Notes(k, j, "factors", "adapter", n)
  <2>0. DOMAIN n = PartsOf("adapter") /\ n = [t \in PartsOf("adapter") |-> n[t]]
      BY <1>2, <1>6
  <2>1. /\ IsJob(k) /\ k.op = j.op /\ k.at = "factors" /\ k.pass = <<>>
        /\ k.values = j.values /\ k.since = j.since /\ k.claim = j.claim
        /\ DOMAIN k.seen = DOMAIN j.seen \union {"adapter"} /\ k.seen["adapter"] = n
        /\ \A z \in DOMAIN j.seen \ {"adapter"} : k.seen[z] = j.seen[z]
      BY <1>6, Opened
  <2>2. n = [t \in PartsOf("adapter") |-> n[t]]
      BY <2>0
  <2>3. LoraOK(k)
    <3>1. /\ j.since \in Nat /\ j.since <= rewrites["adapter"]
          /\ j.values = <<>>
          /\ StillThere(j, j.pass)
        BY <1>1 DEF JobOK, LoraOK, Compared
    <3>2. StillThere(j, n)
        BY <1>2, <3>1, OneMoreRead
    <3>9. k.since \in Nat /\ k.since <= rewrites["adapter"]
        BY <2>1, <3>1, <3>2, <2>2, <1>6
    <3>10. k.values = <<>>
        BY <2>1, <3>1, <3>2, <2>2, <1>6
    <3>11. Knows(k, "adapter", "adapter")
        BY <2>1, <3>1, <3>2, <2>2, <1>6 DEF Knows
    <3>12. StillThere(k, k.seen["adapter"])
        BY <2>1, <3>1, <3>2, <2>2, <1>6 DEF StillThere, Since
    <3>13. Differs(k, k.pass)
        BY <2>1, <3>1, SameSince, NothingRead
    <3> QED BY <1>1, <2>1, <3>9, <3>10, <3>11, <3>12, <3>13 DEF LoraOK, Compared
  <2>4. JobOK(k)
      BY <1>1, <2>1, <2>3, OneOperation
  <2> QED BY <1>3, <2>4, JobMoves
<1> QED BY <1>3, <1>4, <1>5, <1>6

LEMMA LoraFactorsOpened ==
    ASSUME FilesTypes, \A q \in Procs : JobOK(job[q]), UNCHANGED <<disk, rewrites>>,
           NEW p \in Procs, At(p, "lora", "factors"), OpenFactors(p)
    PROVE  FilesTypes' /\ \A q \in Procs : JobOK(job[q])'
<1> DEFINE j == job[p]
           n == ReadNext(p, "adapter")
<1>1. JobOK(j) /\ IsJob(j) /\ j.op = "lora" /\ j.at = "factors"
    BY DEF At, JobOK, Actuating
<1>2. /\ n = [t \in DOMAIN n |-> n[t]]
      /\ \A t \in DOMAIN n :
             (t \in DOMAIN j.pass /\ n[t] = j.pass[t]) \/ n[t] = disk["adapter"][t]
  <2>1. "adapter" \in Sources
      BY FilesAre
  <2> QED BY <2>1, ReadNextIs
<1>3. PICK k :
          /\ job' = [job EXCEPT ![p] = k]
          /\ \/ k = Idle
             \/ Goes(k, j, j.at, n, j.seen, j.values)
             \/ (DOMAIN n = PartsOf("adapter")
                  /\ Notes(k, j, "read", "factors", n))
    BY <1>1, OpenFactorsGives
<1> HIDE DEF n, j
<1>4. CASE k = Idle
    BY <1>3, <1>4, IdleOK, JobMoves
<1>5. CASE Goes(k, j, j.at, n, j.seen, j.values)
  <2>1. "adapter" \in Sources
      BY FilesAre
  <2>2. /\ j.op = "lora" /\ j.at \in {"adapter", "factors", "check"} => "adapter" = "adapter"
        /\ j.op \in Actuating => j.at \notin {"objects", "place"} /\ (j.at \in {"plan", "open"} => "adapter" = "base")
      BY <1>1 DEF Actuating
  <2>3. JobOK(k)
      BY <1>1, <1>2, <1>5, <2>1, <2>2, PassGoesOn
  <2> QED BY <1>3, <2>3, JobMoves
<1>6. CASE DOMAIN n = PartsOf("adapter")
         /\ Notes(k, j, "read", "factors", n)
  <2>0. DOMAIN n = PartsOf("adapter") /\ n = [t \in PartsOf("adapter") |-> n[t]]
      BY <1>2, <1>6
  <2>1. /\ IsJob(k) /\ k.op = j.op /\ k.at = "read" /\ k.pass = <<>>
        /\ k.values = j.values /\ k.since = j.since /\ k.claim = j.claim
        /\ DOMAIN k.seen = DOMAIN j.seen \union {"factors"} /\ k.seen["factors"] = n
        /\ \A z \in DOMAIN j.seen \ {"factors"} : k.seen[z] = j.seen[z]
      BY <1>6, Opened
  <2>2. n = [t \in PartsOf("adapter") |-> n[t]]
      BY <2>0
  <2>3. LoraOK(k)
    <3>1. /\ j.since \in Nat /\ j.since <= rewrites["adapter"]
          /\ j.values = <<>>
          /\ Knows(j, "adapter", "adapter") /\ StillThere(j, j.seen["adapter"])
          /\ Differs(j, j.pass)
        BY <1>1 DEF JobOK, LoraOK, Compared
    <3>2. Differs(j, n)
        BY <1>2, <3>1, OneMoreRead
    <3>3. k.seen["adapter"] = j.seen["adapter"] /\ k.seen["factors"] = n /\ k.since = j.since
        BY <2>1, <3>1 DEF Knows
    <3>9. k.since \in Nat /\ k.since <= rewrites["adapter"]
        BY <2>1, <3>1, <3>2, <3>3, <2>2, <1>6
    <3>10. k.values = <<>>
        BY <2>1, <3>1, <3>2, <3>3, <2>2, <1>6
    <3>11. Knows(k, "adapter", "adapter")
        BY <2>1, <3>1, <3>2, <3>3, <2>2, <1>6 DEF Knows
    <3>12. StillThere(k, k.seen["adapter"])
        BY <3>1, <3>2, <3>3, SameSince
    <3>13. Knows(k, "factors", "adapter")
        BY <2>1, <3>1, <3>2, <3>3, <2>2, <1>6 DEF Knows
    <3>14. Differs(k, k.seen["factors"])
        BY <3>1, <3>2, <3>3, SameSince
    <3> QED BY <1>1, <2>1, <3>9, <3>10, <3>11, <3>12, <3>13, <3>14 DEF LoraOK, Compared
  <2>4. JobOK(k)
      BY <1>1, <2>1, <2>3, OneOperation
  <2> QED BY <1>3, <2>4, JobMoves
<1> QED BY <1>3, <1>4, <1>5, <1>6

LEMMA LoraFactorsRead ==
    ASSUME FilesTypes, \A q \in Procs : JobOK(job[q]), UNCHANGED <<disk, rewrites>>,
           NEW p \in Procs, At(p, "lora", "read"), ReadTensors(p, "adapter", job[p].seen["factors"], "check")
    PROVE  FilesTypes' /\ \A q \in Procs : JobOK(job[q])'
<1> DEFINE j == job[p]
           n == ReadNext(p, "adapter")
<1>1. JobOK(j) /\ IsJob(j) /\ j.op = "lora" /\ j.at = "read"
    BY DEF At, JobOK, Actuating
<1>2. /\ n = [t \in DOMAIN n |-> n[t]]
      /\ \A t \in DOMAIN n :
             (t \in DOMAIN j.pass /\ n[t] = j.pass[t]) \/ n[t] = disk["adapter"][t]
  <2>1. "adapter" \in Sources
      BY FilesAre
  <2> QED BY <2>1, ReadNextIs
<1>3. PICK k :
          /\ job' = [job EXCEPT ![p] = k]
          /\ \/ k = Idle
             \/ Goes(k, j, j.at, n, j.seen, j.values)
             \/ (DOMAIN n = PartsOf("adapter") /\ Consumed(n, j.seen["factors"])
                  /\ Goes(k, j, "check", <<>>, j.seen, Merged(j.values, n)))
    BY <1>1, ReadTensorsGives
<1> HIDE DEF n, j
<1>4. CASE k = Idle
    BY <1>3, <1>4, IdleOK, JobMoves
<1>5. CASE Goes(k, j, j.at, n, j.seen, j.values)
  <2>1. "adapter" \in Sources
      BY FilesAre
  <2>2. /\ j.op = "lora" /\ j.at \in {"adapter", "factors", "check"} => "adapter" = "adapter"
        /\ j.op \in Actuating => j.at \notin {"objects", "place"} /\ (j.at \in {"plan", "open"} => "adapter" = "base")
      BY <1>1 DEF Actuating
  <2>3. JobOK(k)
      BY <1>1, <1>2, <1>5, <2>1, <2>2, PassGoesOn
  <2> QED BY <1>3, <2>3, JobMoves
<1>6. CASE DOMAIN n = PartsOf("adapter") /\ Consumed(n, j.seen["factors"])
         /\ Goes(k, j, "check", <<>>, j.seen, Merged(j.values, n))
  <2>0. DOMAIN n = PartsOf("adapter") /\ n = [t \in PartsOf("adapter") |-> n[t]]
      BY <1>2, <1>6
  <2> DEFINE s == Merged(j.values, n)
  <2>1. /\ IsJob(k) /\ k.op = j.op /\ k.at = "check" /\ k.pass = <<>> /\ k.seen = j.seen
        /\ k.values = s /\ k.since = j.since /\ k.claim = j.claim
      BY <1>6, GoesIs
  <2>2. /\ j.values = <<>> => s = n
        /\ j.seen["factors"] = [t \in PartsOf("adapter") |-> j.seen["factors"][t]] => n = j.seen["factors"]
    <3>1. j.values = <<>> => s = n
        BY <1>2, MergedWithNothing
    <3>2. \A t \in DOMAIN n : n[t] = j.seen["factors"][t]
        BY <1>6 DEF Consumed
    <3>3. j.seen["factors"] = [t \in PartsOf("adapter") |-> j.seen["factors"][t]] => n = j.seen["factors"]
        BY <1>2, <1>6, <3>2
    <3> QED BY <3>1, <3>3
  <2> HIDE DEF s
  <2>3. LoraOK(k)
    <3>1. /\ j.since \in Nat /\ j.since <= rewrites["adapter"]
          /\ j.values = <<>>
          /\ Knows(j, "adapter", "adapter") /\ StillThere(j, j.seen["adapter"])
          /\ Knows(j, "factors", "adapter") /\ Differs(j, j.seen["factors"])
        BY <1>1 DEF JobOK, LoraOK, Compared
    <3>9. k.since \in Nat /\ k.since <= rewrites["adapter"]
        BY <2>1, <3>1, <2>2, <1>6
    <3>10. Knows(k, "adapter", "adapter")
        BY <2>1, <3>1, <2>2, <1>6 DEF Knows
    <3>11. StillThere(k, k.seen["adapter"])
        BY <2>1, <3>1, SameSince
    <3>12. Knows(k, "factors", "adapter")
        BY <2>1, <3>1, <2>2, <1>6 DEF Knows
    <3>13. Differs(k, k.seen["factors"])
        BY <2>1, <3>1, SameSince
    <3>14. k.values = k.seen["factors"]
        BY <2>1, <3>1, <2>2, <1>6 DEF Knows
    <3>15. WrittenBack(k, k.pass)
        BY <2>1, <3>1, SameSince, NothingRead
    <3> QED BY <1>1, <2>1, <3>9, <3>10, <3>11, <3>12, <3>13, <3>14, <3>15 DEF LoraOK, Compared
  <2>4. JobOK(k)
      BY <1>1, <2>1, <2>3, OneOperation
  <2> QED BY <1>3, <2>4, JobMoves
<1> QED BY <1>3, <1>4, <1>5, <1>6

LEMMA LoraAdapterChecked ==
    ASSUME FilesTypes, \A q \in Procs : JobOK(job[q]), UNCHANGED <<disk, rewrites>>,
           NEW p \in Procs, At(p, "lora", "check"), Rehash(p, "adapter", "delta")
    PROVE  FilesTypes' /\ \A q \in Procs : JobOK(job[q])'
<1> DEFINE j == job[p]
           n == ReadNext(p, "adapter")
<1>1. JobOK(j) /\ IsJob(j) /\ j.op = "lora" /\ j.at = "check"
    BY DEF At, JobOK, Actuating
<1>2. /\ n = [t \in DOMAIN n |-> n[t]]
      /\ \A t \in DOMAIN n :
             (t \in DOMAIN j.pass /\ n[t] = j.pass[t]) \/ n[t] = disk["adapter"][t]
  <2>1. "adapter" \in Sources
      BY FilesAre
  <2> QED BY <2>1, ReadNextIs
<1>3. PICK k :
          /\ job' = [job EXCEPT ![p] = k]
          /\ \/ k = Idle
             \/ Goes(k, j, j.at, n, j.seen, j.values)
             \/ (Kept(k, p, "adapter", "delta"))
    BY <1>1, RehashGives
<1> HIDE DEF n, j
<1>4. CASE k = Idle
    BY <1>3, <1>4, IdleOK, JobMoves
<1>5. CASE Goes(k, j, j.at, n, j.seen, j.values)
  <2>1. "adapter" \in Sources
      BY FilesAre
  <2>2. /\ j.op = "lora" /\ j.at \in {"adapter", "factors", "check"} => "adapter" = "adapter"
        /\ j.op \in Actuating => j.at \notin {"objects", "place"} /\ (j.at \in {"plan", "open"} => "adapter" = "base")
      BY <1>1 DEF Actuating
  <2>3. JobOK(k)
      BY <1>1, <1>2, <1>5, <2>1, <2>2, PassGoesOn
  <2> QED BY <1>3, <2>3, JobMoves
<1>6. CASE Kept(k, p, "adapter", "delta")
  <2>0. /\ DOMAIN n = PartsOf("adapter") /\ n = j.seen["adapter"]
        /\ Goes(k, j, "delta", <<>>, j.seen, j.values)
      BY <1>6 DEF Kept, n, j
  <2>1. /\ IsJob(k) /\ k.op = j.op /\ k.at = "delta" /\ k.pass = <<>> /\ k.seen = j.seen
        /\ k.values = j.values /\ k.since = j.since /\ k.claim = j.claim
      BY <2>0, GoesIs
  <2>2. n = j.seen["adapter"] /\ DOMAIN n = PartsOf("adapter")
      BY <2>0
  <2>3. LoraOK(k)
    <3>1. /\ j.since \in Nat /\ j.since <= rewrites["adapter"]
          /\ Knows(j, "adapter", "adapter") /\ StillThere(j, j.seen["adapter"])
          /\ Knows(j, "factors", "adapter") /\ Differs(j, j.seen["factors"])
          /\ j.values = j.seen["factors"]
          /\ WrittenBack(j, j.pass)
        BY <1>1 DEF JobOK, LoraOK, Compared
    <3>2. WrittenBack(j, n)
        BY <1>2, <3>1, OneMoreRead
    <3>9. k.since \in Nat /\ k.since <= rewrites["adapter"]
        BY <2>1, <3>1, <3>2, <2>2, <1>6
    <3>10. Knows(k, "adapter", "adapter")
        BY <2>1, <3>1, <3>2, <2>2, <1>6 DEF Knows
    <3>11. StillThere(k, k.seen["adapter"])
        BY <2>1, <3>1, SameSince
    <3>12. Knows(k, "factors", "adapter")
        BY <2>1, <3>1, <3>2, <2>2, <1>6 DEF Knows
    <3>13. Differs(k, k.seen["factors"])
        BY <2>1, <3>1, SameSince
    <3>14. k.values = k.seen["factors"]
        BY <2>1, <3>1, <3>2, <2>2, <1>6
    <3>15. k.values = k.seen["adapter"] \/ Since(k, 2)
      <4>1. CASE \E t \in PartsOf("adapter") : j.seen["factors"][t] # j.seen["adapter"][t]
          BY <2>1, <2>2, <3>1, <3>2, <4>1 DEF WrittenBack, Since
      <4>2. CASE \A t \in PartsOf("adapter") : j.seen["factors"][t] = j.seen["adapter"][t]
        <5>1. j.seen["factors"] = j.seen["adapter"]
            BY <3>1, <4>2 DEF Knows
        <5> QED BY <2>1, <3>1, <5>1
      <4> QED BY <4>1, <4>2
    <3> QED BY <1>1, <2>1, <3>9, <3>10, <3>11, <3>12, <3>13, <3>14, <3>15 DEF LoraOK, Compared
  <2>4. JobOK(k)
      BY <1>1, <2>1, <2>3, OneOperation
  <2> QED BY <1>3, <2>4, JobMoves
<1> QED BY <1>3, <1>4, <1>5, <1>6

LEMMA LoraBaseKept ==
    ASSUME FilesTypes, \A q \in Procs : JobOK(job[q]), UNCHANGED <<disk, rewrites>>,
           NEW p \in Procs, At(p, "lora", "check_base"), Rehash(p, "base", "check_adapter")
    PROVE  FilesTypes' /\ \A q \in Procs : JobOK(job[q])'
<1> DEFINE j == job[p]
           n == ReadNext(p, "base")
<1>1. JobOK(j) /\ IsJob(j) /\ j.op = "lora" /\ j.at = "check_base"
    BY DEF At, JobOK, Actuating
<1>2. /\ n = [t \in DOMAIN n |-> n[t]]
      /\ \A t \in DOMAIN n :
             (t \in DOMAIN j.pass /\ n[t] = j.pass[t]) \/ n[t] = disk["base"][t]
  <2>1. "base" \in Sources
      BY FilesAre
  <2> QED BY <2>1, ReadNextIs
<1>3. PICK k :
          /\ job' = [job EXCEPT ![p] = k]
          /\ \/ k = Idle
             \/ Goes(k, j, j.at, n, j.seen, j.values)
             \/ (Kept(k, p, "base", "check_adapter"))
    BY <1>1, RehashGives
<1> HIDE DEF n, j
<1>4. CASE k = Idle
    BY <1>3, <1>4, IdleOK, JobMoves
<1>5. CASE Goes(k, j, j.at, n, j.seen, j.values)
  <2>1. "base" \in Sources
      BY FilesAre
  <2>2. /\ j.op = "lora" /\ j.at \in {"adapter", "factors", "check"} => "base" = "adapter"
        /\ j.op \in Actuating => j.at \notin {"objects", "place"} /\ (j.at \in {"plan", "open"} => "base" = "base")
      BY <1>1 DEF Actuating
  <2>3. JobOK(k)
      BY <1>1, <1>2, <1>5, <2>1, <2>2, PassGoesOn
  <2> QED BY <1>3, <2>3, JobMoves
<1>6. CASE Kept(k, p, "base", "check_adapter")
  <2>0. /\ DOMAIN n = PartsOf("base") /\ n = j.seen["base"]
        /\ Goes(k, j, "check_adapter", <<>>, j.seen, j.values)
      BY <1>6 DEF Kept, n, j
  <2>1. /\ IsJob(k) /\ k.op = j.op /\ k.at = "check_adapter" /\ k.pass = <<>> /\ k.seen = j.seen
        /\ k.values = j.values /\ k.since = j.since /\ k.claim = j.claim
      BY <2>0, GoesIs
  <2>2. n = j.seen["base"] /\ DOMAIN n = PartsOf("base")
      BY <2>0
  <2>3. LoraOK(k)
    <3>1. /\ j.since \in Nat /\ j.since <= rewrites["adapter"]
          /\ Knows(j, "adapter", "adapter") /\ StillThere(j, j.seen["adapter"])
          /\ Knows(j, "factors", "adapter") /\ Differs(j, j.seen["factors"])
          /\ j.values = j.seen["factors"]
          /\ j.values = j.seen["adapter"] \/ Since(j, 2)
        BY <1>1 DEF JobOK, LoraOK, Compared
    <3>9. k.since \in Nat /\ k.since <= rewrites["adapter"]
        BY <2>1, <3>1, <2>2, <1>6
    <3>10. Knows(k, "adapter", "adapter")
        BY <2>1, <3>1, <2>2, <1>6 DEF Knows
    <3>11. StillThere(k, k.seen["adapter"])
        BY <2>1, <3>1, SameSince
    <3>12. Knows(k, "factors", "adapter")
        BY <2>1, <3>1, <2>2, <1>6 DEF Knows
    <3>13. Differs(k, k.seen["factors"])
        BY <2>1, <3>1, SameSince
    <3>14. k.values = k.seen["factors"]
        BY <2>1, <3>1, <2>2, <1>6
    <3>15. k.values = k.seen["adapter"] \/ Since(k, 2)
        BY <2>1, <3>1, SameSince
    <3> QED BY <1>1, <2>1, <3>9, <3>10, <3>11, <3>12, <3>13, <3>14, <3>15 DEF LoraOK, Compared
  <2>4. JobOK(k)
      BY <1>1, <2>1, <2>3, OneOperation
  <2> QED BY <1>3, <2>4, JobMoves
<1> QED BY <1>3, <1>4, <1>5, <1>6

LEMMA LoraAdapterKept ==
    ASSUME FilesTypes, \A q \in Procs : JobOK(job[q]), UNCHANGED <<disk, rewrites>>,
           NEW p \in Procs, At(p, "lora", "check_adapter"), Rehash(p, "adapter", "check_config")
    PROVE  FilesTypes' /\ \A q \in Procs : JobOK(job[q])'
<1> DEFINE j == job[p]
           n == ReadNext(p, "adapter")
<1>1. JobOK(j) /\ IsJob(j) /\ j.op = "lora" /\ j.at = "check_adapter"
    BY DEF At, JobOK, Actuating
<1>2. /\ n = [t \in DOMAIN n |-> n[t]]
      /\ \A t \in DOMAIN n :
             (t \in DOMAIN j.pass /\ n[t] = j.pass[t]) \/ n[t] = disk["adapter"][t]
  <2>1. "adapter" \in Sources
      BY FilesAre
  <2> QED BY <2>1, ReadNextIs
<1>3. PICK k :
          /\ job' = [job EXCEPT ![p] = k]
          /\ \/ k = Idle
             \/ Goes(k, j, j.at, n, j.seen, j.values)
             \/ (Kept(k, p, "adapter", "check_config"))
    BY <1>1, RehashGives
<1> HIDE DEF n, j
<1>4. CASE k = Idle
    BY <1>3, <1>4, IdleOK, JobMoves
<1>5. CASE Goes(k, j, j.at, n, j.seen, j.values)
  <2>1. "adapter" \in Sources
      BY FilesAre
  <2>2. /\ j.op = "lora" /\ j.at \in {"adapter", "factors", "check"} => "adapter" = "adapter"
        /\ j.op \in Actuating => j.at \notin {"objects", "place"} /\ (j.at \in {"plan", "open"} => "adapter" = "base")
      BY <1>1 DEF Actuating
  <2>3. JobOK(k)
      BY <1>1, <1>2, <1>5, <2>1, <2>2, PassGoesOn
  <2> QED BY <1>3, <2>3, JobMoves
<1>6. CASE Kept(k, p, "adapter", "check_config")
  <2>0. /\ DOMAIN n = PartsOf("adapter") /\ n = j.seen["adapter"]
        /\ Goes(k, j, "check_config", <<>>, j.seen, j.values)
      BY <1>6 DEF Kept, n, j
  <2>1. /\ IsJob(k) /\ k.op = j.op /\ k.at = "check_config" /\ k.pass = <<>> /\ k.seen = j.seen
        /\ k.values = j.values /\ k.since = j.since /\ k.claim = j.claim
      BY <2>0, GoesIs
  <2>2. n = j.seen["adapter"] /\ DOMAIN n = PartsOf("adapter")
      BY <2>0
  <2>3. LoraOK(k)
    <3>1. /\ j.since \in Nat /\ j.since <= rewrites["adapter"]
          /\ Knows(j, "adapter", "adapter") /\ StillThere(j, j.seen["adapter"])
          /\ Knows(j, "factors", "adapter") /\ Differs(j, j.seen["factors"])
          /\ j.values = j.seen["factors"]
          /\ j.values = j.seen["adapter"] \/ Since(j, 2)
        BY <1>1 DEF JobOK, LoraOK, Compared
    <3>9. k.since \in Nat /\ k.since <= rewrites["adapter"]
        BY <2>1, <3>1, <2>2, <1>6
    <3>10. Knows(k, "adapter", "adapter")
        BY <2>1, <3>1, <2>2, <1>6 DEF Knows
    <3>11. StillThere(k, k.seen["adapter"])
        BY <2>1, <3>1, SameSince
    <3>12. Knows(k, "factors", "adapter")
        BY <2>1, <3>1, <2>2, <1>6 DEF Knows
    <3>13. Differs(k, k.seen["factors"])
        BY <2>1, <3>1, SameSince
    <3>14. k.values = k.seen["factors"]
        BY <2>1, <3>1, <2>2, <1>6
    <3>15. k.values = k.seen["adapter"] \/ Since(k, 2)
        BY <2>1, <3>1, SameSince
    <3> QED BY <1>1, <2>1, <3>9, <3>10, <3>11, <3>12, <3>13, <3>14, <3>15 DEF LoraOK, Compared
  <2>4. JobOK(k)
      BY <1>1, <2>1, <2>3, OneOperation
  <2> QED BY <1>3, <2>4, JobMoves
<1> QED BY <1>3, <1>4, <1>5, <1>6

LEMMA LoraConfigKept ==
    ASSUME FilesTypes, \A q \in Procs : JobOK(job[q]), UNCHANGED <<disk, rewrites>>,
           NEW p \in Procs, At(p, "lora", "check_config"), Rehash(p, "config", "receipt")
    PROVE  FilesTypes' /\ \A q \in Procs : JobOK(job[q])'
<1> DEFINE j == job[p]
           n == ReadNext(p, "config")
<1>1. JobOK(j) /\ IsJob(j) /\ j.op = "lora" /\ j.at = "check_config"
    BY DEF At, JobOK, Actuating
<1>2. /\ n = [t \in DOMAIN n |-> n[t]]
      /\ \A t \in DOMAIN n :
             (t \in DOMAIN j.pass /\ n[t] = j.pass[t]) \/ n[t] = disk["config"][t]
  <2>1. "config" \in Sources
      BY FilesAre
  <2> QED BY <2>1, ReadNextIs
<1>3. PICK k :
          /\ job' = [job EXCEPT ![p] = k]
          /\ \/ k = Idle
             \/ Goes(k, j, j.at, n, j.seen, j.values)
             \/ (Kept(k, p, "config", "receipt"))
    BY <1>1, RehashGives
<1> HIDE DEF n, j
<1>4. CASE k = Idle
    BY <1>3, <1>4, IdleOK, JobMoves
<1>5. CASE Goes(k, j, j.at, n, j.seen, j.values)
  <2>1. "config" \in Sources
      BY FilesAre
  <2>2. /\ j.op = "lora" /\ j.at \in {"adapter", "factors", "check"} => "config" = "adapter"
        /\ j.op \in Actuating => j.at \notin {"objects", "place"} /\ (j.at \in {"plan", "open"} => "config" = "base")
      BY <1>1 DEF Actuating
  <2>3. JobOK(k)
      BY <1>1, <1>2, <1>5, <2>1, <2>2, PassGoesOn
  <2> QED BY <1>3, <2>3, JobMoves
<1>6. CASE Kept(k, p, "config", "receipt")
  <2>0. /\ DOMAIN n = PartsOf("config") /\ n = j.seen["config"]
        /\ Goes(k, j, "receipt", <<>>, j.seen, j.values)
      BY <1>6 DEF Kept, n, j
  <2>1. /\ IsJob(k) /\ k.op = j.op /\ k.at = "receipt" /\ k.pass = <<>> /\ k.seen = j.seen
        /\ k.values = j.values /\ k.since = j.since /\ k.claim = j.claim
      BY <2>0, GoesIs
  <2>2. n = j.seen["config"] /\ DOMAIN n = PartsOf("config")
      BY <2>0
  <2>3. LoraOK(k)
    <3>1. /\ j.since \in Nat /\ j.since <= rewrites["adapter"]
          /\ Knows(j, "adapter", "adapter") /\ StillThere(j, j.seen["adapter"])
          /\ Knows(j, "factors", "adapter") /\ Differs(j, j.seen["factors"])
          /\ j.values = j.seen["factors"]
          /\ j.values = j.seen["adapter"] \/ Since(j, 2)
        BY <1>1 DEF JobOK, LoraOK, Compared
    <3>9. k.since \in Nat /\ k.since <= rewrites["adapter"]
        BY <2>1, <3>1, <2>2, <1>6
    <3>10. Knows(k, "adapter", "adapter")
        BY <2>1, <3>1, <2>2, <1>6 DEF Knows
    <3>11. StillThere(k, k.seen["adapter"])
        BY <2>1, <3>1, SameSince
    <3>12. Knows(k, "factors", "adapter")
        BY <2>1, <3>1, <2>2, <1>6 DEF Knows
    <3>13. Differs(k, k.seen["factors"])
        BY <2>1, <3>1, SameSince
    <3>14. k.values = k.seen["factors"]
        BY <2>1, <3>1, <2>2, <1>6
    <3>15. k.values = k.seen["adapter"] \/ Since(k, 2)
        BY <2>1, <3>1, SameSince
    <3> QED BY <1>1, <2>1, <3>9, <3>10, <3>11, <3>12, <3>13, <3>14, <3>15 DEF LoraOK, Compared
  <2>4. JobOK(k)
      BY <1>1, <2>1, <2>3, OneOperation
  <2> QED BY <1>3, <2>4, JobMoves
<1> QED BY <1>3, <1>4, <1>5, <1>6

LEMMA PlanReplayed ==
    ASSUME FilesTypes, \A q \in Procs : JobOK(job[q]), UNCHANGED <<disk, rewrites>>,
           NEW p \in Procs, At(p, "materialize", "plan"), OpenFile(p, "base", ReadNext(p, "base") = job[p].claim.base, "objects")
    PROVE  FilesTypes' /\ \A q \in Procs : JobOK(job[q])'
<1> DEFINE j == job[p]
           n == ReadNext(p, "base")
<1>1. JobOK(j) /\ IsJob(j) /\ j.op = "materialize" /\ j.op \in Actuating /\ j.at = "plan"
    BY DEF At, JobOK, Actuating
<1>2. /\ n = [t \in DOMAIN n |-> n[t]]
      /\ \A t \in DOMAIN n :
             (t \in DOMAIN j.pass /\ n[t] = j.pass[t]) \/ n[t] = disk["base"][t]
  <2>1. "base" \in Sources
      BY FilesAre
  <2> QED BY <2>1, ReadNextIs
<1>3. PICK k :
          /\ job' = [job EXCEPT ![p] = k]
          /\ \/ k = Idle
             \/ Goes(k, j, j.at, n, j.seen, j.values)
             \/ (DOMAIN n = PartsOf("base") /\ n = j.claim.base
                  /\ Notes(k, j, "objects", "base", n))
    BY <1>1, OpenFileGives
<1> HIDE DEF n, j
<1>4. CASE k = Idle
    BY <1>3, <1>4, IdleOK, JobMoves
<1>5. CASE Goes(k, j, j.at, n, j.seen, j.values)
  <2>1. "base" \in Sources
      BY FilesAre
  <2>2. /\ j.op = "lora" /\ j.at \in {"adapter", "factors", "check"} => "base" = "adapter"
        /\ j.op \in Actuating => j.at \notin {"objects", "place"} /\ (j.at \in {"plan", "open"} => "base" = "base")
      BY <1>1 DEF Actuating
  <2>3. JobOK(k)
      BY <1>1, <1>2, <1>5, <2>1, <2>2, PassGoesOn
  <2> QED BY <1>3, <2>3, JobMoves
<1>6. CASE DOMAIN n = PartsOf("base") /\ n = j.claim.base
         /\ Notes(k, j, "objects", "base", n)
  <2>0. DOMAIN n = PartsOf("base") /\ n = [t \in PartsOf("base") |-> n[t]]
      BY <1>2, <1>6
  <2>1. /\ IsJob(k) /\ k.op = j.op /\ k.at = "objects" /\ k.pass = <<>>
        /\ k.values = j.values /\ k.since = j.since /\ k.claim = j.claim
    <3>1. Notes(k, j, "objects", "base", n)
        BY <1>6
    <3> QED BY <3>1, Opened
  <2>2. n = [t \in PartsOf("base") |-> n[t]]
      BY <2>0
  <2>3. ActuateOK(k)
    <3>1. ActuateOK(j)
        BY <1>1 DEF JobOK
    <3>2. /\ k.op = "materialize" => k.claim \in Requests
          /\ k.op = "authenticate" => \E q \in Requests : k.claim.output = q.output
        BY <1>1, <2>1, <3>1 DEF ActuateOK
    <3>3. j.values = <<>> /\ \A t \in PartsOf("base") : t \in DOMAIN j.pass => j.pass[t] \in Versions
        BY <1>1, <3>1 DEF ActuateOK
    <3>4. \A t \in PartsOf("base") : t \in DOMAIN n => n[t] \in Versions
      <4>1. \A t \in PartsOf("base") : disk["base"][t] \in Versions
          BY FilesAre DEF FilesTypes
      <4> QED BY <1>2, <3>3, <4>1
    <3> QED BY <1>1, <2>1, <3>2, <3>3 DEF ActuateOK
  <2>4. JobOK(k)
      BY <1>1, <2>1, <2>3, OneOperation
  <2> QED BY <1>3, <2>4, JobMoves
<1> QED BY <1>3, <1>4, <1>5, <1>6

LEMMA BaseOpened ==
    ASSUME FilesTypes, \A q \in Procs : JobOK(job[q]), UNCHANGED <<disk, rewrites>>,
           NEW p \in Procs, (\E op \in Actuating : At(p, op, "open")), OpenFile(p, "base", job[p].op = "authenticate" \/ ReadNext(p, "base") = job[p].claim.base, "delta")
    PROVE  FilesTypes' /\ \A q \in Procs : JobOK(job[q])'
<1> DEFINE j == job[p]
           n == ReadNext(p, "base")
<1>1. JobOK(j) /\ IsJob(j) /\ j.op \in Actuating /\ j.at = "open"
    BY DEF At, JobOK, Actuating
<1>2. /\ n = [t \in DOMAIN n |-> n[t]]
      /\ \A t \in DOMAIN n :
             (t \in DOMAIN j.pass /\ n[t] = j.pass[t]) \/ n[t] = disk["base"][t]
  <2>1. "base" \in Sources
      BY FilesAre
  <2> QED BY <2>1, ReadNextIs
<1>3. PICK k :
          /\ job' = [job EXCEPT ![p] = k]
          /\ \/ k = Idle
             \/ Goes(k, j, j.at, n, j.seen, j.values)
             \/ (DOMAIN n = PartsOf("base") /\ (j.op = "authenticate" \/ n = j.claim.base)
                  /\ Notes(k, j, "delta", "base", n))
    BY <1>1, OpenFileGives
<1> HIDE DEF n, j
<1>4. CASE k = Idle
    BY <1>3, <1>4, IdleOK, JobMoves
<1>5. CASE Goes(k, j, j.at, n, j.seen, j.values)
  <2>1. "base" \in Sources
      BY FilesAre
  <2>2. /\ j.op = "lora" /\ j.at \in {"adapter", "factors", "check"} => "base" = "adapter"
        /\ j.op \in Actuating => j.at \notin {"objects", "place"} /\ (j.at \in {"plan", "open"} => "base" = "base")
      BY <1>1 DEF Actuating
  <2>3. JobOK(k)
      BY <1>1, <1>2, <1>5, <2>1, <2>2, PassGoesOn
  <2> QED BY <1>3, <2>3, JobMoves
<1>6. CASE DOMAIN n = PartsOf("base") /\ (j.op = "authenticate" \/ n = j.claim.base)
         /\ Notes(k, j, "delta", "base", n)
  <2>0. DOMAIN n = PartsOf("base") /\ n = [t \in PartsOf("base") |-> n[t]]
      BY <1>2, <1>6
  <2>1. /\ IsJob(k) /\ k.op = j.op /\ k.at = "delta" /\ k.pass = <<>>
        /\ k.values = j.values /\ k.since = j.since /\ k.claim = j.claim
        /\ DOMAIN k.seen = DOMAIN j.seen \union {"base"} /\ k.seen["base"] = n
        /\ \A z \in DOMAIN j.seen \ {"base"} : k.seen[z] = j.seen[z]
      BY <1>6, Opened
  <2>2. n = [t \in PartsOf("base") |-> n[t]]
      BY <2>0
  <2>3. ActuateOK(k)
    <3>1. ActuateOK(j)
        BY <1>1 DEF JobOK
    <3>2. /\ k.op = "materialize" => k.claim \in Requests
          /\ k.op = "authenticate" => \E q \in Requests : k.claim.output = q.output
        BY <1>1, <2>1, <3>1 DEF ActuateOK
    <3>3. j.values = <<>> /\ \A t \in PartsOf("base") : t \in DOMAIN j.pass => j.pass[t] \in Versions
        BY <1>1, <3>1 DEF ActuateOK
    <3>4. \A t \in PartsOf("base") : t \in DOMAIN n => n[t] \in Versions
      <4>1. \A t \in PartsOf("base") : disk["base"][t] \in Versions
          BY FilesAre DEF FilesTypes
      <4> QED BY <1>2, <3>3, <4>1
    <3>5. "base" \in DOMAIN k.seen /\ k.seen["base"] \in [PartsOf("base") -> Versions]
        BY <2>0, <2>1, <3>4
    <3>6. k.op = "materialize" => k.seen["base"] = k.claim.base
        BY <1>6, <2>1
    <3> QED BY <1>1, <2>1, <3>2, <3>3, <3>5, <3>6 DEF ActuateOK
  <2>4. JobOK(k)
      BY <1>1, <2>1, <2>3, OneOperation
  <2> QED BY <1>3, <2>4, JobMoves
<1> QED BY <1>3, <1>4, <1>5, <1>6

LEMMA DeltaOpened ==
    ASSUME FilesTypes, \A q \in Procs : JobOK(job[q]), UNCHANGED <<disk, rewrites>>,
           NEW p \in Procs, (\E op \in Actuating : At(p, op, "delta")), OpenFile(p, "delta", Referenced(ReadNext(p, "delta")), "stream")
    PROVE  FilesTypes' /\ \A q \in Procs : JobOK(job[q])'
<1> DEFINE j == job[p]
           n == ReadNext(p, "delta")
<1>1. JobOK(j) /\ IsJob(j) /\ j.op \in Actuating /\ j.at = "delta"
    BY DEF At, JobOK, Actuating
<1>2. /\ n = [t \in DOMAIN n |-> n[t]]
      /\ \A t \in DOMAIN n :
             (t \in DOMAIN j.pass /\ n[t] = j.pass[t]) \/ n[t] = disk["delta"][t]
  <2>1. "delta" \in Sources
      BY FilesAre
  <2> QED BY <2>1, ReadNextIs
<1>3. PICK k :
          /\ job' = [job EXCEPT ![p] = k]
          /\ \/ k = Idle
             \/ Goes(k, j, j.at, n, j.seen, j.values)
             \/ (DOMAIN n = PartsOf("delta") /\ (Referenced(n))
                  /\ Notes(k, j, "stream", "delta", n))
    BY <1>1, OpenFileGives
<1> HIDE DEF n, j
<1>4. CASE k = Idle
    BY <1>3, <1>4, IdleOK, JobMoves
<1>5. CASE Goes(k, j, j.at, n, j.seen, j.values)
  <2>1. "delta" \in Sources
      BY FilesAre
  <2>2. /\ j.op = "lora" /\ j.at \in {"adapter", "factors", "check"} => "delta" = "adapter"
        /\ j.op \in Actuating => j.at \notin {"objects", "place"} /\ (j.at \in {"plan", "open"} => "delta" = "base")
      BY <1>1 DEF Actuating
  <2>3. JobOK(k)
      BY <1>1, <1>2, <1>5, <2>1, <2>2, PassGoesOn
  <2> QED BY <1>3, <2>3, JobMoves
<1>6. CASE DOMAIN n = PartsOf("delta") /\ (Referenced(n))
         /\ Notes(k, j, "stream", "delta", n)
  <2>0. DOMAIN n = PartsOf("delta") /\ n = [t \in PartsOf("delta") |-> n[t]]
      BY <1>2, <1>6
  <2>1. /\ IsJob(k) /\ k.op = j.op /\ k.at = "stream" /\ k.pass = <<>>
        /\ k.values = j.values /\ k.since = j.since /\ k.claim = j.claim
        /\ DOMAIN k.seen = DOMAIN j.seen \union {"delta"} /\ k.seen["delta"] = n
        /\ \A z \in DOMAIN j.seen \ {"delta"} : k.seen[z] = j.seen[z]
      BY <1>6, Opened
  <2>2. n = [t \in PartsOf("delta") |-> n[t]]
      BY <2>0
  <2>3. ActuateOK(k)
    <3>1. ActuateOK(j)
        BY <1>1 DEF JobOK
    <3>2. /\ k.op = "materialize" => k.claim \in Requests
          /\ k.op = "authenticate" => \E q \in Requests : k.claim.output = q.output
        BY <1>1, <2>1, <3>1 DEF ActuateOK
    <3>3. /\ j.values = <<>> /\ "base" \in DOMAIN j.seen /\ j.seen["base"] \in [PartsOf("base") -> Versions]
          /\ j.op = "materialize" => j.seen["base"] = j.claim.base
        BY <1>1, <3>1 DEF ActuateOK
    <3>4. k.seen["base"] = j.seen["base"] /\ "base" \in DOMAIN k.seen
        BY <2>1, <3>3
    <3>5. DOMAIN k.values = {}
        BY <2>1, <3>3
    <3>6. k.values = [t \in DOMAIN k.values |-> k.values[t]]
        BY <2>1, <3>3, <3>5
    <3> QED BY <1>1, <2>1, <3>2, <3>3, <3>4, <3>5, <3>6 DEF ActuateOK
  <2>4. JobOK(k)
      BY <1>1, <2>1, <2>3, OneOperation
  <2> QED BY <1>3, <2>4, JobMoves
<1> QED BY <1>3, <1>4, <1>5, <1>6

\* The steps that write.  A job moves on in place, or takes something in.
LEMMA MovesOn ==
    ASSUME NEW p \in Procs, IsJob(job[p]), NEW a, job' = [job EXCEPT ![p].at = a]
    PROVE  \E k : /\ job' = [job EXCEPT ![p] = k]
                  /\ Goes(k, job[p], a, job[p].pass, job[p].seen, job[p].values)
<1> DEFINE k == [job[p] EXCEPT !.at = a]
<1>1. job' = [job EXCEPT ![p] = k]
    OBVIOUS
<1>2. Goes(k, job[p], a, job[p].pass, job[p].seen, job[p].values)
    BY JobUpdates
<1> HIDE DEF k
<1> QED BY <1>1, <1>2, Zenon

LEMMA TakesIn ==
    ASSUME NEW p \in Procs, IsJob(job[p]), NEW STATE e,
           job' = [job EXCEPT ![p].values = Merged(@, e)]
    PROVE  \E k : /\ job' = [job EXCEPT ![p] = k]
                  /\ Goes(k, job[p], job[p].at, job[p].pass, job[p].seen, Merged(job[p].values, e))
<1> DEFINE v == Merged(job[p].values, e)
           k == [job[p] EXCEPT !.values = v]
<1>1. job' = [job EXCEPT ![p] = k]
    OBVIOUS
<1> HIDE DEF v
<1>2. Goes(k, job[p], job[p].at, job[p].pass, job[p].seen, v)
    BY JobUpdates
<1> HIDE DEF k
<1> QED BY <1>1, <1>2, Zenon DEF v

\* What is written is kept, and what comes to it is right.
LEMMA WrittenMoves ==
    ASSUME WrittenOK, outputs' = outputs,
           \A r \in records' \ records : RecordOK(r),
           \A r \in confirmed' \ confirmed : TrueReceipt(r),
           \A a \in admitted' \ admitted : Exact(a.receipt) \/ a.raced,
           \A c \in store' \ store : "combined" \in DOMAIN c => Referenced(c.combined)
    PROVE  WrittenOK'
<1>1. /\ outputs' = [o \in {q.output : q \in Requests} |-> outputs'[o]]
      /\ \A o \in DOMAIN outputs' : InstalledOK(o)'
    BY DEF WrittenOK, InstalledOK
<1>2. ASSUME NEW r \in records' PROVE RecordOK(r)'
  <2>1. RecordOK(r)
      BY DEF WrittenOK
  <2> QED BY <2>1 DEF RecordOK, TrueReceipt, Exact
<1>3. ASSUME NEW r \in confirmed' PROVE TrueReceipt(r)'
  <2>1. TrueReceipt(r)
      BY DEF WrittenOK
  <2> QED BY <2>1 DEF TrueReceipt
<1>4. \A a \in admitted' : Exact(a.receipt) \/ a.raced
    BY DEF WrittenOK
<1>5. \A c \in store' : "combined" \in DOMAIN c => Referenced(c.combined)
    BY DEF WrittenOK
<1> QED BY <1>1, <1>2, <1>3, <1>4, <1>5 DEF WrittenOK

LEMMA WrittenStays ==
    ASSUME WrittenOK, UNCHANGED <<store, records, admitted, outputs, confirmed>> PROVE WrittenOK'
<1>1. /\ records' \ records = {} /\ confirmed' \ confirmed = {} /\ admitted' \ admitted = {}
      /\ store' \ store = {} /\ outputs' = outputs
    OBVIOUS
<1> QED BY <1>1, WrittenMoves

LEMMA NormalizedInstalled ==
    ASSUME FilesInv, UNCHANGED <<disk, rewrites, outputs, confirmed>>, NEW p \in Procs,
           InstallNormalized(p)
    PROVE  FilesInv'
<1>1. IsJob(job[p]) /\ job[p].op = "normalize" /\ job[p].at = "install" /\ NormalizeOK(job[p])
    BY DEF FilesInv, JobOK, InstallNormalized, At
<1>2. PICK j : j = job[p]
    OBVIOUS
<1>3. /\ Knows(j, "shard1", "shard1") /\ Knows(j, "shard2", "shard2")
      /\ j.values = Merged(j.seen["shard1"], j.seen["shard2"])
    BY <1>1, <1>2 DEF NormalizeOK
<1>4. PICK k : job' = [job EXCEPT ![p] = k] /\ Goes(k, j, "record", j.pass, j.seen, j.values)
    BY <1>1, <1>2, MovesOn DEF InstallNormalized
<1>5. /\ IsJob(k) /\ k.op = "normalize" /\ k.at = "record" /\ k.seen = j.seen /\ k.values = j.values
    BY <1>1, <1>2, <1>4, GoesIs
<1>6. JobOK(k)
  <2>1. NormalizeOK(k)
      BY <1>3, <1>5 DEF NormalizeOK, Knows
  <2> QED BY <1>5, <2>1, OneOperation
<1>7. FilesTypes' /\ \A q \in Procs : JobOK(job[q])'
    BY <1>4, <1>6, JobMoves DEF FilesInv
<1>8. "combined" \notin DOMAIN j.values
  <2>1. DOMAIN j.values = DOMAIN j.seen["shard1"] \union DOMAIN j.seen["shard2"]
      BY <1>3 DEF Merged
  <2>2. DOMAIN j.seen["shard1"] = PartsOf("shard1") /\ DOMAIN j.seen["shard2"] = PartsOf("shard2")
      BY <1>3 DEF Knows
  <2> QED BY <2>1, <2>2, FilesAre
<1>9. WrittenOK'
  <2>1. UNCHANGED <<records, admitted>> /\ store' = store \union {j.values}
      BY <1>2 DEF InstallNormalized
  <2> QED BY <2>1, <1>8, WrittenMoves DEF FilesInv
<1> QED BY <1>7, <1>9 DEF FilesInv

LEMMA NormalizationRecorded ==
    ASSUME FilesInv, UNCHANGED <<disk, rewrites, outputs, confirmed>>, NEW p \in Procs,
           RecordNormalization(p)
    PROVE  FilesInv'
<1>1. job[p].op = "normalize" /\ job[p].at = "record" /\ NormalizeOK(job[p])
    BY DEF FilesInv, JobOK, RecordNormalization, At
<1>2. job[p].values = Merged(job[p].seen["shard1"], job[p].seen["shard2"])
    BY <1>1 DEF NormalizeOK
<1>3. FilesTypes' /\ \A q \in Procs : JobOK(job[q])'
    BY IdleOK, JobMoves DEF FilesInv, RecordNormalization, Refuse
<1>4. WrittenOK'
  <2> DEFINE r == [kind |-> "normalization", index |-> job[p].seen["index"],
                   shards |-> Merged(job[p].seen["shard1"], job[p].seen["shard2"]),
                   checkpoint |-> job[p].values]
  <2>1. RecordOK(r)
      BY <1>2 DEF RecordOK
  <2>2. records' \subseteq records \union {r} /\ UNCHANGED <<store, admitted>>
      BY DEF RecordNormalization
  <2> HIDE DEF r
  <2> QED BY <2>1, <2>2, WrittenMoves DEF FilesInv
<1> QED BY <1>3, <1>4 DEF FilesInv

LEMMA ReadoutAnswered ==
    ASSUME FilesInv, UNCHANGED <<disk, rewrites, outputs, confirmed, store, admitted>>, NEW p \in Procs,
           At(p, "readout", "answer"), Refuse(p),
           records' = records \union
               {[kind |-> "readout", model |-> job[p].seen["base"], weights |-> job[p].values]}
    PROVE  FilesInv'
<1>1. job[p].op = "readout" /\ job[p].at = "answer" /\ ReadoutOK(job[p])
    BY DEF FilesInv, JobOK, At
<1>2. job[p].values = job[p].seen["base"]
    BY <1>1 DEF ReadoutOK
<1>3. FilesTypes' /\ \A q \in Procs : JobOK(job[q])'
    BY IdleOK, JobMoves DEF FilesInv, Refuse
<1>4. WrittenOK'
  <2> DEFINE r == [kind |-> "readout", model |-> job[p].seen["base"], weights |-> job[p].values]
  <2>1. RecordOK(r)
      BY <1>2 DEF RecordOK
  <2>2. records' = records \union {r}
      OBVIOUS
  <2> HIDE DEF r
  <2> QED BY <2>1, <2>2, WrittenMoves DEF FilesInv
<1> QED BY <1>3, <1>4 DEF FilesInv

LEMMA ProfilePersisted ==
    ASSUME FilesInv, UNCHANGED <<disk, rewrites>>, NEW p \in Procs, PersistProfile(p)
    PROVE  FilesInv'
<1>1. job[p].op = "profile" /\ job[p].at = "persist" /\ ProfileOK(job[p])
    BY DEF FilesInv, JobOK, PersistProfile, At
<1>2. job[p].values = job[p].seen["config"]
    BY <1>1 DEF ProfileOK
<1>3. FilesTypes' /\ \A q \in Procs : JobOK(job[q])'
    BY IdleOK, JobMoves DEF FilesInv, PersistProfile, Refuse
<1>4. WrittenOK'
  <2> DEFINE r == [kind |-> "profile", base |-> job[p].seen["base"],
                   config |-> job[p].seen["config"], architecture |-> job[p].values]
  <2>1. RecordOK(r)
      BY <1>2 DEF RecordOK
  <2>2. records' = records \union {r} /\ UNCHANGED <<store, admitted, outputs, confirmed>>
      BY DEF PersistProfile
  <2> HIDE DEF r
  <2> QED BY <2>1, <2>2, WrittenMoves DEF FilesInv
<1> QED BY <1>3, <1>4 DEF FilesInv

LEMMA DeltasStreamed ==
    ASSUME FilesTypes, \A q \in Procs : JobOK(job[q]), UNCHANGED <<disk, rewrites>>,
           NEW p \in Procs, StreamDeltas(p)
    PROVE  FilesTypes' /\ \A q \in Procs : JobOK(job[q])'
<1>1. IsJob(job[p]) /\ job[p].op = "combine" /\ job[p].at = "stream"
    BY DEF JobOK, StreamDeltas, At
<1>2. PICK j : j = job[p]
    OBVIOUS
<1> DEFINE next == IF Cardinality(DOMAIN job[p].values) % 2 = 0 THEN "delta1" ELSE "delta2"
           t == Parts[next][Cardinality(DOMAIN job[p].values) \div 2 + 1]
           e == Entry(t, disk[next][t])
<1>3. \/ job' = [job EXCEPT ![p].at = "finish"]
      \/ job' = [job EXCEPT ![p].values = Merged(@, e)]
    BY DEF StreamDeltas
<1> HIDE DEF e
<1>4. PICK k : /\ job' = [job EXCEPT ![p] = k]
               /\ \/ Goes(k, j, "finish", j.pass, j.seen, j.values)
                  \/ Goes(k, j, j.at, j.pass, j.seen, Merged(j.values, e))
  <2>1. CASE job' = [job EXCEPT ![p].at = "finish"]
      BY <1>1, <1>2, <2>1, MovesOn
  <2>2. CASE job' = [job EXCEPT ![p].values = Merged(@, e)]
      BY <1>1, <1>2, <2>2, TakesIn
  <2> QED BY <1>3, <2>1, <2>2
<1>5. IsJob(k) /\ k.op = "combine" /\ k.at \in {"stream", "finish"}
    BY <1>1, <1>2, <1>4, GoesIs
<1>6. JobOK(k)
    BY <1>5, OneOperation DEF CombineOK
<1> QED BY <1>4, <1>6, JobMoves

LEMMA DeltasFinished ==
    ASSUME FilesTypes, \A q \in Procs : JobOK(job[q]), UNCHANGED <<disk, rewrites>>,
           NEW p \in Procs, FinishDeltas(p)
    PROVE  FilesTypes' /\ \A q \in Procs : JobOK(job[q])'
<1>1. IsJob(job[p]) /\ job[p].op = "combine" /\ job[p].at = "finish"
    BY DEF JobOK, FinishDeltas, At
<1>2. PICK j : j = job[p]
    OBVIOUS
<1>3. CASE ~Referenced(job[p].values)
    BY <1>3, IdleOK, JobMoves DEF FinishDeltas, Refuse
<1>4. CASE Referenced(job[p].values)
  <2>1. job' = [job EXCEPT ![p].at = "install"]
      BY <1>4 DEF FinishDeltas
  <2>2. PICK k : job' = [job EXCEPT ![p] = k] /\ Goes(k, j, "install", j.pass, j.seen, j.values)
      BY <1>1, <1>2, <2>1, MovesOn
  <2>3. IsJob(k) /\ k.op = "combine" /\ k.values = j.values
      BY <1>1, <1>2, <2>2, GoesIs
  <2>4. JobOK(k)
      BY <1>2, <1>4, <2>3, OneOperation DEF CombineOK
  <2> QED BY <2>2, <2>4, JobMoves
<1> QED BY <1>3, <1>4

LEMMA CombinationInstalled ==
    ASSUME FilesInv, UNCHANGED <<disk, rewrites, outputs, confirmed>>, NEW p \in Procs,
           InstallCombination(p)
    PROVE  FilesInv'
<1>1. job[p].op = "combine" /\ job[p].at = "install" /\ CombineOK(job[p])
    BY DEF FilesInv, JobOK, InstallCombination, At
<1>2. Referenced(job[p].values)
    BY <1>1 DEF CombineOK
<1>3. FilesTypes' /\ \A q \in Procs : JobOK(job[q])'
    BY IdleOK, JobMoves DEF FilesInv, InstallCombination, Refuse
<1>4. WrittenOK'
  <2>1. /\ store' = store \union {[combined |-> job[p].values]}
        /\ UNCHANGED <<records, admitted>>
      BY DEF InstallCombination
  <2>2. \A c \in store' \ store : "combined" \in DOMAIN c => Referenced(c.combined)
      BY <1>2, <2>1
  <2> QED BY <2>1, <2>2, WrittenMoves DEF FilesInv
<1> QED BY <1>3, <1>4 DEF FilesInv

LEMMA DeltaStored ==
    ASSUME FilesInv, UNCHANGED <<disk, rewrites, outputs, confirmed>>, NEW p \in Procs, StoreDelta(p)
    PROVE  FilesInv'
<1>1. IsJob(job[p]) /\ job[p].op = "lora" /\ job[p].at = "delta" /\ LoraOK(job[p])
    BY DEF FilesInv, JobOK, StoreDelta, At
<1>2. PICK j : j = job[p]
    OBVIOUS
<1>3. PICK k : job' = [job EXCEPT ![p] = k] /\ Goes(k, j, "check_base", j.pass, j.seen, j.values)
    BY <1>1, <1>2, MovesOn DEF StoreDelta
<1>4. /\ IsJob(k) /\ k.op = "lora" /\ k.at = "check_base" /\ k.seen = j.seen /\ k.values = j.values
      /\ k.since = j.since
  <2>1. /\ IsJob(k) /\ k.op = j.op /\ k.at = "check_base" /\ k.seen = j.seen /\ k.values = j.values
        /\ k.since = j.since
      BY <1>3 DEF Goes, IsJob
  <2> QED BY <1>1, <1>2, <2>1
<1>5. JobOK(k)
  <2>1. /\ j.since \in Nat /\ j.since <= rewrites["adapter"]
        /\ Knows(j, "adapter", "adapter") /\ StillThere(j, j.seen["adapter"])
        /\ Knows(j, "factors", "adapter") /\ Differs(j, j.seen["factors"])
        /\ j.values = j.seen["factors"]
        /\ j.values = j.seen["adapter"] \/ Since(j, 2)
      BY <1>1, <1>2 DEF LoraOK, Compared
  <2>2. /\ Knows(k, "adapter", "adapter") /\ Knows(k, "factors", "adapter")
      BY <1>4, <2>1 DEF Knows
  <2>3. StillThere(k, k.seen["adapter"]) /\ Differs(k, k.seen["factors"])
      BY <1>4, <2>1, SameSince
  <2>4. k.values = k.seen["adapter"] \/ Since(k, 2)
      BY <1>4, <2>1, SameSince
  <2>5. LoraOK(k)
      BY <1>4, <2>1, <2>2, <2>3, <2>4 DEF LoraOK, Compared
  <2> QED BY <1>4, <2>5, OneOperation
<1>6. FilesTypes' /\ \A q \in Procs : JobOK(job[q])'
    BY <1>3, <1>5, JobMoves DEF FilesInv
<1>7. WrittenOK'
  <2> DEFINE d == DenseDelta(job[p].values, job[p].seen["config"])
  <2>1. "combined" \notin DOMAIN d
      BY DEF DenseDelta
  <2>2. store' = store \union {d} /\ UNCHANGED <<records, admitted>>
      BY DEF StoreDelta
  <2> HIDE DEF d
  <2> QED BY <2>1, <2>2, WrittenMoves DEF FilesInv
<1> QED BY <1>6, <1>7 DEF FilesInv

\* A receipt is exact, or its import was raced.
LEMMA ReceiptIsExact ==
    ASSUME NEW p \in Procs, LoraOK(job[p]), At(p, "lora", "receipt")
    PROVE  Exact(ReceiptOf(p)) \/ Raced(p)
<1>1. job[p].values = job[p].seen["adapter"] \/ Since(job[p], 2)
    BY DEF LoraOK, At, Compared
<1>2. CASE Since(job[p], 2)
    BY <1>2 DEF Since, Raced
<1>3. CASE job[p].values = job[p].seen["adapter"]
    BY <1>3 DEF Exact, ReceiptOf
<1> QED BY <1>1, <1>2, <1>3

LEMMA ReceiptReturned ==
    ASSUME FilesInv, UNCHANGED <<disk, rewrites, outputs, confirmed>>, NEW p \in Procs,
           ReturnReceipt(p)
    PROVE  FilesInv'
<1>1. LoraOK(job[p]) /\ At(p, "lora", "receipt")
    BY DEF FilesInv, JobOK, ReturnReceipt
<1>2. Exact(ReceiptOf(p)) \/ Raced(p)
    BY <1>1, ReceiptIsExact
<1>3. FilesTypes' /\ \A q \in Procs : JobOK(job[q])'
    BY IdleOK, JobMoves DEF FilesInv, ReturnReceipt, Refuse
<1>4. store' = store
    BY DEF ReturnReceipt
<1>5. CASE job[p].claim = None
  <2> DEFINE r == ReceiptOf(p)
             e == Entry("raced", Raced(p))
             m == Merged(r, e)
  <2>1. DOMAIN e = {"raced"} /\ e["raced"] = Raced(p)
      BY EntryIs
  <2>2. DOMAIN r = {"kind", "base", "adapter", "config", "delta"} /\ r.kind = "axis"
      BY DEF ReceiptOf
  <2>3. Exact(r) \/ Raced(p)
      BY <1>2
  <2>4. records' \subseteq records \union {m} /\ admitted' = admitted
      BY <1>5 DEF ReturnReceipt
  <2> HIDE DEF r, e
  <2>5. /\ m.kind = r.kind /\ m.delta = r.delta /\ m.adapter = r.adapter /\ m.config = r.config
        /\ m["raced"] = e["raced"]
      BY <2>1, <2>2 DEF Merged
  <2> HIDE DEF m
  <2>6. RecordOK(m)
    <3>1. CASE Exact(r)
        BY <2>2, <2>5, <3>1 DEF RecordOK, Exact
    <3>2. CASE Raced(p)
      <4>1. m.raced
          BY <2>1, <2>5, <3>2
      <4> QED BY <2>2, <2>5, <4>1 DEF RecordOK
    <3> QED BY <2>3, <3>1, <3>2
  <2>7. WrittenOK'
      BY <1>4, <2>4, <2>6, WrittenMoves DEF FilesInv
  <2> QED BY <1>3, <2>7 DEF FilesInv
<1>6. CASE job[p].claim # None
  <2> DEFINE a == [receipt |-> job[p].claim, raced |-> Raced(p)]
  <2>1. CASE job[p].claim = ReceiptOf(p)
    <3>1. Exact(a.receipt) \/ a.raced
        BY <1>2, <2>1
    <3>2. admitted' \subseteq admitted \union {a} /\ records' = records
        BY <1>6 DEF ReturnReceipt
    <3> HIDE DEF a
    <3>3. WrittenOK'
        BY <1>4, <3>1, <3>2, WrittenMoves DEF FilesInv
    <3> QED BY <1>3, <3>3 DEF FilesInv
  <2>2. CASE job[p].claim # ReceiptOf(p)
    <3>1. UNCHANGED <<store, records, admitted, outputs, confirmed>>
        BY <1>4, <1>6, <2>2 DEF ReturnReceipt
    <3> QED BY <1>3, <3>1, WrittenStays DEF FilesInv
  <2> QED BY <2>1, <2>2
<1> QED BY <1>5, <1>6

\* Calls begin.
LEMMA JobBegins ==
    ASSUME FilesTypes, \A q \in Procs : JobOK(job[q]), UNCHANGED <<disk, rewrites>>,
           NEW p \in Procs, NEW op, NEW at, NEW STATE since, NEW STATE claim,
           Begin(p, op, at, since, claim),
           \/ op = "normalize" /\ at = "index"
           \/ op = "readout" /\ at = "open"
           \/ op = "combine" /\ at = "delta1"
           \/ op = "profile" /\ at = "checkpoint"
           \/ op = "lora" /\ at = "config" /\ since = rewrites["adapter"]
           \/ op = "materialize" /\ at \in {"plan", "place"} /\ claim \in Requests
           \/ /\ op = "authenticate" /\ at = "open"
              /\ \E q \in Requests : claim.output = q.output
    PROVE  FilesTypes' /\ \A q \in Procs : JobOK(job[q])'
<1>1. PICK k :
          /\ job' = [job EXCEPT ![p] = k] /\ IsJob(k)
          /\ k.op = op /\ k.at = at /\ k.pass = <<>> /\ k.seen = <<>> /\ k.values = <<>>
          /\ k.since = since /\ k.claim = claim
    BY BeginGives
<1>2. DOMAIN k.pass = {}
    BY <1>1
<1>3. rewrites["adapter"] \in Nat
    BY FilesAre DEF FilesTypes
<1>4. JobOK(k)
  <2>1. CASE op = "normalize" /\ at = "index"
      BY <1>1, <2>1, OneOperation DEF NormalizeOK
  <2>2. CASE op = "readout" /\ at = "open"
      BY <1>1, <2>2, OneOperation DEF ReadoutOK
  <2>3. CASE op = "combine" /\ at = "delta1"
      BY <1>1, <2>3, OneOperation DEF CombineOK
  <2>4. CASE op = "profile" /\ at = "checkpoint"
      BY <1>1, <2>4, OneOperation DEF ProfileOK
  <2>5. CASE op = "lora" /\ at = "config" /\ since = rewrites["adapter"]
    <3>1. LoraOK(k)
        BY <1>1, <1>3, <2>5 DEF LoraOK, Compared
    <3> QED BY <1>1, <2>5, <3>1, OneOperation
  <2>6. CASE op = "materialize" /\ at \in {"plan", "place"} /\ claim \in Requests
    <3>1. ActuateOK(k)
        BY <1>1, <1>2, <2>6 DEF ActuateOK
    <3> QED BY <1>1, <2>6, <3>1, OneOperation DEF Actuating
  <2>7. CASE /\ op = "authenticate" /\ at = "open"
             /\ \E q \in Requests : claim.output = q.output
    <3>1. ActuateOK(k)
        BY <1>1, <1>2, <2>7 DEF ActuateOK
    <3> QED BY <1>1, <2>7, <3>1, OneOperation DEF Actuating
  <2> QED BY <2>1, <2>2, <2>3, <2>4, <2>5, <2>6, <2>7
<1> QED BY <1>1, <1>4, JobMoves

LEMMA ObjectsPersisted ==
    ASSUME FilesInv, UNCHANGED <<disk, rewrites>>, NEW p \in Procs, PersistObjects(p)
    PROVE  FilesInv'
<1>1. IsJob(job[p]) /\ job[p].op = "materialize" /\ job[p].at = "objects" /\ ActuateOK(job[p])
    BY DEF FilesInv, JobOK, PersistObjects, At
<1>2. PICK j : j = job[p]
    OBVIOUS
<1>3. j.claim \in Requests /\ j.values = <<>>
    BY <1>1, <1>2 DEF ActuateOK, Actuating
<1>4. job' = [job EXCEPT ![p].at = "place"] /\ store' = store \union {[planned |-> job[p].claim]}
    BY DEF PersistObjects
<1>5. j.pass = <<>>
    BY <1>1, <1>2 DEF ActuateOK, Actuating
<1>6. PICK k : job' = [job EXCEPT ![p] = k] /\ Goes(k, j, "place", j.pass, j.seen, j.values)
    BY <1>1, <1>2, <1>4, MovesOn
<1>7. /\ IsJob(k) /\ k.op = j.op /\ k.at = "place" /\ k.pass = j.pass /\ k.values = j.values
      /\ k.claim = j.claim
    BY <1>6 DEF Goes, IsJob
<1>8. DOMAIN k.pass = {}
    BY <1>5, <1>7
<1>9. ActuateOK(k)
    BY <1>1, <1>2, <1>3, <1>7, <1>8 DEF ActuateOK
<1>10. JobOK(k)
    BY <1>1, <1>2, <1>7, <1>9, OneOperation DEF Actuating
<1>11. FilesTypes' /\ \A q \in Procs : JobOK(job[q])'
    BY <1>6, <1>10, JobMoves DEF FilesInv
<1>12. WrittenOK'
  <2>1. \A c \in store' \ store : "combined" \notin DOMAIN c
      BY <1>4
  <2>2. UNCHANGED <<records, admitted, outputs, confirmed>>
      BY DEF PersistObjects
  <2> QED BY <2>1, <2>2, WrittenMoves DEF FilesInv
<1> QED BY <1>11, <1>12 DEF FilesInv

\* A path is found free, or the call ends.
LEMMA OutputChecked ==
    ASSUME FilesTypes, \A q \in Procs : JobOK(job[q]), UNCHANGED <<disk, rewrites>>,
           NEW p \in Procs, CheckOutput(p)
    PROVE  FilesTypes' /\ \A q \in Procs : JobOK(job[q])'
<1>1. CASE job' = [job EXCEPT ![p] = Idle]
    BY <1>1, IdleOK, JobMoves
<1>2. CASE job' = [job EXCEPT ![p].at = "open"]
  <2>1. IsJob(job[p]) /\ job[p].op = "materialize" /\ job[p].at = "place" /\ ActuateOK(job[p])
      BY DEF JobOK, CheckOutput, At
  <2>2. PICK j : j = job[p]
      OBVIOUS
  <2>3. j.claim \in Requests /\ j.values = <<>> /\ j.pass = <<>>
      BY <2>1, <2>2 DEF ActuateOK, Actuating
  <2>4. PICK k : job' = [job EXCEPT ![p] = k] /\ Goes(k, j, "open", j.pass, j.seen, j.values)
      BY <1>2, <2>1, <2>2, MovesOn
  <2>5. /\ IsJob(k) /\ k.op = j.op /\ k.at = "open" /\ k.pass = j.pass /\ k.values = j.values
        /\ k.claim = j.claim
      BY <2>4 DEF Goes, IsJob
  <2>6. DOMAIN k.pass = {}
      BY <2>3, <2>5
  <2>7. ActuateOK(k)
      BY <2>1, <2>2, <2>3, <2>5, <2>6 DEF ActuateOK
  <2>8. JobOK(k)
      BY <2>1, <2>2, <2>5, <2>7, OneOperation DEF Actuating
  <2> QED BY <2>4, <2>8, JobMoves
<1> QED BY <1>1, <1>2 DEF CheckOutput, Refuse

\* What is streamed is the base and the delta, in some order.
LEMMA StreamIsWhole == Range(StreamOrder) = PartsOf("base") \union {"d"}
<1> DEFINE s == Parts["base"]
           i == CHOOSE n \in DOMAIN s : s[n] = Modified
           u == SubSeq(s, 1, i - 1)
           v == SubSeq(s, i + 1, Len(s))
<1>1. s \in Seq(PartsOf("base")) /\ Modified \in PartsOf("base")
    BY FilesAre
<1>2. PartsOf("base") = {s[n] : n \in DOMAIN s}
    BY DEF PartsOf, Range
<1> HIDE DEF s
<1>3. i \in DOMAIN s /\ s[i] = Modified
    BY <1>1, <1>2
<1>4. DOMAIN s = 1 .. Len(s) /\ Len(s) \in Nat
    BY <1>1
<1> HIDE DEF i
<1>5. /\ Len(u) = i - 1 /\ \A n \in 1 .. i - 1 : u[n] = s[n]
      /\ Len(v) = Len(s) - i /\ \A n \in 1 .. Len(s) - i : v[n] = s[i + n]
      /\ u \in Seq(PartsOf("base")) /\ v \in Seq(PartsOf("base"))
    BY <1>1, <1>3, <1>4
<1> HIDE DEF u, v
<1> DEFINE w == u \o v
<1>6. /\ w \in Seq(PartsOf("base")) /\ Len(w) = Len(s) - 1
      /\ \A n \in 1 .. i - 1 : w[n] = s[n]
      /\ \A n \in i .. Len(s) - 1 : w[n] = s[n + 1]
  <2>1. /\ w \in Seq(PartsOf("base")) /\ Len(w) = Len(u) + Len(v)
        /\ \A n \in 1 .. Len(u) : w[n] = u[n]
        /\ \A n \in 1 .. Len(v) : w[Len(u) + n] = v[n]
      BY <1>5
  <2> HIDE DEF w
  <2>2. ASSUME NEW n \in i .. Len(s) - 1 PROVE w[n] = s[n + 1]
    <3>1. n - i + 1 \in 1 .. Len(v) /\ Len(u) + (n - i + 1) = n /\ i + (n - i + 1) = n + 1
        BY <1>3, <1>4, <1>5
    <3>2. w[Len(u) + (n - i + 1)] = v[n - i + 1] /\ v[n - i + 1] = s[i + (n - i + 1)]
        BY <1>5, <2>1, <3>1
    <3> QED BY <3>1, <3>2
  <2>3. Len(w) = Len(s) - 1 /\ \A n \in 1 .. i - 1 : w[n] = s[n]
      BY <1>3, <1>4, <1>5, <2>1
  <2> QED BY <2>1, <2>2, <2>3
<1> HIDE DEF w
<1>7. StreamOrder = <<Modified, "d">> \o w
    BY DEF StreamOrder, RemoveAt, w, u, v, i, s
<1> DEFINE o == <<Modified, "d">> \o w
<1>8. /\ DOMAIN o = 1 .. Len(s) + 1 /\ o[1] = Modified /\ o[2] = "d"
      /\ \A n \in 1 .. Len(s) - 1 : o[n + 2] = w[n]
    BY <1>4, <1>6
<1> HIDE DEF o
<1>9. ASSUME NEW n \in DOMAIN o PROVE o[n] \in PartsOf("base") \union {"d"}
  <2>1. CASE n \in {1, 2}
      BY <2>1, <1>1, <1>8
  <2>2. CASE n > 2
    <3>1. n - 2 \in 1 .. Len(s) - 1 /\ o[n] = w[n - 2]
        BY <1>4, <1>8, <1>9, <2>2
    <3> QED BY <1>6, <3>1
  <2> QED BY <1>4, <1>8, <1>9, <2>1, <2>2
<1>10. ASSUME NEW n \in DOMAIN s PROVE \E m \in DOMAIN o : o[m] = s[n]
  <2>1. CASE n = i
      BY <2>1, <1>3, <1>4, <1>8
  <2>2. CASE n < i
    <3>1. n + 2 \in DOMAIN o /\ o[n + 2] = w[n] /\ w[n] = s[n]
        BY <1>3, <1>4, <1>6, <1>8, <1>10, <2>2
    <3> QED BY <3>1
  <2>3. CASE n > i
    <3>1. n - 1 \in i .. Len(s) - 1 /\ n - 1 \in 1 .. Len(s) - 1 /\ n + 1 \in DOMAIN o
        BY <1>3, <1>4, <1>8, <1>10, <2>3
    <3>2. o[n + 1] = w[n - 1] /\ w[n - 1] = s[n]
      <4>1. o[(n - 1) + 2] = w[n - 1]
          BY <1>8, <3>1
      <4>2. w[n - 1] = s[(n - 1) + 1]
          BY <1>6, <3>1
      <4> QED BY <1>4, <1>10, <4>1, <4>2
    <3> QED BY <3>1, <3>2
  <2> QED BY <1>3, <1>4, <1>10, <2>1, <2>2, <2>3
<1>11. 2 \in DOMAIN o
    BY <1>3, <1>4, <1>8
<1>12. Range(o) = PartsOf("base") \union {"d"}
  <2>1. \A x \in Range(o) : x \in PartsOf("base") \union {"d"}
      BY <1>9 DEF Range
  <2>2. \A x \in PartsOf("base") \union {"d"} : \E m \in DOMAIN o : o[m] = x
      BY <1>2, <1>8, <1>10, <1>11
  <2> QED BY <2>1, <2>2 DEF Range
<1> QED BY <1>7, <1>12 DEF o

LEMMA PartStreamed ==
    ASSUME FilesTypes, \A q \in Procs : JobOK(job[q]), UNCHANGED <<disk, rewrites>>,
           NEW p \in Procs, StreamPart(p)
    PROVE  FilesTypes' /\ \A q \in Procs : JobOK(job[q])'
<1>1. IsJob(job[p]) /\ job[p].op \in Actuating /\ job[p].at = "stream" /\ ActuateOK(job[p])
    BY DEF JobOK, StreamPart, At
<1>2. PICK j : j = job[p]
    OBVIOUS
<1>3. /\ j.op = "materialize" => j.claim \in Requests
      /\ j.op = "authenticate" => \E q \in Requests : j.claim.output = q.output
      /\ "base" \in DOMAIN j.seen
      /\ j.seen["base"] \in [PartsOf("base") -> Versions]
      /\ j.op = "materialize" => j.seen["base"] = j.claim.base
      /\ j.values = [t \in DOMAIN j.values |-> j.values[t]]
      /\ \A t \in DOMAIN j.values : t = "d" \/ j.values[t] = j.seen["base"][t]
    BY <1>1, <1>2 DEF ActuateOK
<1> DEFINE t == StreamOrder[Cardinality(DOMAIN job[p].values) + 1]
           version == disk[FileOf(t)][t]
           e == Entry(t, version)
<1>4. \/ job' = [job EXCEPT ![p].at = "finish"] /\ DOMAIN job[p].values = Range(StreamOrder)
      \/ /\ job' = [job EXCEPT ![p].values = Merged(@, e)]
         /\ t = "d" \/ version = job[p].seen["base"][t]
      \/ job' = [job EXCEPT ![p] = Idle]
    BY DEF StreamPart, Refuse
<1>5. DOMAIN e = {t} /\ e[t] = version
    BY EntryIs
<1> HIDE DEF t, version, e
<1>6. CASE job' = [job EXCEPT ![p] = Idle]
    BY <1>6, IdleOK, JobMoves
<1>7. CASE job' = [job EXCEPT ![p].at = "finish"] /\ DOMAIN job[p].values = Range(StreamOrder)
  <2>1. PICK k : job' = [job EXCEPT ![p] = k] /\ Goes(k, j, "finish", j.pass, j.seen, j.values)
      BY <1>1, <1>2, <1>7, MovesOn
  <2>2. /\ IsJob(k) /\ k.op = j.op /\ k.at = "finish" /\ k.seen = j.seen /\ k.values = j.values
        /\ k.claim = j.claim
      BY <2>1 DEF Goes, IsJob
  <2>3. DOMAIN k.values = PartsOf("base") \union {"d"}
      BY <1>2, <1>7, <2>2, StreamIsWhole
  <2>4. ActuateOK(k)
      BY <1>3, <2>2, <2>3 DEF ActuateOK
  <2>5. JobOK(k)
      BY <1>1, <1>2, <2>2, <2>4, OneOperation
  <2> QED BY <2>1, <2>5, JobMoves
<1>8. CASE /\ job' = [job EXCEPT ![p].values = Merged(@, e)]
           /\ t = "d" \/ version = job[p].seen["base"][t]
  <2> DEFINE m == Merged(j.values, e)
  <2>1. PICK k : job' = [job EXCEPT ![p] = k] /\ Goes(k, j, j.at, j.pass, j.seen, m)
      BY <1>1, <1>2, <1>8, TakesIn
  <2>2. /\ m = [x \in DOMAIN m |-> m[x]]
        /\ \A x \in DOMAIN m : x = "d" \/ m[x] = j.seen["base"][x]
    <3>1. /\ DOMAIN m = DOMAIN j.values \union {t} /\ m = [x \in DOMAIN m |-> m[x]]
          /\ (\A x \in DOMAIN j.values : m[x] = j.values[x])
          /\ t \notin DOMAIN j.values => m[t] = version
        BY <1>5 DEF Merged
    <3> HIDE DEF m
    <3> QED BY <1>2, <1>3, <1>8, <3>1
  <2> HIDE DEF m
  <2>3. /\ IsJob(k) /\ k.op = j.op /\ k.at = j.at /\ k.seen = j.seen /\ k.values = m
        /\ k.claim = j.claim
      BY <2>1 DEF Goes, IsJob
  <2>4. ActuateOK(k)
      BY <1>1, <1>2, <1>3, <2>2, <2>3 DEF ActuateOK
  <2>5. JobOK(k)
      BY <1>1, <1>2, <2>3, <2>4, OneOperation
  <2> QED BY <2>1, <2>5, JobMoves
<1> QED BY <1>4, <1>6, <1>7, <1>8

\* The base as it was digested, and the delta that is referred to.
LEMMA MadeIs ==
    ASSUME NEW base \in [PartsOf("base") -> Versions]
    PROVE  /\ Made(base) = [t \in PartsOf("base") \union {"d"} |-> IF t = "d" THEN 1 ELSE base[t]]
           /\ Made(base) # None
<1> DEFINE e == Entry("d", 1)
           m == Merged(base, e)
<1>1. DOMAIN e = {"d"} /\ e["d"] = 1
    BY EntryIs
<1>2. "d" \notin PartsOf("base") /\ 1 \in Versions /\ None \notin [PartsOf("base") \union {"d"} -> Versions]
    BY FilesAre
<1> HIDE DEF e
<1>3. m = [t \in PartsOf("base") \union {"d"} |-> IF t = "d" THEN 1 ELSE base[t]]
  <2>1. DOMAIN base = PartsOf("base")
      OBVIOUS
  <2>2. m = [t \in PartsOf("base") \union {"d"} |-> IF t \in PartsOf("base") THEN base[t] ELSE e[t]]
      BY <1>1, <2>1 DEF Merged
  <2>3. \A t \in PartsOf("base") \union {"d"} :
            (IF t \in PartsOf("base") THEN base[t] ELSE e[t]) = (IF t = "d" THEN 1 ELSE base[t])
      BY <1>1, <1>2
  <2> HIDE DEF m
  <2> QED BY <2>2, <2>3
<1> HIDE DEF m
<1>4. m \in [PartsOf("base") \union {"d"} -> Versions]
    BY <1>2, <1>3
<1>5. Made(base) = m
    BY DEF Made, m, e
<1> QED BY <1>2, <1>3, <1>4, <1>5

LEMMA StreamFinished ==
    ASSUME FilesTypes, \A q \in Procs : JobOK(job[q]), UNCHANGED <<disk, rewrites>>,
           NEW p \in Procs, FinishStream(p)
    PROVE  FilesTypes' /\ \A q \in Procs : JobOK(job[q])'
<1>1. IsJob(job[p]) /\ job[p].op \in Actuating /\ job[p].at = "finish" /\ ActuateOK(job[p])
    BY DEF JobOK, FinishStream, At
<1>2. PICK j : j = job[p]
    OBVIOUS
<1>3. /\ j.op = "materialize" => j.claim \in Requests
      /\ j.op = "authenticate" => \E q \in Requests : j.claim.output = q.output
      /\ "base" \in DOMAIN j.seen
      /\ j.seen["base"] \in [PartsOf("base") -> Versions]
      /\ j.op = "materialize" => j.seen["base"] = j.claim.base
      /\ j.values = [t \in DOMAIN j.values |-> j.values[t]]
      /\ \A t \in DOMAIN j.values : t = "d" \/ j.values[t] = j.seen["base"][t]
      /\ DOMAIN j.values = PartsOf("base") \union {"d"}
    BY <1>1, <1>2 DEF ActuateOK
<1> DEFINE at == IF job[p].op = "materialize" THEN "link" ELSE "compare"
           delta == Restrict(job[p].values, {"d"})
<1>4. CASE ~Referenced(delta)
    BY <1>4, IdleOK, JobMoves DEF FinishStream, Refuse
<1>5. CASE Referenced(delta)
  <2>1. j.values["d"] = 1
    <3>1. delta = [t \in {"d"} |-> j.values[t]]
        BY <1>2 DEF Restrict
    <3>2. DOMAIN delta = {"d"} /\ delta["d"] = j.values["d"]
        BY <3>1
    <3>3. Range(delta) = {1}
        BY <1>5 DEF Referenced
    <3> HIDE DEF delta
    <3> QED BY <3>2, <3>3 DEF Range
  <2>2. j.values = Made(j.seen["base"])
    <3>1. Made(j.seen["base"]) =
              [t \in PartsOf("base") \union {"d"} |-> IF t = "d" THEN 1 ELSE j.seen["base"][t]]
        BY <1>3, MadeIs
    <3>2. \A t \in PartsOf("base") \union {"d"} :
              j.values[t] = IF t = "d" THEN 1 ELSE j.seen["base"][t]
        BY <1>3, <2>1
    <3> QED BY <1>3, <3>1, <3>2
  <2>3. job' = [job EXCEPT ![p].at = at] /\ at \in {"link", "compare"}
      BY <1>5 DEF FinishStream
  <2> HIDE DEF at
  <2>4. PICK a \in {"link", "compare"} : job' = [job EXCEPT ![p].at = a]
      BY <2>3
  <2>5. PICK k : job' = [job EXCEPT ![p] = k] /\ Goes(k, j, a, j.pass, j.seen, j.values)
      BY <1>1, <1>2, <2>4, MovesOn
  <2>6. /\ IsJob(k) /\ k.op = j.op /\ k.at = a /\ k.seen = j.seen /\ k.values = j.values
        /\ k.claim = j.claim
      BY <2>5 DEF Goes, IsJob
  <2>7. ActuateOK(k)
      BY <1>3, <2>2, <2>4, <2>6 DEF ActuateOK
  <2>8. JobOK(k)
      BY <1>1, <1>2, <2>6, <2>7, OneOperation
  <2> QED BY <2>5, <2>8, JobMoves
<1> QED BY <1>4, <1>5

\* Who links first keeps the path, and what was told of others stays true.
LEMMA OutputLinked ==
    ASSUME FilesInv, UNCHANGED <<disk, rewrites>>, NEW p \in Procs, LinkOutput(p)
    PROVE  FilesInv'
<1>1. IsJob(job[p]) /\ job[p].op = "materialize" /\ job[p].at = "link" /\ ActuateOK(job[p])
    BY DEF FilesInv, JobOK, LinkOutput, At
<1>2. PICK j : j = job[p]
    OBVIOUS
<1>3. /\ j.claim \in Requests /\ "base" \in DOMAIN j.seen
      /\ j.seen["base"] \in [PartsOf("base") -> Versions]
      /\ j.seen["base"] = j.claim.base /\ j.values = Made(j.seen["base"])
    BY <1>1, <1>2 DEF ActuateOK, Actuating
<1>4. UNCHANGED <<store, records, admitted, confirmed>>
    BY DEF LinkOutput
<1>5. CASE outputs[j.claim.output] # None
  <2>1. job' = [job EXCEPT ![p] = Idle] /\ outputs' = outputs
      BY <1>2, <1>5 DEF LinkOutput, Refuse
  <2>2. FilesTypes' /\ \A q \in Procs : JobOK(job[q])'
      BY <2>1, IdleOK, JobMoves DEF FilesInv
  <2>3. WrittenOK'
      BY <1>4, <2>1, WrittenStays DEF FilesInv
  <2> QED BY <2>2, <2>3 DEF FilesInv
<1>6. CASE outputs[j.claim.output] = None
  <2>1. /\ outputs' = [outputs EXCEPT ![j.claim.output] = j.values]
        /\ job' = [job EXCEPT ![p].at = "installed"]
      BY <1>2, <1>6 DEF LinkOutput
  <2>2. PICK k : job' = [job EXCEPT ![p] = k] /\ Goes(k, j, "installed", j.pass, j.seen, j.values)
      BY <1>1, <1>2, <2>1, MovesOn
  <2>3. /\ IsJob(k) /\ k.op = j.op /\ k.at = "installed" /\ k.seen = j.seen /\ k.values = j.values
        /\ k.claim = j.claim
      BY <2>2 DEF Goes, IsJob
  <2>4. JobOK(k)
    <3>1. ActuateOK(k)
        BY <1>1, <1>2, <1>3, <2>3 DEF ActuateOK
    <3> QED BY <1>1, <1>2, <2>3, <3>1, OneOperation DEF Actuating
  <2>5. FilesTypes' /\ \A q \in Procs : JobOK(job[q])'
      BY <2>2, <2>4, JobMoves DEF FilesInv
  <2>6. /\ outputs = [o \in {q.output : q \in Requests} |-> outputs[o]]
        /\ outputs' = [o \in {q.output : q \in Requests} |-> outputs'[o]]
        /\ outputs'[j.claim.output] = j.values
        /\ \A o \in DOMAIN outputs : o # j.claim.output => outputs'[o] = outputs[o]
    <3>1. outputs = [o \in {q.output : q \in Requests} |-> outputs[o]]
        BY DEF FilesInv, WrittenOK
    <3>2. j.claim.output \in {q.output : q \in Requests}
        BY <1>3
    <3> QED BY <2>1, <3>1, <3>2
  <2>7. ASSUME NEW r, TrueReceipt(r) PROVE TrueReceipt(r)'
    <3>1. r.output # j.claim.output
        BY <1>6, <2>7 DEF TrueReceipt
    <3> QED BY <2>6, <2>7, <3>1 DEF TrueReceipt
  <2>8. ASSUME NEW o \in DOMAIN outputs' PROVE InstalledOK(o)'
    <3>1. CASE o = j.claim.output
      <4>1. outputs'[o] = Made(j.claim.base)
          BY <1>3, <2>6, <3>1
      <4> QED BY <1>3, <3>1, <4>1 DEF InstalledOK
    <3>2. CASE o # j.claim.output
      <4>1. InstalledOK(o) /\ outputs'[o] = outputs[o]
          BY <2>6, <2>8, <3>2 DEF FilesInv, WrittenOK
      <4> QED BY <4>1 DEF InstalledOK
    <3> QED BY <3>1, <3>2
  <2>9. \A r \in records' : RecordOK(r)'
    <3>1. ASSUME NEW r \in records PROVE RecordOK(r)'
      <4>1. RecordOK(r)
          BY DEF FilesInv, WrittenOK
      <4>2. r.kind = "output" => TrueReceipt(r)'
          BY <2>7, <4>1 DEF RecordOK
      <4> QED BY <4>1, <4>2 DEF RecordOK, Exact
    <3> QED BY <1>4, <3>1
  <2>10. \A r \in confirmed' : TrueReceipt(r)'
      BY <1>4, <2>7 DEF FilesInv, WrittenOK
  <2>11. /\ \A a \in admitted' : Exact(a.receipt) \/ a.raced
         /\ \A c \in store' : "combined" \in DOMAIN c => Referenced(c.combined)
      BY <1>4 DEF FilesInv, WrittenOK
  <2>12. WrittenOK'
      BY <2>6, <2>8, <2>9, <2>10, <2>11 DEF WrittenOK
  <2> QED BY <2>5, <2>12 DEF FilesInv
<1> QED BY <1>5, <1>6

LEMMA ReceiptTold ==
    ASSUME FilesInv, UNCHANGED <<disk, rewrites>>, NEW p \in Procs, TellReceipt(p)
    PROVE  FilesInv'
<1>1. IsJob(job[p]) /\ job[p].op = "materialize" /\ job[p].at = "installed" /\ ActuateOK(job[p])
    BY DEF FilesInv, JobOK, TellReceipt, At
<1>2. /\ job[p].claim \in Requests /\ job[p].seen["base"] \in [PartsOf("base") -> Versions]
      /\ job[p].values = Made(job[p].seen["base"])
    BY <1>1 DEF ActuateOK, Actuating
<1>3. UNCHANGED <<store, admitted, outputs, confirmed>>
    BY DEF TellReceipt
<1>4. CASE outputs[job[p].claim.output] # job[p].values
  <2>1. FilesTypes' /\ \A q \in Procs : JobOK(job[q])'
      BY <1>4, IdleOK, JobMoves DEF FilesInv, TellReceipt, Refuse
  <2>2. WrittenOK'
      BY <1>3, <1>4, WrittenStays DEF FilesInv, TellReceipt
  <2> QED BY <2>1, <2>2 DEF FilesInv
<1>5. CASE outputs[job[p].claim.output] = job[p].values
  <2> DEFINE r == [kind |-> "output", base |-> job[p].seen["base"], output |-> job[p].claim.output,
                   content |-> job[p].values]
             k == IF ~job[p].claim.planned THEN Idle
                  ELSE [Idle EXCEPT !.op = "authenticate", !.at = "open", !.claim = r]
  <2>1. records' = records \union {r} /\ job' = [job EXCEPT ![p] = k]
      BY <1>5 DEF TellReceipt
  <2>2. /\ r.kind = "output" /\ r.base = job[p].seen["base"] /\ r.output = job[p].claim.output
        /\ r.content = job[p].values
      OBVIOUS
  <2> HIDE DEF r
  <2>3. TrueReceipt(r)
    <3>1. r.output \in DOMAIN outputs
        BY <1>2, <2>2 DEF FilesInv, WrittenOK
    <3> QED BY <1>2, <1>5, <2>2, <3>1, MadeIs DEF TrueReceipt
  <2>4. JobOK(k)
    <3>1. CASE ~job[p].claim.planned
        BY <3>1, IdleOK
    <3>2. CASE job[p].claim.planned
      <4> DEFINE a == [[[Idle EXCEPT !.op = "authenticate"] EXCEPT !.at = "open"] EXCEPT !.claim = r]
      <4>1. k = a
          BY <3>2
      <4>2. a = [op |-> "authenticate", at |-> "open", pass |-> <<>>, seen |-> <<>>, values |-> <<>>,
                 since |-> 0, claim |-> r]
        <5>1. Idle = [op |-> "none", at |-> "none", pass |-> <<>>, seen |-> <<>>, values |-> <<>>,
                     since |-> 0, claim |-> None]
            BY DEF Idle
        <5>2. [[op |-> "none", at |-> "none", pass |-> <<>>, seen |-> <<>>, values |-> <<>>,
                since |-> 0, claim |-> None]
                 EXCEPT !.op = "authenticate"] =
              [op |-> "authenticate", at |-> "none", pass |-> <<>>, seen |-> <<>>, values |-> <<>>,
               since |-> 0, claim |-> None]
            OBVIOUS
        <5>3. [[op |-> "authenticate", at |-> "none", pass |-> <<>>, seen |-> <<>>, values |-> <<>>,
                since |-> 0, claim |-> None]
                 EXCEPT !.at = "open"] =
              [op |-> "authenticate", at |-> "open", pass |-> <<>>, seen |-> <<>>, values |-> <<>>,
               since |-> 0, claim |-> None]
            OBVIOUS
        <5>4. [[op |-> "authenticate", at |-> "open", pass |-> <<>>, seen |-> <<>>, values |-> <<>>,
                since |-> 0, claim |-> None]
                 EXCEPT !.claim = r] =
              [op |-> "authenticate", at |-> "open", pass |-> <<>>, seen |-> <<>>, values |-> <<>>,
               since |-> 0, claim |-> r]
            OBVIOUS
        <5> QED BY <5>1, <5>2, <5>3, <5>4
      <4> HIDE DEF a, k
      <4>3. /\ IsJob(k) /\ k.op = "authenticate" /\ k.at = "open" /\ k.pass = <<>> /\ k.values = <<>>
            /\ k.claim = r
          BY <4>1, <4>2 DEF IsJob
      <4>4. DOMAIN k.pass = {}
          BY <4>3
      <4>5. \E q \in Requests : k.claim.output = q.output
          BY <1>2, <2>2, <4>3
      <4>6. ActuateOK(k)
          BY <4>3, <4>4, <4>5 DEF ActuateOK
      <4> QED BY <4>3, <4>6, OneOperation DEF Actuating
    <3> QED BY <3>1, <3>2
  <2> HIDE DEF k
  <2>5. FilesTypes' /\ \A q \in Procs : JobOK(job[q])'
      BY <2>1, <2>4, JobMoves DEF FilesInv
  <2>6. WrittenOK'
    <3>1. RecordOK(r)
        BY <2>2, <2>3 DEF RecordOK
    <3> QED BY <1>3, <2>1, <3>1, WrittenMoves DEF FilesInv
  <2> QED BY <2>5, <2>6 DEF FilesInv
<1> QED BY <1>4, <1>5

LEMMA ReceiptCompared ==
    ASSUME FilesInv, UNCHANGED <<disk, rewrites>>, NEW p \in Procs, CompareReceipt(p)
    PROVE  FilesInv'
<1>1. job[p].op = "authenticate" /\ job[p].at = "compare" /\ ActuateOK(job[p])
    BY DEF FilesInv, JobOK, CompareReceipt, At
<1>2. PICK q \in Requests : job[p].claim.output = q.output
    BY <1>1 DEF ActuateOK, Actuating
<1>3. /\ job[p].seen["base"] \in [PartsOf("base") -> Versions]
      /\ job[p].values = Made(job[p].seen["base"])
    BY <1>1 DEF ActuateOK, Actuating
<1>4. FilesTypes' /\ \A x \in Procs : JobOK(job[x])'
    BY IdleOK, JobMoves DEF FilesInv, CompareReceipt, Refuse
<1>5. UNCHANGED <<store, records, admitted, outputs>>
    BY DEF CompareReceipt
<1>6. ASSUME NEW r \in confirmed' \ confirmed PROVE TrueReceipt(r)
  <2>1. /\ r = job[p].claim /\ outputs[r.output] = job[p].values
        /\ r.base = job[p].seen["base"] /\ r.content = job[p].values
      BY <1>6 DEF CompareReceipt
  <2>2. r.output \in DOMAIN outputs
      BY <1>2, <2>1 DEF FilesInv, WrittenOK
  <2> QED BY <1>3, <2>1, <2>2, MadeIs DEF TrueReceipt
<1>7. WrittenOK'
    BY <1>5, <1>6, WrittenMoves DEF FilesInv
<1> QED BY <1>4, <1>7 DEF FilesInv

\* Somebody rewrites a file: what is remembered of the adapter counts it.
LEMMA FileRewritten ==
    ASSUME FilesInv, UNCHANGED <<outputs, confirmed>>,
           NEW f \in Sources, NEW t \in PartsOf(f), NEW v \in Versions, Rewrite(f, t, v)
    PROVE  FilesInv'
<1>1. /\ disk' = [disk EXCEPT ![f][t] = v] /\ rewrites' = [rewrites EXCEPT ![f] = @ + 1]
      /\ UNCHANGED <<store, records, admitted, job>>
    BY DEF Rewrite
<1>2. /\ disk = [g \in Sources |-> disk[g]] /\ \A g \in Sources : disk[g] \in [PartsOf(g) -> Versions]
      /\ rewrites \in [Sources -> Nat] /\ "adapter" \in Sources
    BY FilesAre DEF FilesInv, FilesTypes
<1>3. /\ disk' = [g \in Sources |-> disk'[g]] /\ rewrites' \in [Sources -> Nat]
      /\ \A g \in Sources : disk'[g] \in [PartsOf(g) -> Versions]
  <2>1. disk' = [disk EXCEPT ![f] = [disk[f] EXCEPT ![t] = v]]
      BY <1>1
  <2>2. [disk[f] EXCEPT ![t] = v] \in [PartsOf(f) -> Versions]
      BY <1>2
  <2>3. \A g \in Sources : disk'[g] \in [PartsOf(g) -> Versions]
    <3> DEFINE e == [disk[f] EXCEPT ![t] = v]
    <3> HIDE DEF e
    <3> QED BY <1>2, <2>1, <2>2 DEF e
  <2>4. disk' = [g \in Sources |-> disk'[g]]
      BY <1>2, <2>1
  <2>5. rewrites' \in [Sources -> Nat]
      BY <1>1, <1>2
  <2> QED BY <2>3, <2>4, <2>5
<1>4. FilesTypes'
    BY <1>1, <1>3 DEF FilesInv, FilesTypes
<1> DEFINE old == disk["adapter"]
           new == disk'["adapter"]
           few == rewrites["adapter"]
           many == rewrites'["adapter"]
<1>5. /\ few \in Nat /\ many \in Nat /\ many >= few
      /\ \A x \in PartsOf("adapter") : new[x] # old[x] => many = few + 1
  <2>1. CASE f = "adapter"
    <3>1. new = [old EXCEPT ![t] = v] /\ many = few + 1
        BY <1>1, <1>2, <2>1
    <3> QED BY <1>2, <3>1
  <2>2. CASE f # "adapter"
    <3>1. new = old /\ many = few
        BY <1>1, <1>2, <2>2
    <3> QED BY <1>2, <3>1
  <2> QED BY <2>1, <2>2
<1>6. ASSUME NEW j, LoraOK(j) PROVE LoraOK(j)'
  <2>1. CASE j.op # "lora"
      BY <2>1 DEF LoraOK
  <2>2. CASE j.op = "lora"
    <3>1. j.since \in Nat /\ j.since <= few
        BY <1>6, <2>2 DEF LoraOK
    <3> HIDE DEF old, new, few, many
    <3>2. (Since(j, 1) => Since(j, 1)') /\ (Since(j, 2) => Since(j, 2)')
        BY <1>5, <3>1 DEF Since, few, many
    <3>3. ASSUME NEW x, StillThere(j, x) PROVE StillThere(j, x)'
      <4>1. ASSUME NEW y \in PartsOf("adapter"), y \in DOMAIN x, new[y] # x[y] PROVE many >= j.since + 1
        <5>1. CASE old[y] = x[y]
            BY <1>5, <3>1, <4>1, <5>1
        <5>2. CASE old[y] # x[y]
          <6>1. Since(j, 1)
              BY <3>3, <4>1, <5>2 DEF StillThere, old
          <6> QED BY <3>2, <6>1 DEF Since, many
        <5> QED BY <5>1, <5>2
      <4> QED BY <4>1 DEF StillThere, Since, new, many
    <3>4. ASSUME NEW x, Differs(j, x) PROVE Differs(j, x)'
      <4>1. ASSUME NEW y \in PartsOf("adapter"), y \in DOMAIN x, x[y] # j.seen["adapter"][y]
            PROVE  many >= j.since + 1 /\ (new[y] = j.seen["adapter"][y] => many >= j.since + 2)
        <5>1. few >= j.since + 1 /\ (old[y] = j.seen["adapter"][y] => few >= j.since + 2)
            BY <3>4, <4>1 DEF Differs, Since, old, few
        <5> QED BY <1>5, <3>1, <4>1, <5>1
      <4> QED BY <4>1 DEF Differs, Since, new, many
    <3>5. ASSUME NEW x, WrittenBack(j, x) PROVE WrittenBack(j, x)'
        BY <3>2, <3>5 DEF WrittenBack
    <3>6. j.since \in Nat /\ j.since <= many
        BY <1>5, <3>1
    <3>7. \A x, y : Knows(j, x, y) => Knows(j, x, y)'
        BY DEF Knows
    <3>8. LoraOK(j)'
      <4>1. /\ j.at \in {"config", "base", "adapter", "factors", "read"} => j.values = <<>>
            /\ j.at = "adapter" => StillThere(j, j.pass)
            /\ j.at \in {"factors", "read", "check"} \union Compared =>
                   Knows(j, "adapter", "adapter") /\ StillThere(j, j.seen["adapter"])
            /\ j.at = "factors" => Differs(j, j.pass)
            /\ j.at \in {"read", "check"} \union Compared =>
                   Knows(j, "factors", "adapter") /\ Differs(j, j.seen["factors"])
            /\ j.at \in {"check"} \union Compared => j.values = j.seen["factors"]
            /\ j.at = "check" => WrittenBack(j, j.pass)
            /\ j.at \in Compared => j.values = j.seen["adapter"] \/ Since(j, 2)
          BY <1>6, <2>2 DEF LoraOK
      <4>2. j.at = "adapter" => StillThere(j, j.pass)'
          BY <3>3, <4>1
      <4>3. j.at \in {"factors", "read", "check"} \union Compared =>
                Knows(j, "adapter", "adapter")' /\ StillThere(j, j.seen["adapter"])'
          BY <3>3, <3>7, <4>1
      <4>4. j.at = "factors" => Differs(j, j.pass)'
          BY <3>4, <4>1
      <4>5. j.at \in {"read", "check"} \union Compared =>
                Knows(j, "factors", "adapter")' /\ Differs(j, j.seen["factors"])'
          BY <3>4, <3>7, <4>1
      <4>6. j.at = "check" => WrittenBack(j, j.pass)'
          BY <3>5, <4>1
      <4>7. j.at \in Compared => j.values = j.seen["adapter"] \/ Since(j, 2)'
          BY <3>2, <4>1
      <4> QED BY <3>6, <4>1, <4>2, <4>3, <4>4, <4>5, <4>6, <4>7 DEF LoraOK, many
    <3> QED BY <3>8
  <2> QED BY <2>1, <2>2
<1>7. ASSUME NEW q \in Procs PROVE JobOK(job[q])'
  <2>1. PICK j : j = job[q] /\ JobOK(j)
      BY DEF FilesInv
  <2>2. LoraOK(j)'
      BY <1>6, <2>1 DEF JobOK
  <2>3. JobOK(j)'
      BY <2>1, <2>2 DEF JobOK, NormalizeOK, ReadoutOK, CombineOK, ProfileOK, ActuateOK
  <2> QED BY <1>1, <2>1, <2>3
<1>8. WrittenOK'
    BY <1>1, WrittenStays DEF FilesInv
<1> QED BY <1>4, <1>7, <1>8 DEF FilesInv

\* The procedures, step by step.
LEMMA ReadingKeeps ==
    ASSUME FilesInv, FilesTypes' /\ \A q \in Procs : JobOK(job[q])',
           UNCHANGED <<store, records, admitted, outputs, confirmed>>
    PROVE  FilesInv'
BY WrittenStays DEF FilesInv

LEMMA NormalizeKeeps ==
    ASSUME FilesInv, UNCHANGED <<disk, rewrites, outputs, confirmed>>, NEW p \in Procs, Normalize(p)
    PROVE  FilesInv'
<1>1. FilesTypes /\ (\A q \in Procs : JobOK(job[q])) /\ UNCHANGED <<disk, rewrites>>
    BY DEF FilesInv
<1>2. CASE Begin(p, "normalize", "index", 0, None) /\ UNCHANGED <<store, records, admitted>>
    BY <1>1, <1>2, JobBegins, ReadingKeeps
<1>3. CASE ReadIndex(p)
    BY <1>1, <1>3, IndexRead, ReadingKeeps DEF ReadIndex
<1>4. CASE OpenShards(p)
  <2>1. UNCHANGED <<store, records, admitted>>
      BY <1>4 DEF OpenShards
  <2>2. CASE At(p, "normalize", "shard1") /\ OpenFile(p, "shard1", TRUE, "shard2")
      BY <1>1, <2>1, <2>2, Shard1Opened, ReadingKeeps
  <2>3. CASE /\ At(p, "normalize", "shard2")
             /\ OpenFile(p, "shard2", Bijective(p, ReadNext(p, "shard2")), "copy1")
      BY <1>1, <2>1, <2>3, Shard2Opened, ReadingKeeps
  <2> QED BY <1>4, <2>2, <2>3 DEF OpenShards
<1>5. CASE CopyShards(p)
  <2>1. UNCHANGED <<store, records, admitted>>
      BY <1>5 DEF CopyShards
  <2>2. CASE /\ At(p, "normalize", "copy1")
             /\ ReadTensors(p, "shard1", job[p].seen["shard1"], "copy2")
      BY <1>1, <2>1, <2>2, Shard1Copied, ReadingKeeps
  <2>3. CASE /\ At(p, "normalize", "copy2")
             /\ ReadTensors(p, "shard2", job[p].seen["shard2"], "install")
      BY <1>1, <2>1, <2>3, Shard2Copied, ReadingKeeps
  <2> QED BY <1>5, <2>2, <2>3 DEF CopyShards
<1>6. CASE InstallNormalized(p)
    BY <1>6, NormalizedInstalled
<1>7. CASE RecordNormalization(p)
    BY <1>7, NormalizationRecorded
<1> QED BY <1>2, <1>3, <1>4, <1>5, <1>6, <1>7 DEF Normalize

LEMMA ReadoutKeeps ==
    ASSUME FilesInv, UNCHANGED <<disk, rewrites, outputs, confirmed>>, NEW p \in Procs,
           InspectReadout(p)
    PROVE  FilesInv'
<1>1. FilesTypes /\ (\A q \in Procs : JobOK(job[q])) /\ UNCHANGED <<disk, rewrites>>
    BY DEF FilesInv
<1>2. CASE Begin(p, "readout", "open", 0, None) /\ UNCHANGED <<store, records, admitted>>
    BY <1>1, <1>2, JobBegins, ReadingKeeps
<1>3. CASE /\ At(p, "readout", "open") /\ OpenFile(p, "base", TRUE, "read")
           /\ UNCHANGED <<store, records, admitted>>
    BY <1>1, <1>3, ReadoutOpened, ReadingKeeps
<1>4. CASE /\ At(p, "readout", "read") /\ ReadTensors(p, "base", job[p].seen["base"], "answer")
           /\ UNCHANGED <<store, records, admitted>>
    BY <1>1, <1>4, ReadoutRead, ReadingKeeps
<1>5. CASE /\ At(p, "readout", "answer")
           /\ records' = records \union
                  {[kind |-> "readout", model |-> job[p].seen["base"], weights |-> job[p].values]}
           /\ Refuse(p)
           /\ UNCHANGED <<store, admitted>>
    BY <1>5, ReadoutAnswered
<1> QED BY <1>2, <1>3, <1>4, <1>5 DEF InspectReadout

LEMMA CombineKeeps ==
    ASSUME FilesInv, UNCHANGED <<disk, rewrites, outputs, confirmed>>, NEW p \in Procs, Combine(p)
    PROVE  FilesInv'
<1>1. FilesTypes /\ (\A q \in Procs : JobOK(job[q])) /\ UNCHANGED <<disk, rewrites>>
    BY DEF FilesInv
<1>2. CASE Begin(p, "combine", "delta1", 0, None) /\ UNCHANGED <<store, records, admitted>>
    BY <1>1, <1>2, JobBegins, ReadingKeeps
<1>3. CASE OpenDeltas(p)
  <2>1. UNCHANGED <<store, records, admitted>>
      BY <1>3 DEF OpenDeltas
  <2>2. CASE /\ At(p, "combine", "delta1")
             /\ OpenFile(p, "delta1", Referenced(ReadNext(p, "delta1")), "delta2")
      BY <1>1, <2>1, <2>2, Delta1Opened, ReadingKeeps
  <2>3. CASE /\ At(p, "combine", "delta2")
             /\ OpenFile(p, "delta2", Referenced(ReadNext(p, "delta2")), "stream")
      BY <1>1, <2>1, <2>3, Delta2Opened, ReadingKeeps
  <2> QED BY <1>3, <2>2, <2>3 DEF OpenDeltas
<1>4. CASE StreamDeltas(p)
  <2>1. UNCHANGED <<store, records, admitted>>
      BY <1>4 DEF StreamDeltas
  <2> QED BY <1>1, <1>4, <2>1, DeltasStreamed, ReadingKeeps
<1>5. CASE FinishDeltas(p)
  <2>1. UNCHANGED <<store, records, admitted>>
      BY <1>5 DEF FinishDeltas
  <2> QED BY <1>1, <1>5, <2>1, DeltasFinished, ReadingKeeps
<1>6. CASE InstallCombination(p)
    BY <1>6, CombinationInstalled
<1> QED BY <1>2, <1>3, <1>4, <1>5, <1>6 DEF Combine

LEMMA LoraKeeps ==
    ASSUME FilesInv, UNCHANGED <<disk, rewrites, outputs, confirmed>>, NEW p \in Procs,
           ImportLora(p) \/ AuthenticateAxis(p)
    PROVE  FilesInv'
<1>1. FilesTypes /\ (\A q \in Procs : JobOK(job[q])) /\ UNCHANGED <<disk, rewrites>>
    BY DEF FilesInv
<1>2. CASE AuthenticateAxis(p)
  <2>1. PICK r \in Axes : Begin(p, "lora", "config", rewrites["adapter"], WithoutGhost(r))
      BY <1>2 DEF AuthenticateAxis
  <2>2. UNCHANGED <<store, records, admitted>>
      BY <1>2 DEF AuthenticateAxis
  <2> QED BY <1>1, <2>1, <2>2, JobBegins, ReadingKeeps
<1>3. CASE Begin(p, "lora", "config", rewrites["adapter"], None) /\ UNCHANGED <<store, records, admitted>>
    BY <1>1, <1>3, JobBegins, ReadingKeeps
<1>4. CASE /\ \/ ReadConfig(p) \/ InspectInputs(p) \/ OpenFactors(p) \/ ReadFactors(p)
              \/ CheckAdapter(p) \/ CheckInputs(p)
           /\ UNCHANGED <<store, records, admitted>>
  <2>1. CASE ReadConfig(p)
      BY <1>1, <1>4, <2>1, LoraConfigRead, ReadingKeeps DEF ReadConfig
  <2>2. CASE InspectInputs(p)
    <3>1. CASE At(p, "lora", "base") /\ OpenFile(p, "base", TRUE, "adapter")
        BY <1>1, <1>4, <3>1, LoraBaseRead, ReadingKeeps
    <3>2. CASE At(p, "lora", "adapter") /\ OpenFile(p, "adapter", TRUE, "factors")
        BY <1>1, <1>4, <3>2, LoraAdapterRead, ReadingKeeps
    <3> QED BY <2>2, <3>1, <3>2 DEF InspectInputs
  <2>3. CASE OpenFactors(p)
    <3>1. At(p, "lora", "factors")
        BY <2>3 DEF OpenFactors
    <3> QED BY <1>1, <1>4, <2>3, <3>1, LoraFactorsOpened, ReadingKeeps
  <2>4. CASE ReadFactors(p)
      BY <1>1, <1>4, <2>4, LoraFactorsRead, ReadingKeeps DEF ReadFactors
  <2>5. CASE CheckAdapter(p)
      BY <1>1, <1>4, <2>5, LoraAdapterChecked, ReadingKeeps DEF CheckAdapter
  <2>6. CASE CheckInputs(p)
    <3>1. CASE At(p, "lora", "check_base") /\ Rehash(p, "base", "check_adapter")
        BY <1>1, <1>4, <3>1, LoraBaseKept, ReadingKeeps
    <3>2. CASE At(p, "lora", "check_adapter") /\ Rehash(p, "adapter", "check_config")
        BY <1>1, <1>4, <3>2, LoraAdapterKept, ReadingKeeps
    <3>3. CASE At(p, "lora", "check_config") /\ Rehash(p, "config", "receipt")
        BY <1>1, <1>4, <3>3, LoraConfigKept, ReadingKeeps
    <3> QED BY <2>6, <3>1, <3>2, <3>3 DEF CheckInputs
  <2> QED BY <1>4, <2>1, <2>2, <2>3, <2>4, <2>5, <2>6
<1>5. CASE StoreDelta(p)
    BY <1>5, DeltaStored
<1>6. CASE ReturnReceipt(p)
    BY <1>6, ReceiptReturned
<1> QED BY <1>2, <1>3, <1>4, <1>5, <1>6 DEF ImportLora

LEMMA ProfileKeeps ==
    ASSUME FilesInv, UNCHANGED <<disk, rewrites>>, NEW p \in Procs, Profile(p)
    PROVE  FilesInv'
<1>1. FilesTypes /\ (\A q \in Procs : JobOK(job[q])) /\ UNCHANGED <<disk, rewrites>>
    BY DEF FilesInv
<1>2. CASE Begin(p, "profile", "checkpoint", 0, None) /\ Rests
    BY <1>1, <1>2, JobBegins, ReadingKeeps DEF Rests
<1>3. CASE (InspectSources(p) \/ ValidateLive(p)) /\ Rests
  <2>1. UNCHANGED <<store, records, admitted, outputs, confirmed>>
      BY <1>3 DEF Rests
  <2>2. CASE At(p, "profile", "checkpoint") /\ OpenFile(p, "base", TRUE, "config")
      BY <1>1, <2>1, <2>2, CheckpointOpened, ReadingKeeps
  <2>3. CASE At(p, "profile", "config") /\ OpenFile(p, "config", TRUE, "inventory")
      BY <1>1, <2>1, <2>3, ConfigOpened, ReadingKeeps
  <2>4. CASE At(p, "profile", "inventory") /\ Rehash(p, "base", "metadata")
      BY <1>1, <2>1, <2>4, InventoryChecked, ReadingKeeps
  <2>5. CASE /\ At(p, "profile", "metadata")
             /\ ReadTensors(p, "config", job[p].seen["config"], "live")
      BY <1>1, <2>1, <2>5, MetadataRead, ReadingKeeps
  <2>6. CASE At(p, "profile", "live") /\ Rehash(p, "base", "live_config")
      BY <1>1, <2>1, <2>6, LiveChecked, ReadingKeeps
  <2>7. CASE At(p, "profile", "live_config") /\ Rehash(p, "config", "persist")
      BY <1>1, <2>1, <2>7, LiveConfigChecked, ReadingKeeps
  <2> QED BY <1>3, <2>2, <2>3, <2>4, <2>5, <2>6, <2>7 DEF InspectSources, ValidateLive
<1>4. CASE PersistProfile(p)
    BY <1>4, ProfilePersisted
<1> QED BY <1>2, <1>3, <1>4 DEF Profile

LEMMA ActuateKeeps ==
    ASSUME FilesInv, UNCHANGED <<disk, rewrites>>, NEW p \in Procs, Actuate(p)
    PROVE  FilesInv'
<1>1. FilesTypes /\ (\A q \in Procs : JobOK(job[q])) /\ UNCHANGED <<disk, rewrites>>
    BY DEF FilesInv
<1>2. CASE Ask(p)
  <2>1. PICK q \in Requests : Begin(p, "materialize", IF q.planned THEN "plan" ELSE "place", 0, q)
      BY <1>2 DEF Ask
  <2>2. PICK at \in {"plan", "place"} : Begin(p, "materialize", at, 0, q)
      BY <2>1
  <2>3. FilesTypes' /\ \A x \in Procs : JobOK(job[x])'
      BY <1>1, <2>2, JobBegins
  <2> QED BY <1>2, <2>3, ReadingKeeps DEF Ask, Rests
<1>3. CASE PrepareCompiled(p)
    BY <1>1, <1>3, PlanReplayed, ReadingKeeps DEF PrepareCompiled, Rests
<1>4. CASE PersistObjects(p)
    BY <1>1, <1>4, ObjectsPersisted
<1>5. CASE OpenBase(p)
    BY <1>1, <1>5, BaseOpened, ReadingKeeps DEF OpenBase, Rests
<1>6. CASE OpenDelta(p)
    BY <1>1, <1>6, DeltaOpened, ReadingKeeps DEF OpenDelta, Rests
<1>7. CASE StreamPart(p)
  <2>1. UNCHANGED <<store, records, admitted, outputs, confirmed>>
      BY <1>7 DEF StreamPart, Rests
  <2> QED BY <1>1, <1>7, <2>1, PartStreamed, ReadingKeeps
<1>8. CASE FinishStream(p)
  <2>1. UNCHANGED <<store, records, admitted, outputs, confirmed>>
      BY <1>8 DEF FinishStream, Rests
  <2> QED BY <1>1, <1>8, <2>1, StreamFinished, ReadingKeeps
<1>9. CASE LinkOutput(p)
    BY <1>1, <1>9, OutputLinked
<1>10. CASE TellReceipt(p)
    BY <1>1, <1>10, ReceiptTold
<1>11. CASE Present(p)
  <2>1. PICK r \in Claims : Begin(p, "authenticate", "open", 0, r)
      BY <1>11 DEF Present
  <2>2. \E q \in Requests : r.output = q.output
      BY FilesAssumption
  <2>3. FilesTypes' /\ \A x \in Procs : JobOK(job[x])'
      BY <1>1, <2>1, <2>2, JobBegins
  <2> QED BY <1>11, <2>3, ReadingKeeps DEF Present, Rests
<1>12. CASE CompareReceipt(p)
    BY <1>1, <1>12, ReceiptCompared
<1>13. CASE CheckOutput(p)
  <2>1. FilesTypes' /\ \A x \in Procs : JobOK(job[x])'
      BY <1>1, <1>13, OutputChecked
  <2> QED BY <1>13, <2>1, ReadingKeeps DEF CheckOutput, Rests
<1> QED BY <1>2, <1>3, <1>4, <1>5, <1>6, <1>7, <1>8, <1>9, <1>10, <1>11, <1>12, <1>13 DEF Actuate

LEMMA FilesStart ==
    ASSUME ActuationInit PROVE FilesInv
<1>1. FilesTypes
  <2>1. \A f \in Sources : disk[f] = [t \in PartsOf(f) |-> 1]
      BY DEF ActuationInit, ImportInit, Whole
  <2>0. 1 \in Versions
      BY FilesAre
  <2>2. ASSUME NEW f \in Sources PROVE disk[f] \in [PartsOf(f) -> Versions]
      BY <2>0, <2>1
  <2> QED BY <2>2 DEF FilesTypes, ActuationInit, ImportInit
<1>2. \A p \in Procs : JobOK(job[p])
    BY IdleOK DEF ActuationInit, ImportInit
<1>3. WrittenOK
    BY DEF WrittenOK, InstalledOK, ActuationInit, ImportInit
<1> QED BY <1>1, <1>2, <1>3 DEF FilesInv

LEMMA FilesStep ==
    ASSUME FilesInv, [Next]_vars PROVE FilesInv'
<1>1. CASE UNCHANGED checkpoints
  <2>1. UNCHANGED <<disk, rewrites, store, records, admitted, job, outputs, confirmed>>
      BY <1>1 DEF checkpoints
  <2>2. FilesTypes'
      BY <2>1 DEF FilesInv, FilesTypes
  <2>3. ASSUME NEW p \in Procs PROVE JobOK(job[p])'
    <3>1. PICK j : j = job[p] /\ JobOK(j)
        BY DEF FilesInv
    <3>2. JobOK(j)'
        BY <2>1, <3>1 DEF JobOK, NormalizeOK, ReadoutOK, CombineOK, ProfileOK, LoraOK, ActuateOK, Since,
                          StillThere, Differs, WrittenBack
    <3> QED BY <2>1, <3>1, <3>2
  <2> QED BY <2>1, <2>2, <2>3, ReadingKeeps
<1>2. CASE Work
  <2>1. UNCHANGED <<disk, rewrites>>
      BY <1>2 DEF Work
  <2>2. PICK p \in Procs :
            \/ /\ Normalize(p) \/ InspectReadout(p) \/ Combine(p) \/ ImportLora(p) \/ AuthenticateAxis(p)
               /\ UNCHANGED <<outputs, confirmed>>
            \/ Profile(p)
            \/ Actuate(p)
      BY <1>2 DEF Work, Running
  <2>3. CASE UNCHANGED <<outputs, confirmed>>
    <3>1. UNCHANGED <<disk, rewrites, outputs, confirmed>>
        BY <2>1, <2>3
    <3> QED BY <2>1, <2>2, <3>1, NormalizeKeeps, ReadoutKeeps, CombineKeeps, LoraKeeps, ProfileKeeps,
               ActuateKeeps
  <2>4. CASE Profile(p) \/ Actuate(p)
      BY <2>1, <2>4, ProfileKeeps, ActuateKeeps
  <2> QED BY <2>2, <2>3, <2>4
<1>3. CASE Disturb
  <2>1. UNCHANGED <<outputs, confirmed>>
      BY <1>3 DEF Disturb
  <2>2. ASSUME NEW f \in Reads[part], NEW t \in PartsOf(f), NEW v \in Versions, Rewrite(f, t, v)
        PROVE  FilesInv'
    <3>1. f \in {"index", "shard1", "shard2", "base", "adapter", "config", "delta", "delta1", "delta2"}
        BY <1>3, <2>2 DEF Disturb, Reads
    <3>2. f \in Sources
        BY <3>1, FilesAre
    <3> QED BY <2>1, <2>2, <3>2, FileRewritten
  <2>3. ASSUME NEW p \in Procs, Die(p) PROVE FilesInv'
    <3>1. UNCHANGED <<store, records, admitted, outputs, confirmed>>
        BY <2>1, <2>3 DEF Die
    <3>2. FilesTypes' /\ \A q \in Procs : JobOK(job[q])'
        BY <2>3, IdleOK, JobMoves DEF Die, Refuse, FilesInv
    <3> QED BY <3>1, <3>2, ReadingKeeps
  <2> QED BY <1>3, <2>2, <2>3 DEF Disturb, Running
<1>4. Work \/ Disturb \/ UNCHANGED checkpoints
  <2>1. CASE Gather
      BY <2>1 DEF Gather
  <2>2. CASE Approach
      BY <2>2 DEF Approach
  <2>3. CASE Continue
      BY <2>3 DEF Continue
  <2>4. CASE Try
      BY <2>4 DEF Try
  <2>5. CASE Isolate
      BY <2>5 DEF Isolate
  <2>6. CASE UNCHANGED vars
      BY <2>6 DEF vars
  <2> QED BY <2>1, <2>2, <2>3, <2>4, <2>5, <2>6 DEF Next
<1> QED BY <1>1, <1>2, <1>3, <1>4

LEMMA FilesTell ==
    ASSUME FilesInv PROVE ImportsSound /\ OutputsSound
<1>1. \A r \in records : RecordOK(r)
    BY DEF FilesInv, WrittenOK
<1>2. MadeOfWhatIsNamed
    BY <1>1 DEF FilesInv, WrittenOK, RecordOK, MadeOfWhatIsNamed
<1>3. AxesAreExact
    BY <1>1 DEF FilesInv, WrittenOK, RecordOK, AxesAreExact, Axes
<1>4. ProfilesAgree
    BY <1>1 DEF RecordOK, ProfilesAgree
<1>5. OutputsAreExact
    BY DEF FilesInv, WrittenOK, InstalledOK, OutputsAreExact
<1>6. ReceiptsAreTrue
    BY <1>1 DEF FilesInv, WrittenOK, RecordOK, TrueReceipt, ReceiptsAreTrue
<1> QED BY <1>2, <1>3, <1>4, <1>5, <1>6 DEF ImportsSound, OutputsSound

-----------------------------------------------------------------------------
(* The behaviours. *)

LEMMA TrialsMove ==
    ASSUME [Next]_vars
    PROVE  /\ Sandbox!IsolatedNext \/ UNCHANGED sandbox
           /\ Challenge!ChallengeNext \/ UNCHANGED challenges
<1>1. CASE Gather
    BY <1>1 DEF Gather, trials
<1>2. CASE Approach
    BY <1>2 DEF Approach, trials
<1>3. CASE Continue
    BY <1>3 DEF Continue, trials
<1>4. CASE Work
    BY <1>4 DEF Work, trials
<1>5. CASE Disturb
    BY <1>5 DEF Disturb, trials
<1>6. CASE Try
    BY <1>6 DEF Try
<1>7. CASE Isolate
    BY <1>7 DEF Isolate
<1>8. CASE UNCHANGED vars
    BY <1>8 DEF vars, trials
<1> QED BY <1>1, <1>2, <1>3, <1>4, <1>5, <1>6, <1>7, <1>8 DEF Next

\* run_isolated: whatever a program prints and however it ends, the report tells
\* its termination, every byte that it printed and no cut, or that it was stopped
\* for too much output or for being late, which it then was; nothing is left
\* running behind a report, for every budget and every buffer.
THEOREM ReportsAreTrue == Spec => []IsolationSound
<1>1. Init => IsolatedInv
    BY IsolatedStarts DEF Init
<1>2. IsolatedInv /\ [Next]_vars => IsolatedInv'
    BY TrialsMove, IsolatedSteps
<1>3. IsolatedInv => IsolationSound
    BY IsolatedTells
<1> QED BY <1>1, <1>2, <1>3, PTL DEF Spec

\* The terminal challenge: a candidate is claimed for a commitment before its
\* cases are revealed, one commitment has one candidate and one verdict, and a
\* candidate that passed answers every committed case, by an admitted program
\* when it ran isolated, whatever the callers do at the same time and wherever
\* they die.
THEOREM VerdictsAreFair == Spec => []ChallengeSound
<1>1. Init => ChallengeInv
    BY ChallengeStarts DEF Init
<1>2. ChallengeInv /\ [Next]_vars => ChallengeInv'
    BY TrialsMove, ChallengeSteps
<1>3. ChallengeInv => ChallengeSound
    BY ChallengeTells
<1> QED BY <1>1, <1>2, <1>3, PTL DEF Spec

\* normalize_sharded_safetensors, inspect_linear_readout, combine_content_addressed_dvec,
\* import_peft_lora_as_dense_axis and profile_receiver_model: what a record says of
\* a file is true of what was made of it, whatever is rewritten while it is read
\* and whoever dies; and an axis is the delta of the adapter that it names unless
\* the adapter was rewritten twice meanwhile.
THEOREM RecordsAreTrue == Spec => []ImportsSound
<1>1. Init => FilesInv
    BY FilesStart DEF Init
<1>2. FilesInv /\ [Next]_vars => FilesInv'
    BY FilesStep
<1>3. FilesInv => ImportsSound
    BY FilesTell
<1> QED BY <1>1, <1>2, <1>3, PTL DEF Spec

\* materialize_dense_delta_checkpoint: what is installed is exactly the base that
\* was asked for with the delta that it refers to, the first to link a path keeps
\* it, and no receipt is told or confirmed that is not true, for any files,
\* requests and processes.
THEOREM OutputsAreAsAsked == Spec => []OutputsSound
<1>1. Init => FilesInv
    BY FilesStart DEF Init
<1>2. FilesInv /\ [Next]_vars => FilesInv'
    BY FilesStep
<1>3. FilesInv => OutputsSound
    BY FilesTell
<1> QED BY <1>1, <1>2, <1>3, PTL DEF Spec

-----------------------------------------------------------------------------
(* A trajectory that grows. *)

Observations == {Contracted!Observation(i, e) : i \in Nat, e \in Contractual}

\* A trajectory of the part contract begins with one report, and has only such reports.
PathInv == part = "contract" => path \in Seq(Observations) /\ path # <<>>

\* What is proven at a point of t: the baseline, and then the checkpoints.
Proven(t) ==
    \/ \E m \in TwoMetrics : Contracted!Violates(m, Head(t).estimates[m].base, 1)
    \/ \E m \in TwoMetrics, i \in DOMAIN t : Contracted!Violates(m, t[i].estimates[m].cand, 1)

LEMMA HardIsProven ==
    ASSUME NEW S, NEW t \in Seq(S), t # <<>>
    PROVE  Contracted!HardReasons(t) # {} <=> Proven(t)
<1> DEFINE first == [m \in TwoMetrics |-> Head(t).estimates[m].base]
           rest == [i \in DOMAIN t |-> Contracted!AbsoluteOf(t[i])]
           R == {first} \union {Contracted!AbsoluteOf(t[i]) : i \in DOMAIN t}
           a == Contracted!Absolute(t)
<1>1. <<first>> \in Seq(R) /\ rest \in Seq(R) /\ Len(<<first>>) = 1 /\ Len(rest) = Len(t)
  <2>1. Len(t) \in Nat /\ DOMAIN t = 1 .. Len(t)
      OBVIOUS
  <2>2. rest \in [1 .. Len(t) -> R]
      BY <2>1
  <2> HIDE DEF rest, R
  <2>3. rest \in Seq(R) /\ Len(rest) = Len(t)
      BY <2>1, <2>2
  <2>4. first \in R
      BY DEF R
  <2> HIDE DEF first
  <2> QED BY <2>3, <2>4
<1>2. a = <<first>> \o rest
    BY DEF Contracted!Absolute
<1> HIDE DEF R
<1>3. /\ DOMAIN a = 1 .. Len(t) + 1 /\ a[1] = first
      /\ \A i \in DOMAIN t : i + 1 \in DOMAIN a /\ a[i + 1] = rest[i]
  <2> HIDE DEF first, rest, a
  <2> QED BY <1>1, <1>2
<1>4. /\ \A m \in TwoMetrics : a[1][m] = Head(t).estimates[m].base
      /\ \A m \in TwoMetrics, i \in DOMAIN t : a[i + 1][m] = t[i].estimates[m].cand
  <2>1. \A m \in TwoMetrics : first[m] = Head(t).estimates[m].base
      OBVIOUS
  <2>2. \A m \in TwoMetrics, i \in DOMAIN t : rest[i][m] = t[i].estimates[m].cand
      BY DEF Contracted!AbsoluteOf
  <2> HIDE DEF first, rest, a
  <2> QED BY <1>3, <2>1, <2>2
<1>5. \A y \in DOMAIN a : y = 1 \/ \E i \in DOMAIN t : y = i + 1
  <2> HIDE DEF a
  <2>1. \A y \in DOMAIN a : y # 1 => y - 1 \in 1 .. Len(t) /\ y = (y - 1) + 1
      BY <1>3
  <2> QED BY <2>1
<1> DEFINE bad == {y \in TwoMetrics \X DOMAIN a : Contracted!Violates(y[1], a[y[2]][y[1]], 1)}
<1>6. Contracted!HardReasons(t) # {} <=> bad # {}
    BY DEF Contracted!HardReasons
<1> HIDE DEF a
<1>7. bad # {} <=> \E m \in TwoMetrics, y \in DOMAIN a : Contracted!Violates(m, a[y][m], 1)
  <2>1. ASSUME bad # {} PROVE \E m \in TwoMetrics, y \in DOMAIN a : Contracted!Violates(m, a[y][m], 1)
    <3>1. PICK z \in TwoMetrics \X DOMAIN a : Contracted!Violates(z[1], a[z[2]][z[1]], 1)
        BY <2>1
    <3> QED BY <3>1
  <2>2. ASSUME NEW m \in TwoMetrics, NEW y \in DOMAIN a, Contracted!Violates(m, a[y][m], 1)
        PROVE  bad # {}
    <3>1. <<m, y>> \in bad
        BY <2>2
    <3> QED BY <3>1
  <2> QED BY <2>1, <2>2
<1> HIDE DEF bad
<1> QED BY <1>3, <1>4, <1>5, <1>6, <1>7 DEF Proven

\* evaluate_petfc: what is proven is never compatible.
LEMMA ProvenIsIncompatible ==
    ASSUME NEW t, Contracted!HardReasons(t) # {}
    PROVE  Contracted!Disposition(t) # "compatible"
<1> DEFINE hard == Contracted!HardReasons(t)
           first == Head(t).baseline
<1>1. CASE \E x \in hard : x[3] = first
    BY <1>1 DEF Contracted!Disposition
<1>2. CASE ~\E x \in hard : x[3] = first
  <2>1. hard # {} /\ \A x \in hard : x[3] # first
      BY <1>2
  <2>2. Contracted!Disposition(t) = "rollback"
      BY <1>2, <2>1 DEF Contracted!Disposition
  <2> QED BY <2>2
<1> QED BY <1>1, <1>2

LEMMA PathGrows ==
    ASSUME PathInv, [Next]_vars
    PROVE  /\ PathInv'
           /\ part = "contract" /\ Contracted!HardReasons(path) # {} =>
                  Contracted!Disposition(path') # "compatible"
<1>1. CASE UNCHANGED <<part, path>>
    BY <1>1, ProvenIsIncompatible DEF PathInv
<1>2. CASE Continue
  <2>1. PICK e \in Contractual :
            /\ part = "contract" /\ part' = part
            /\ path' = Append(path, Contracted!Observation(Len(path) + 1, e))
      BY <1>2 DEF Continue, Contracted!Extend
  <2> DEFINE r == Contracted!Observation(Len(path) + 1, e)
  <2>2. path \in Seq(Observations) /\ path # <<>> /\ r \in Observations
      BY <2>1 DEF PathInv, Observations
  <2> HIDE DEF r
  <2>3. /\ path' \in Seq(Observations) /\ path' # <<>> /\ Head(path') = Head(path)
        /\ \A i \in DOMAIN path : i \in DOMAIN path' /\ path'[i] = path[i]
      BY <2>1, <2>2 DEF r
  <2>4. Proven(path) => Proven(path')
      BY <2>3 DEF Proven
  <2>5. Contracted!HardReasons(path) # {} => Contracted!HardReasons(path') # {}
      BY <2>2, <2>3, <2>4, HardIsProven
  <2> QED BY <2>1, <2>3, <2>5, ProvenIsIncompatible DEF PathInv
<1>3. CASE Approach
    BY <1>3 DEF Approach, PathInv
<1> QED BY <1>1, <1>2, <1>3 DEF Next, vars, Gather, Work, Disturb, Try, Isolate

\* append_report and evaluate_petfc: whatever reports follow, a trajectory on
\* which a checkpoint was proven to break a hard invariant is never found
\* compatible again.
THEOREM ViolationsAreKept == Spec => ViolationSticks
<1>1. Init => PathInv
  <2> SUFFICES ASSUME Init, part = "contract" PROVE path \in Seq(Observations) /\ path # <<>>
      BY DEF PathInv
  <2>1. PICK e \in Contractual : path = <<Contracted!Observation(1, e)>>
      BY DEF Init, Contracted!Init, Contracted!Start
  <2>2. Contracted!Observation(1, e) \in Observations
      BY DEF Observations
  <2> QED BY <2>1, <2>2
<1>2. PathInv /\ [Next]_vars => PathInv'
    BY PathGrows
<1>3. PathInv /\ [Next]_vars =>
          [part = "contract" /\ Contracted!HardReasons(path) # {} =>
               Contracted!Disposition(path') # "compatible"]_vars
    BY PathGrows
<1> QED BY <1>1, <1>2, <1>3, PTL DEF Spec, ViolationSticks

=============================================================================
