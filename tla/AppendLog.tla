------------------------------ MODULE AppendLog ------------------------------
(***************************************************************************)
(* What the event ledger promises: a log of events that only grows at its     *)
(* end.  A power failure may take the last events away, but none that its      *)
(* caller was told about.                                                      *)
(***************************************************************************)
EXTENDS Sequences, SequencesExt

CONSTANT Events

VARIABLES log, acknowledged

Init == log = <<>> /\ acknowledged = {}

Append1(e) == log' = Append(log, e) /\ UNCHANGED acknowledged

Acknowledge ==
    /\ acknowledged' \in {acknowledged \union {e} : e \in ToSet(log)}
    /\ UNCHANGED log

Lose ==
    /\ IsStrictPrefix(log', log)
    /\ acknowledged \subseteq ToSet(log')
    /\ UNCHANGED acknowledged

Next == (\E e \in Events : Append1(e)) \/ Acknowledge \/ Lose

Spec == Init /\ [][Next]_<<log, acknowledged>>
=============================================================================
