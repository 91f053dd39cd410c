-------------------------- MODULE AdapterAuthority --------------------------
(***************************************************************************)
(* What an adapter bank promises, without its journal, its cache, its lock  *)
(* and its readers: which adapters may be executed.                         *)
(*                                                                         *)
(*   - a composition is admitted on sources that are registered and sound;  *)
(*   - an adapter is put in use only under an authorization given since the *)
(*     last change of the bank, and takes the place of its slot's adapter;  *)
(*   - a revocation takes with it everything that rests on the adapter, and *)
(*     nothing else, and is never undone.                                   *)
(***************************************************************************)
EXTENDS AdapterManifests

VARIABLES
    registered,   \* manifests of the bank
    revoked,      \* those revoked
    active,       \* those in use, one for a receiver model and capability
    fresh         \* those authorised since the last change

vars == <<registered, revoked, active, fresh>>

Sound == registered \ revoked

Init ==
    /\ registered = {}
    /\ revoked = {}
    /\ active = {}
    /\ fresh = {}

Register(m) ==
    /\ m \notin registered
    /\ Terms(m) \subseteq Sound
    /\ registered' = registered \union {m}
    /\ fresh' = {}
    /\ UNCHANGED <<revoked, active>>

Authorize(m) ==
    /\ m \in Sound
    /\ fresh' = fresh \union {m}
    /\ UNCHANGED <<registered, revoked, active>>

Activate(m) ==
    /\ m \in Sound \intersect fresh
    /\ active' = {n \in active : Slot(n) # Slot(m)} \union {m}
    /\ fresh' = {}
    /\ UNCHANGED <<registered, revoked>>

Withdraw(m) ==
    /\ m \in active
    /\ active' = active \ {m}
    /\ fresh' = {}
    /\ UNCHANGED <<registered, revoked>>

\* m, and all that rests on it.
Revoke(m) ==
    /\ m \in Sound
    /\ UNCHANGED registered
    /\ fresh' = {}
    /\ revoked' = revoked \union {n \in registered : m \in Footing(n)}
    /\ active' = active \ revoked'

Next ==
    \E m \in Manifests :
        Register(m) \/ Authorize(m) \/ Activate(m) \/ Withdraw(m) \/ Revoke(m)

Spec == Init /\ [][Next]_vars
=============================================================================
