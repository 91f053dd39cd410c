---------------------------- MODULE MCAdapterBank ----------------------------
(***************************************************************************)
(* Small catalogues of manifests.  A capability is a letter: the imported   *)
(* adapters "a1" and "b1" both serve capability "p", so that one takes the  *)
(* place of the other.                                                      *)
(***************************************************************************)
EXTENDS AdapterBank, TLC

CONSTANTS a1, b1, c1, d1

Imported(id, generation, capability, lineage, delta) ==
    [id |-> id, generation |-> generation, model |-> "r",
     capability |-> capability, lineage |-> lineage, delta |-> delta,
     terms |-> {}]

Composed(id, terms) == [Imported(id, 1, "q", id, id) EXCEPT !.terms = terms]

A == a1 :> Imported("a", 1, "p", "a", 1)
B == b1 :> Imported("b", 1, "p", "b", 2)

\* "c" is made of both, "d" of "c" and of one of them.
ComposedTable ==
    A @@ B @@ c1 :> Composed("c", {a1, b1}) @@ d1 :> Composed("d", {b1, c1})

\* The value of Content: TLC evaluates the table behind a constant once.
Catalogue == ComposedTable

-----------------------------------------------------------------------------
(* What a run explores: the bank, the index being published and the draft    *)
(* hold some of the manifests, and the counters stay below their bounds.     *)

Seen ==
    Current.entries
        \union (IF staged = None THEN {} ELSE staged.entries)
        \union (IF draft = None THEN {} ELSE {draft.manifest})

\* lag: how far the cache may be behind the journal.
Explores(manifests, revisions, most, resolutions, lag) ==
    /\ Seen \subseteq manifests
    /\ \A p \in permits : p.manifest \in manifests
    /\ Tip <= revisions
    /\ Cardinality(permits) <= most
    /\ calls <= resolutions
    /\ Tip <= head + lag

Regions ==
    \/ Explores({a1, b1, c1, d1}, 6, 1, 0, 1) \* closure
    \/ Explores({a1, b1}, 4, 1, 1, 4)         \* readers of any cache
    \/ Explores({a1, b1, c1}, 5, 1, 1, 1)     \* readers of a composition
    \/ Explores({a1, b1}, 5, 3, 0, 2)         \* selection
=============================================================================
