-------------------------- MODULE AdapterManifests --------------------------
(***************************************************************************)
(* The manifests of receiver adapters.  A manifest is an immutable file     *)
(* named by the digest of its bytes: a member of Manifests is the digest,   *)
(* Content what the file says.                                              *)
(***************************************************************************)
CONSTANTS
    Manifests,   \* manifests that callers may register
    Content      \* [Manifests -> id, generation, model, capability, lineage,
                 \*  delta and terms: the manifests it is composed of]

\* A manifest is composed of manifests that were written before it.
ASSUME ManifestAssumption ==
    \A m \in Manifests : Content[m].terms \subseteq Manifests

Version(m) == <<Content[m].id, Content[m].generation>>
Slot(m) == <<Content[m].model, Content[m].capability>>
Slots == {Slot(m) : m \in Manifests}
Lineage(m) == <<Content[m].lineage, Content[m].generation>>
Delta(m) == Content[m].delta
Terms(m) == Content[m].terms

\* What a manifest rests on: itself, its terms, their terms, and so on.
Footing(m) ==
    {n \in Manifests :
        \A C \in SUBSET Manifests :
            (m \in C /\ \A k \in C : Terms(k) \subseteq C) => n \in C}
=============================================================================
