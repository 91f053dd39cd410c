------------------------------ MODULE MCEngine ------------------------------
(***************************************************************************)
(* Each bundle verifies the corpus of its number, so that the bundle of     *)
(* another corpus revokes the live one.                                     *)
(***************************************************************************)
EXTENDS Engine

CONSTANTS c0, c1, i0, i1, b0, b1

MCAttests == [b \in Bundles |-> IF b = b0 THEN c0 ELSE c1]

\* Any corpus, with any evidence or none.
MCProvided == [corpus : Corpora, evidence : Bundles \union {None}]

\* Back and forth between two corpora.
MCNewCorpus == [i \in Inputs |-> IF i = i0 THEN c0 ELSE c1]
=============================================================================
