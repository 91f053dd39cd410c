-------------------------- MODULE ResidencyDecision --------------------------
(***************************************************************************)
(* Where a capability is to reside (residency_decision.rs).  A precommit     *)
(* names one state of an inquiry, the bundle and the target before anything   *)
(* is decided.  A decision follows from the facts that state has established, *)
(* and is only made, stored or believed while that state is the head.         *)
(*                                                                         *)
(* Digests determine contents: a precommit, a decision record and a state of  *)
(* knowledge stand for their digests.  The inquiry itself moves on outside.   *)
(***************************************************************************)
EXTENDS Integers, Sequences, FiniteSets

CONSTANTS
    None, Unknown,
    Contracts,     \* claims of an inquiry: fact -> [domain, value], or None
    Required,      \* the facts an inquiry is obliged to establish
    Receipts,      \* sets of facts one receipt of the inquiry decides
    Bundles,       \* bundle -> the reasons for which it blocks
    Targets, Rounds,
    MaxDecisions   \* bound: records made

\* A fact is named by the domain of its evidence and by what it is about.
Dimensions ==
    {"semantics"} \X {"requirements", "effects", "external_state", "observability"}
Candidates == <<"weights", "hybrid", "software">>
Classes == {"weights", "hybrid", "software"}
Kinds == {"representability", "target"}
Facts == Dimensions \union (Kinds \X Classes)

Rank(c) == CHOOSE i \in DOMAIN Candidates : Candidates[i] = c

\* A receipt decides a claim that there is, and a claim of compatibility says
\* of which target.
ResidencyAssumption ==
    /\ None \notin {1, 2, 3} /\ None \notin BOOLEAN /\ None # Unknown
    /\ IsFiniteSet(Receipts)
    /\ \A c \in Contracts :
           /\ \A decided \in Receipts : \E f \in decided : f \in Facts /\ c[f] # None
           /\ \A x \in Classes : c[<<"target", x>>] # None =>
                  c[<<"target", x>>].value \in [target : Targets, compatible : BOOLEAN]

VARIABLES
    contract,
    head,        \* the canonical state: [revision, claims, exhausted]
    made,        \* records that were computed
    kept,        \* files: the records that were stored
    facts        \* a matrix of facts that evidence goes on filling

deciding == <<contract, head, made, kept>>

-----------------------------------------------------------------------------
(* From the state of the inquiry to the matrix of facts. *)

\* candidate_claim, established_claim: why a claim is not a fact.
Gap(state, f) ==
    CASE contract[f] = None -> "missing"
      [] contract[f] # None /\ contract[f].domain # f[1] -> "domain mismatch"
      [] OTHER -> state.claims[f]     \* "unresolved", "contradicted", "established"

\* The values that a dimension can have: ranks, and unknown.
DimensionValue(v) == IF v \in {1, 2, 3, Unknown} THEN v ELSE None

BoolValue(v) == IF v \in BOOLEAN THEN v ELSE None

\* Mutant of TargetValue: the target that the value is about is not looked at.
AnyTargetValue(v, target) == v.compatible

\* A claim of compatibility is about one target.
TargetValue(v, target) == IF v.target = target THEN v.compatible ELSE None

\* A value, or None where there is none (ResidencyFactCollector).
FactOf(state, f, target) ==
    IF Gap(state, f) # "established" THEN None
    ELSE LET v == contract[f].value
         IN  CASE f \in Dimensions -> DimensionValue(v)
               [] f \notin Dimensions /\ f[1] = "target" -> TargetValue(v, target)
               [] OTHER -> BoolValue(v)

\* extract_fact_matrix
Matrix(state, target) == [f \in Facts |-> FactOf(state, f, target)]

MissingDimensions(m) == {d \in Dimensions : m[d] = None}

-----------------------------------------------------------------------------
(* From the matrix to the decision (evaluate_fact_matrix). *)

UnknownDimensions(m) == {d \in Dimensions : m[d] = Unknown}

Floor(m) ==
    CHOOSE r \in 1 .. 3 : /\ \A d \in Dimensions : m[d] <= r
                          /\ \E d \in Dimensions : m[d] = r

EvidenceOn(m, c) == {m[<<k, c>>] : k \in Kinds}
Conclusive(m, c) == Rank(c) < Floor(m) \/ FALSE \in EvidenceOn(m, c)
Incomplete(m, c) == None \in EvidenceOn(m, c) /\ ~Conclusive(m, c)
Eligible(m, c) == ~Conclusive(m, c) /\ ~Incomplete(m, c)

Evaluate(m) ==
    IF UnknownDimensions(m) # {} THEN <<"unknown", UnknownDimensions(m)>>
    ELSE LET eligible == {c \in Classes : Eligible(m, c)}
             incomplete == {c \in Classes : Incomplete(m, c)}
         IN  CASE eligible # {} ->
                    <<CHOOSE c \in eligible : \A d \in eligible : Rank(c) <= Rank(d), {}>>
               [] eligible = {} /\ incomplete # {} -> <<"unknown", incomplete>>
               [] OTHER -> <<"blocked", {"no eligible candidate"}>>

\* The plan of the inquiry: a contradiction blocks it, and it is complete with
\* what it is obliged to establish (KnowledgeEngine::plan).
Plan(state) ==
    CASE "contradicted" \in {state.claims[f] : f \in Facts} -> "blocked"
      [] "contradicted" \notin {state.claims[f] : f \in Facts}
            /\ \A f \in Required : contract[f] # None => state.claims[f] = "established"
                -> "complete"
      [] OTHER -> IF state.exhausted THEN "bounded unknown" ELSE "invoke"

\* derive_decision
Derive(bundle, state, target) ==
    LET m == Matrix(state, target)
    IN  CASE Bundles[bundle] # {} -> <<"blocked", Bundles[bundle]>>
          [] Bundles[bundle] = {} /\ Plan(state) # "complete" ->
                IF Plan(state) = "bounded unknown" THEN <<"unknown", {"knowledge"}>>
                ELSE <<"blocked", {Plan(state)}>>
          [] OTHER -> IF MissingDimensions(m) # {}
                      THEN <<"blocked", MissingDimensions(m)>> ELSE Evaluate(m)

-----------------------------------------------------------------------------
(* The authority. *)

\* Any earlier state may be named, and none but the head is decided on.
Precommits == [round : Rounds, target : Targets, bundle : DOMAIN Bundles, state : {head}]

\* ensure_current_state
IsCurrent(state) == state = head

\* decide: what the precommit is bound to, while it is the head.
Decided(p) == [precommit |-> p, decision |-> Derive(p.bundle, p.state, p.target)]

Decide(p) ==
    /\ p \in Precommits
    /\ Cardinality(made) < MaxDecisions
    /\ IsCurrent(p.state)
    /\ made' = made \union {Decided(p)}
    /\ UNCHANGED <<contract, head, kept, facts>>

\* The decision is made again, and must be the one to store.
PersistDecision(d) ==
    /\ d \in made
    /\ IsCurrent(d.precommit.state) /\ d = Decided(d.precommit)
    /\ kept' = kept \union {d}
    /\ UNCHANGED <<contract, head, made, facts>>

\* authenticate_decision, for the round the reader expects.
Authentic(d, round) ==
    /\ d.precommit.round = round
    /\ IsCurrent(d.precommit.state) /\ d = Decided(d.precommit)

\* A receipt is recorded for some of the open claims, or the budget ends.
Learn(decided, outcome) ==
    /\ Plan(head) = "invoke"
    /\ \A f \in decided : head.claims[f] = "unresolved"
    /\ head' = [revision |-> head.revision + 1, exhausted |-> head.exhausted,
                claims |-> [f \in Facts |-> IF f \in decided /\ contract[f] # None
                                           THEN outcome ELSE head.claims[f]]]
    /\ UNCHANGED <<contract, made, kept, facts>>

Exhaust ==
    /\ Plan(head) = "invoke"
    /\ head' = [revision |-> head.revision + 1, exhausted |-> TRUE, claims |-> head.claims]
    /\ UNCHANGED <<contract, made, kept, facts>>

\* Evidence on a candidate comes in that there was none of.
Fill(f, value) ==
    /\ facts[f] = None
    /\ facts' = [facts EXCEPT ![f] = value]
    /\ UNCHANGED deciding

-----------------------------------------------------------------------------

Unresolved == [f \in Facts |-> "unresolved"]

ResidencyInit ==
    /\ contract \in Contracts
    /\ head = [revision |-> 0, claims |-> Unresolved, exhausted |-> FALSE]
    /\ made = {} /\ kept = {}

ResidencyNext ==
    \/ \E p \in Precommits : Decide(p)
    \/ \E d \in made : PersistDecision(d)
    \/ \E decided \in Receipts, outcome \in {"established", "contradicted"} :
           Learn(decided, outcome)
    \/ Exhaust

\* Dimensions of every rank, and a matrix without evidence on the candidates.
MatrixInit ==
    facts \in {[f \in Facts |-> CASE f[2] = "effects" -> x
                                  [] f[2] = "observability" -> y
                                  [] f[2] \in {"requirements", "external_state"} -> 1
                                  [] OTHER -> None] :
                  x \in {1, 2, 3, Unknown}, y \in {1, 2, 3, Unknown}}

MatrixNext ==
    \E k \in Kinds, c \in Classes, value \in BOOLEAN : Fill(<<k, c>>, value)

-----------------------------------------------------------------------------
(* Properties. *)

Outcomes == {"weights", "hybrid", "software", "unknown", "blocked"}

ResidencyTypeOK ==
    /\ head.revision \in 0 .. Cardinality(Receipts) + 1
    /\ \A d \in made \union kept :
           /\ d.precommit.state.revision <= head.revision
           /\ d.decision[1] \in Outcomes
    /\ kept \subseteq made

\* A decision that places a capability never falls: it was made on the last
\* state of its inquiry, so that every reader authenticates it for its round
\* from then on, and on facts that are all established there, about its own
\* target, none of them below the floor the dimensions set
\* (authenticate_decision).
PlacementsStand ==
    \A d \in kept : d.decision[1] \in Classes =>
        /\ Authentic(d, d.precommit.round)
        /\ Plan(head) = "complete"
        /\ \A f \in Dimensions \union {<<k, d.decision[1]>> : k \in Kinds} :
               head.claims[f] = "established"
        /\ contract[<<"target", d.decision[1]>>].value =
               [target |-> d.precommit.target, compatible |-> TRUE]
        /\ \A f \in Dimensions : contract[f].value <= Rank(d.decision[1])

Order(decision) ==
    IF decision[1] \in Classes THEN Rank(decision[1])
    ELSE IF decision[1] = "unknown" THEN 4 ELSE 5

\* More evidence is never held against a capability, nor against what is not
\* said yet: what speaks for a candidate moves the decision to no later one,
\* what speaks against a candidate withdraws no placement, and a capability that
\* no evidence could place is not called undecided
\* (evaluate_fact_matrix).
EvidenceMovesForward ==
    LET before == Evaluate(facts)
        after == Evaluate(facts')
        for == \E f \in Facts : facts[f] = None /\ facts'[f] = TRUE
    IN  facts' # facts =>
            /\ for => Order(after) <= Order(before)
            /\ ~for /\ before[1] \in Classes => after = before
            /\ before[1] = "blocked" => after = before
=============================================================================
