---------------------------- MODULE KnowledgeEngine ----------------------------
(***************************************************************************)
(* One inquiry of src/src/knowledge_engine.rs.                              *)
(*                                                                         *)
(* The deterministic part: what state of knowledge an inquiry starts in,    *)
(* which action the planner selects, what an executor may answer, how an    *)
(* answer is reduced into the next state, and when the inquiry is over.     *)
(*                                                                         *)
(* The canonical lineage: several workers load the canonical head, execute  *)
(* the action its state plans, reduce the receipt into a successor, persist *)
(* it and move the head by compare-and-swap under the lock of the inquiry.  *)
(* A worker may die at any step and continue from what is on disk; the      *)
(* replacement of the pointer may take effect and still be reported as a    *)
(* failure.                                                                 *)
(*                                                                         *)
(* Abstractions: an observation is one value that stands for everything an  *)
(* execution observed, a predicate is the set of observations it matches,   *)
(* so that a value of the wrong type or a missing key is no observation;    *)
(* obligations and nodes are numbered in the order of the maps; a receipt   *)
(* is named, inside the state that applied it, by the revision it produced. *)
(* Digests and references are values.  Receipts and states are files named  *)
(* by their digest, written once; the head, which names the genesis and the *)
(* current state, is the only mutable file.  Its map of action receipts     *)
(* repeats the lineage of the state it names, and a load checks that it     *)
(* does, so the model reads it there.                                       *)
(***************************************************************************)
EXTENDS Naturals, Sequences, FiniteSets, SequencesExt

CONSTANTS
    None,
    Contracts,     \* the contracts an inquiry may be opened with
    Content,       \* what each of them says: [families, duties, budget]
    Observations,  \* what an execution may observe, by contract
    Closed,        \* the observations that say a dependency node is closed
    Nodes,         \* dependency nodes
    Duty,          \* the obligation derived for a dependency node
    Verified,      \* the methods for which a completed outcome is authorized
    Blobs,         \* evidence files that name no action, by contract
    MaxAttempts,   \* max_attempts_per_obligation
    Workers,
    MaxCrashes     \* bound: deaths of workers and failed replacements

Methods ==
    {"trace", "scenario", "causal", "counterexample", "formal", "closure"}

ASSUME VerifiedAssumption == Verified \subseteq Methods \ {"formal"}

ASSUME BoundsAssumption == MaxAttempts \in Nat \ {0} /\ MaxCrashes \in Nat

Ends == {"blocked", "bounded", "complete"}
LimitsMet == {"depth", "nodes"}

\* The obligation derived for a node has a name of its own, a digest.
ASSUME NodesAssumption ==
    /\ Nodes \subseteq Nat /\ IsFiniteSet(Nodes)
    /\ None \notin Nodes /\ None \notin Contracts \union Ends \union LimitsMet
    /\ Duty \in [Nodes -> Nat] /\ IsInjective(Duty)

-----------------------------------------------------------------------------
Cost(method) ==
    [trace |-> 2, scenario |-> 3, causal |-> 5, counterexample |-> 4,
     formal |-> 8, closure |-> 3][method]

-----------------------------------------------------------------------------
(* Contracts.  An obligation tests one claim by one method; only causal and  *)
(* counterexample plans carry predictions, one for each rival of a family.   *)

Hypotheses(c) == UNION Content[c].families

Limits == {"actions", "cost", "nodes", "edges", "depth", "evidence"}

ValidContract(c) ==
    /\ \A limit \in Limits : c.budget[limit] \in Nat \ {0}
    /\ DOMAIN c.duties # {} /\ DOMAIN c.duties \subseteq Nat
    /\ \A family \in c.families : Cardinality(family) >= 2
    /\ \A family, other \in c.families : family = other \/ family \intersect other = {}
    /\ \A o \in DOMAIN c.duties :
           LET duty == c.duties[o]
           IN  /\ duty.method \in Methods
               /\ duty.node \in IF duty.method = "closure" THEN Nodes ELSE {None}
               /\ \A n \in Nodes : o = Duty[n] => duty.node = n
               /\ IF duty.method \in {"causal", "counterexample"}
                  THEN DOMAIN duty.predicts \in c.families
                  ELSE DOMAIN duty.predicts = {}
               /\ duty.method = "closure" => duty.meets = Closed
    /\ \A family \in c.families :
           \E o \in DOMAIN c.duties : DOMAIN c.duties[o].predicts = family

ASSUME ContractAssumption == \A c \in Contracts : ValidContract(Content[c])

\* An open obligation that nothing was done for yet.
Open(claim, method, meets, predicts, node) ==
    [claim |-> claim, method |-> method, meets |-> meets, predicts |-> predicts,
     node |-> node, status |-> "open", attempts |-> 0, witnesses |-> {}]

Declared(c, o) ==
    LET duty == Content[c].duties[o]
    IN  Open(duty.claim, duty.method, duty.meets, duty.predicts, duty.node)

\* The claim and the obligation that a newly discovered node becomes.
Derived(node) == Open(<<"closure of", node>>, "closure", Closed, <<>>, node)

\* initialize: revision zero of an inquiry.
Genesis(c) ==
    LET duties == Content[c].duties
        roots == {duties[o].node : o \in DOMAIN duties} \ {None}
    IN  [contract |-> c,
         lineage |-> <<>>,
         cost |-> 0,
         work |-> [o \in DOMAIN duties |-> Declared(c, o)],
         support |-> [h \in Hypotheses(c) |-> {}],
         against |-> [h \in Hypotheses(c) |-> {}],
         depth |-> [n \in roots |-> 0],
         edges |-> {},
         limit |-> None]

-----------------------------------------------------------------------------
(* Reading a state. *)

Budget(s) == Content[s.contract].budget
Revision(s) == Len(s.lineage)
Applied(s) == 1 .. Revision(s)
UsedArtifacts(s) == {s.lineage[i].artifact : i \in Applied(s)}
WithStatus(s, status) == {o \in DOMAIN s.work : s.work[o].status = status}
IsOpen(s) == WithStatus(s, "open")
AllSatisfied(s) == WithStatus(s, "satisfied") = DOMAIN s.work
Of(s, claim) == {o \in DOMAIN s.work : s.work[o].claim = claim}

Assessment(s, h) ==
    CASE s.support[h] # {} /\ s.against[h] # {} -> "conflicted"
      [] s.support[h] # {} /\ s.against[h] = {} -> "supported"
      [] s.support[h] = {} /\ s.against[h] # {} -> "refuted"
      [] OTHER -> "viable"

FamiliesResolved(s) ==
    \A family \in Content[s.contract].families :
        \E h \in family :
            /\ Assessment(s, h) = "supported"
            /\ \A rival \in family \ {h} : Assessment(s, rival) = "refuted"

\* The nodes from which target can be reached, target included.
Ancestors(edges, target) ==
    {n \in Nodes :
        \A R \in SUBSET Nodes :
            (target \in R /\ \A e \in edges : e[2] \in R => e[1] \in R)
            => n \in R}

ClosesCycle(edges, from, to) == to = from \/ to \in Ancestors(edges, from)

ClosureStillOpen(s) == \E o \in IsOpen(s) : s.work[o].method = "closure"

-----------------------------------------------------------------------------
(* derive_terminal and plan. *)

Blocked(s) ==
    \/ \E o \in DOMAIN s.work :
           s.work[o].status \in {"contradicted", "refused", "cycle"}
    \/ \E h \in Hypotheses(s.contract) : Assessment(s, h) = "conflicted"

Complete(s) == AllSatisfied(s) /\ FamiliesResolved(s)

Exhausted(s) ==
    \/ Revision(s) >= Budget(s).actions
    \/ Revision(s) >= Budget(s).evidence
    \/ \E o \in IsOpen(s) : s.work[o].attempts >= MaxAttempts
    \/ /\ ClosureStillOpen(s)
       /\ \/ Cardinality(DOMAIN s.depth) >= Budget(s).nodes
          \/ Cardinality(s.edges) >= Budget(s).edges
    \/ AllSatisfied(s)

Affordable(s) ==
    {o \in IsOpen(s) : s.cost + Cost(s.work[o].method) <= Budget(s).cost}

\* How the inquiry ends in this state, None while an action is admissible.
Terminal(s) ==
    CASE Blocked(s) -> "blocked"
      [] ~Blocked(s) /\ s.limit # None -> "bounded"
      [] ~Blocked(s) /\ s.limit = None /\ Complete(s) -> "complete"
      [] ~Blocked(s) /\ s.limit = None /\ ~Complete(s)
             /\ (Exhausted(s) \/ Affordable(s) = {}) -> "bounded"
      [] OTHER -> None

\* The first open obligation that the budget can pay for.
Planned(s) == CHOOSE o \in Affordable(s) : \A p \in Affordable(s) : o <= p

\* The identity of the planned action: its parent, obligation and attempt.
Action(s) ==
    LET o == Planned(s)
    IN  [parent |-> s.lineage, contract |-> s.contract, duty |-> o,
         attempt |-> s.work[o].attempts + 1]

-----------------------------------------------------------------------------
(* What issue_action_receipt accepts of an executor. *)

Completed(seen, to) == [kind |-> "completed", seen |-> seen, to |-> to]
Nothing == [kind |-> "nothing"]
Unavailable == [kind |-> "unavailable"]

(* A completed outcome is derived from the evidence, a sequence of what was   *)
(* observed: the events of a trace, the result of a scenario, the baseline    *)
(* and the treatment of an intervention, the cases of a search.               *)

Runs == [c \in Contracts |-> UNION {[1 .. n -> Observations[c]] : n \in 1 .. 2}]

LatestOfTrace(run) == run[Len(run)]
ResultOfScenario(run) == run[1]
TreatmentOf(run) == run[2]

Counterexamples(duty, run) == {i \in DOMAIN run : run[i] \notin duty.meets}

FirstCounterexample(duty, run) ==
    run[CHOOSE i \in Counterexamples(duty, run) :
            \A j \in Counterexamples(duty, run) : i <= j]

ObservedBy(c, duty) ==
    CASE duty.method = "trace" -> {LatestOfTrace(run) : run \in Runs[c]}
      [] duty.method = "scenario" ->
             {ResultOfScenario(run) : run \in [1 .. 1 -> Observations[c]]}
      [] duty.method = "causal" ->
             {TreatmentOf(run) : run \in [1 .. 2 -> Observations[c]]}
      [] duty.method = "counterexample" ->
             {FirstCounterexample(duty, run) :
                 run \in {r \in Runs[c] : Counterexamples(duty, r) # {}}}
      [] OTHER -> Observations[c]

\* A formal request has no result but that no proof backend is installed.
WithoutResult(duty) ==
    IF duty.method = "formal" THEN {Unavailable} ELSE {Nothing, Unavailable}

\* The outcomes that the evidence verifiers derive or let pass.
Outcomes(s, duty) ==
    LET room == Budget(s).edges - Cardinality(s.edges)
        targets == IF duty.method = "closure"
                   THEN {T \in SUBSET Nodes : Cardinality(T) <= room}
                   ELSE {{}}
    IN  WithoutResult(duty)
        \union (IF duty.method \in Verified
                THEN {Completed(seen, to) : seen \in ObservedBy(s.contract, duty),
                                            to \in targets}
                ELSE {})

\* Typed evidence names the action it was made for; other evidence is a file.
ArtifactsFor(s, duty, outcome) ==
    IF outcome.kind = "completed" \/ duty.method = "formal"
    THEN {[file |-> None, for |-> Action(s)]}
    ELSE {[file |-> b, for |-> None] : b \in Blobs[s.contract]}

\* Mutant of Receipts: an obligation that was tried is not tried again.
ReceiptsOfFirstAttempts(s) ==
    LET duty == s.work[Planned(s)]
    IN  UNION {{[action |-> Action(s), outcome |-> outcome, artifact |-> a] :
                    a \in {x \in ArtifactsFor(s, duty, outcome) : duty.attempts = 0}} :
                        outcome \in Outcomes(s, duty)}

\* The receipts that may be issued for the planned action.
Receipts(s) ==
    LET duty == s.work[Planned(s)]
    IN  UNION {{[action |-> Action(s), outcome |-> outcome, artifact |-> a] :
                    a \in ArtifactsFor(s, duty, outcome) \ UsedArtifacts(s)} :
                        outcome \in Outcomes(s, duty)}

-----------------------------------------------------------------------------
(* advance: one receipt, one successor revision. *)

StatusAfter(duty, outcome) ==
    CASE outcome.kind = "completed" ->
             IF outcome.seen \in duty.meets THEN "satisfied" ELSE "contradicted"
      [] outcome.kind = "nothing" -> "open"
      [] outcome.kind = "unavailable" -> "refused"

\* A map with one more entry.
With(f, x, y) == [z \in DOMAIN f \union {x} |-> IF z \in DOMAIN f THEN f[z] ELSE y]

\* Mutant of Discover: what lies beyond a limit is dropped in silence.
DiscoverSilently(s, o, from, to) ==
    CASE ClosesCycle(s.edges, from, to) -> [s EXCEPT !.work[o].status = "cycle"]
      [] ~ClosesCycle(s.edges, from, to) /\ to \in DOMAIN s.depth ->
             [s EXCEPT !.edges = @ \union {<<from, to>>}]
      [] OTHER ->
             IF \/ s.depth[from] + 1 > Budget(s).depth
                \/ Cardinality(DOMAIN s.depth) >= Budget(s).nodes
             THEN s
             ELSE [s EXCEPT !.depth = With(@, to, s.depth[from] + 1),
                            !.edges = @ \union {<<from, to>>},
                            !.work = With(@, Duty[to], Derived(to))]

\* One edge of an expanded node: a cycle blocks the obligation, a known node
\* gets one more edge, and a new one becomes an obligation of its own unless a
\* limit is met, which ends the inquiry without a result.
Discover(s, o, from, to) ==
    CASE ClosesCycle(s.edges, from, to) -> [s EXCEPT !.work[o].status = "cycle"]
      [] ~ClosesCycle(s.edges, from, to) /\ to \in DOMAIN s.depth ->
             [s EXCEPT !.edges = @ \union {<<from, to>>}]
      [] OTHER ->
             IF s.depth[from] + 1 > Budget(s).depth
             THEN [s EXCEPT !.limit = "depth"]
             ELSE IF Cardinality(DOMAIN s.depth) >= Budget(s).nodes
             THEN [s EXCEPT !.limit = "nodes"]
             ELSE [s EXCEPT !.depth = With(@, to, s.depth[from] + 1),
                            !.edges = @ \union {<<from, to>>},
                            !.work = With(@, Duty[to], Derived(to))]

\* The edges are taken in the order of their targets, the last one last.
Expanded(s, o, outcome) ==
    IF outcome.kind = "completed" /\ s.work[o].method = "closure"
    THEN MapThenFoldSet(LAMBDA to, t : Discover(t, o, s.work[o].node, to), s,
                        LAMBDA to : to, Max, outcome.to)
    ELSE s

\* The hypotheses whose prediction the outcome matched, or contradicted.
Judged(duty, outcome, agrees) ==
    IF outcome.kind = "completed"
    THEN {h \in DOMAIN duty.predicts :
              (outcome.seen \in duty.predicts[h]) = agrees}
    ELSE {}

Noted(witnesses, judged, n) ==
    [h \in DOMAIN witnesses |->
        witnesses[h] \union (IF h \in judged THEN {n} ELSE {})]

Tried(duty, outcome, n) ==
    [duty EXCEPT !.attempts = @ + 1,
                 !.witnesses = @ \union {n},
                 !.status = StatusAfter(duty, outcome)]

\* The receipt is applied to its obligation and to the hypotheses it predicts.
Counted(s, r) ==
    LET o == r.action.duty
        duty == s.work[o]
        n == Revision(s) + 1
    IN  [s EXCEPT
            !.lineage = Append(@, r),
            !.cost = @ + Cost(duty.method),
            !.support = Noted(@, Judged(duty, r.outcome, TRUE), n),
            !.against = Noted(@, Judged(duty, r.outcome, FALSE), n),
            !.work[o] = Tried(@, r.outcome, n)]

Advance(s, r) == Expanded(Counted(s, r), r.action.duty, r.outcome)

-----------------------------------------------------------------------------
(* validate_state, which refuses what advance makes if it does not hold. *)

WithinBudget(s) ==
    /\ Revision(s) <= Budget(s).actions
    /\ Revision(s) <= Budget(s).evidence
    /\ s.cost <= Budget(s).cost
    /\ Cardinality(DOMAIN s.depth) <= Budget(s).nodes
    /\ Cardinality(s.edges) <= Budget(s).edges

Accounted(s) ==
    /\ Cardinality(UsedArtifacts(s)) = Revision(s)
    /\ \A o \in DOMAIN s.work : s.work[o].witnesses \subseteq Applied(s)
    /\ \A h \in Hypotheses(s.contract) :
           s.support[h] \union s.against[h] \subseteq Applied(s)

DependenciesIndexed(s) ==
    /\ \A e \in s.edges : {e[1], e[2]} \subseteq DOMAIN s.depth
    /\ \A n \in DOMAIN s.depth : s.depth[n] <= Budget(s).depth
    /\ \A e \in s.edges : ~ClosesCycle(s.edges \ {e}, e[1], e[2])
    /\ \A o \in DOMAIN s.work :
           s.work[o].method = "closure" => s.work[o].node \in DOMAIN s.depth
    /\ \A n \in DOMAIN s.depth :
           s.depth[n] > 0 =>
               \E e \in s.edges :
                   e[2] = n /\ s.depth[e[1]] + 1 = s.depth[n]

ValidState(s) == WithinBudget(s) /\ Accounted(s) /\ DependenciesIndexed(s)

-----------------------------------------------------------------------------
(* The lineage. *)

VARIABLES
    head,       \* canonical_heads/<inquiry>: the current state, Absent before
    states,     \* states/by-sha
    receipts,   \* action_receipts/by-sha
    at,         \* what each worker does next
    expected,   \* the head it loaded
    held,       \* the receipt it holds
    acked,      \* receipts whose commit was answered with a head
    crashes     \* deaths and failures so far

Absent == [contract |-> None]   \* no head yet

disk == <<head, states, receipts>>
local == <<at, expected, held>>
vars == <<disk, local, acked, crashes>>

Init ==
    /\ head = Absent
    /\ states = {}
    /\ receipts = {}
    /\ at = [w \in Workers |-> "idle"]
    /\ expected = [w \in Workers |-> None]
    /\ held = [w \in Workers |-> None]
    /\ acked = {}
    /\ crashes = 0

Applies(r, s) == \E i \in Applied(s) : s.lineage[i] = r
Acts(s) == {s.lineage[i].action : i \in Applied(s)}
Successor(w) == Advance(expected[w], held[w])
Idle(w) ==
    /\ at' = [at EXCEPT ![w] = "idle"]
    /\ expected' = [expected EXCEPT ![w] = None]
    /\ held' = [held EXCEPT ![w] = None]

-----------------------------------------------------------------------------
(* Genesis. *)

\* initialize refuses a contract whose first state is not valid.
Initializable == {c \in Contracts : ValidState(Genesis(c))}

\* initialize and the persist_state that establish_canonical_genesis begins with.
PersistGenesis(c) ==
    /\ c \in Initializable
    /\ Genesis(c) \notin states
    /\ states' = states \union {Genesis(c)}
    /\ UNCHANGED <<head, receipts, local, acked, crashes>>

\* Under the lock: the first genesis is published; the same one again, while no
\* action followed, is answered with the head; anything else is refused.
EstablishGenesis(c) ==
    /\ Genesis(c) \in states
    /\ head = Absent
    /\ head' = Genesis(c)
    /\ UNCHANGED <<states, receipts, local, acked, crashes>>

-----------------------------------------------------------------------------
(* A worker. *)

Load(w) ==
    /\ at[w] = "idle"
    /\ head # Absent
    /\ expected' = [expected EXCEPT ![w] = head]
    /\ at' = [at EXCEPT ![w] = "loaded"]
    /\ UNCHANGED <<disk, held, acked, crashes>>

\* execute: plan, invoke the adapter, verify what it answers and write the
\* receipt.
Execute(w) ==
    /\ at[w] = "loaded"
    /\ Terminal(expected[w]) = None
    /\ \E r \in Receipts(expected[w]) :
           /\ held' = [held EXCEPT ![w] = r]
           /\ receipts' = receipts \union {r}
    /\ at' = [at EXCEPT ![w] = "holding"]
    /\ UNCHANGED <<head, states, expected, acked, crashes>>

\* authenticate_action_receipt: continue from a receipt that is on disk.
Resume(w) ==
    /\ at[w] = "loaded"
    /\ Terminal(expected[w]) = None
    /\ \E r \in receipts :
           /\ r \in Receipts(expected[w])
           /\ held' = [held EXCEPT ![w] = r]
    /\ at' = [at EXCEPT ![w] = "holding"]
    /\ UNCHANGED <<disk, expected, acked, crashes>>

\* The planner has nothing to invoke: the worker gives up until it loads again.
Finish(w) ==
    /\ at[w] = "loaded"
    /\ Terminal(expected[w]) # None
    /\ Idle(w)
    /\ UNCHANGED <<disk, acked, crashes>>

\* advance and persist_advance; advance refuses a successor that is not valid.
PersistAdvance(w) ==
    /\ at[w] = "holding"
    /\ \E s \in {Successor(w)} : ValidState(s) /\ states' = states \union {s}
    /\ at' = [at EXCEPT ![w] = "persisted"]
    /\ UNCHANGED <<head, receipts, expected, held, acked, crashes>>

\* Mutant of Swappable: no comparison at all under the lock.
SwappableAlways(w) == head # Absent

\* The comparison of the head on disk with the one the worker started from.
Swappable(w) == held[w].action \notin Acts(head) /\ head = expected[w]

\* commit_canonical_advance, under the lock of the inquiry.
Swap(w) ==
    /\ at[w] = "persisted"
    /\ Swappable(w)
    /\ head' = Successor(w)
    /\ UNCHANGED <<states, receipts>>

CommitAdvance(w) ==
    /\ Swap(w)
    /\ acked' = acked \union {held[w]}
    /\ Idle(w)
    /\ UNCHANGED crashes

\* The pointer is replaced and the caller is told that it failed.
CommitUnreported(w) ==
    /\ crashes < MaxCrashes
    /\ Swap(w)
    /\ crashes' = crashes + 1
    /\ UNCHANGED <<local, acked>>

\* The action is recorded with this receipt and nothing followed it.
CommitRepeated(w) ==
    /\ at[w] = "persisted"
    /\ held[w].action \in Acts(head)
    /\ head = Successor(w)
    /\ acked' = acked \union {held[w]}
    /\ Idle(w)
    /\ UNCHANGED <<disk, crashes>>

\* Another receipt won, or the lineage went on.
CommitConflict(w) ==
    /\ at[w] = "persisted"
    /\ ~Swappable(w)
    /\ head # Successor(w)
    /\ Idle(w)
    /\ UNCHANGED <<disk, acked, crashes>>

Crash(w) ==
    /\ crashes < MaxCrashes
    /\ at[w] # "idle"
    /\ crashes' = crashes + 1
    /\ Idle(w)
    /\ UNCHANGED <<disk, acked>>

Step(w) ==
    \/ Load(w)
    \/ Execute(w)
    \/ Resume(w)
    \/ Finish(w)
    \/ PersistAdvance(w)
    \/ CommitAdvance(w)
    \/ CommitRepeated(w)
    \/ CommitConflict(w)

Next ==
    \/ \E c \in Contracts : PersistGenesis(c) \/ EstablishGenesis(c)
    \/ \E w \in Workers : Step(w) \/ CommitUnreported(w) \/ Crash(w)

Spec == Init /\ [][Next]_vars

\* Someone opens the inquiry, and each worker goes on while it can: a caller
\* that loads, executes and commits in a loop, with an executor that answers.
FairSpec ==
    /\ Spec
    /\ WF_vars(\E c \in Contracts : PersistGenesis(c))
    /\ WF_vars(\E c \in Contracts : EstablishGenesis(c))
    /\ \A w \in Workers : WF_vars(Step(w))

-----------------------------------------------------------------------------
(* Properties. *)

\* Types, and that every name on disk leads to a file.
TypeOK ==
    /\ head \in states \union {Absent}
    /\ \A w \in Workers :
           /\ at[w] \in {"idle", "loaded", "holding", "persisted"}
           /\ expected[w] \in states \union {None}
           /\ held[w] \in receipts \union {None}
    /\ acked \subseteq receipts
    /\ crashes \in 0 .. MaxCrashes

\* Whatever executors answer, and whichever worker they answer to, advance
\* accepts every receipt that execute issued: no inquiry is stuck on a
\* receipt that validate_state refuses to let it apply.
IssuedReceiptsApply ==
    \A w \in Workers : at[w] = "holding" => ValidState(Successor(w))

\* A commit that was confirmed stays in the canonical lineage, whatever other
\* workers commit, retry or lose afterwards.
ConfirmedStays == \A r \in acked : head # Absent /\ Applies(r, head)

Seen(s, i) == s.lineage[i].outcome

\* A complete inquiry rests on what was observed: each duty was executed and
\* what the last execution saw meets it, nothing observed contradicts a duty,
\* and of each family exactly one hypothesis agrees with every observation
\* made for it.
CompleteMeansObserved ==
    head # Absent /\ Terminal(head) = "complete" =>
        /\ \A o \in DOMAIN head.work :
               \E i \in Applied(head) :
                   /\ head.lineage[i].action.duty = o
                   /\ Seen(head, i).kind = "completed"
                   /\ Seen(head, i).seen \in head.work[o].meets
        /\ \A family \in Content[head.contract].families :
               \E h \in family : \A g \in family :
                   (\A i \in Applied(head) :
                        LET duty == head.work[head.lineage[i].action.duty]
                        IN  DOMAIN duty.predicts = family
                                /\ Seen(head, i).kind = "completed" =>
                            Seen(head, i).seen \in duty.predicts[g])
                   <=> g = h

\* A complete inquiry has followed every edge it was shown: each dependency
\* that a closure reported is itself a duty of the inquiry.
CompleteMeansClosed ==
    head # Absent /\ Terminal(head) = "complete" =>
        \A i \in Applied(head) :
            Seen(head, i).kind = "completed" =>
                \A n \in Seen(head, i).to :
                    \E o \in DOMAIN head.work : head.work[o].node = n

\* With callers that go on, an inquiry ends, and its end is permanent.
InquiryEnds == <>[](head # Absent /\ Terminal(head) # None)
=============================================================================
