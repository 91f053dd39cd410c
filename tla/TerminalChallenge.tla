--------------------------- MODULE TerminalChallenge ---------------------------
(***************************************************************************)
(* A linear map that was discovered in retained sources is tried, once, on      *)
(* cases that were committed to before and are revealed after the candidate is   *)
(* claimed (pure_capability_e2e.rs).  Every record is written once, by its       *)
(* digest or by the commitment, and nothing locks: callers interleave between    *)
(* any two records, and die there.                                               *)
(***************************************************************************)
EXTENDS Sequences, FiniteSets, Functions

CONSTANTS
    Callers,        \* processes that use the authorities
    Reveals,        \* what may be revealed: a label and a sequence of cases
    Maps,           \* linear maps: dimensions and what each gives for an input
    Runners,        \* programs that may be admitted ...
    Faithful,       \* ... and those that print what the package gives
    Limits,         \* resource limits of an isolated run
    NonFinite,      \* an output that overflowed
    MaxDeaths,      \* bound on deaths
    None

VARIABLES
    kept,           \* records by digest: commitments, discoveries, candidates, ...
    said,           \* records by suite or by commitment, each written once
    retained,       \* the maps whose captured sources can still be opened
    call, deaths    \* what each caller is doing

challenge == <<kept, said, retained, call, deaths>>

Suites == {Range(r.cases) : r \in Reveals}

\* terminal_suite_digest: the set of the cases, without label and order.
Suite(r) == Range(r.cases)

\* TerminalChallengeReveal::validate_structure
Wellformed(r) ==
    /\ r.cases # <<>>
    /\ \A i, j \in DOMAIN r.cases : r.cases[i].input = r.cases[j].input => i = j

\* validate_terminal_evaluation_inputs: every case has the shape of the map.
Fits(m, r) == \A i \in DOMAIN r.cases : r.cases[i].input \in DOMAIN m.gives

\* execute_weight_candidate
Observed(c) == [i \in DOMAIN c.commitment.cases |-> c.map.gives[c.commitment.cases[i].input]]

\* terminal_outcome
Outcome(c) ==
    IF NonFinite \in Range(Observed(c)) THEN "nonfinite"
    ELSE IF \E i \in DOMAIN c.commitment.cases : Observed(c)[i] # c.commitment.cases[i].output
         THEN "mismatch" ELSE "passed"

Candidates == [map : Maps, commitment : Reveals]

InProcess == [runner |-> None, limits |-> None]
Isolated == [runner : Runners, limits : Limits]
Evaluation(c, how) == [candidate |-> c, how |-> how, outcome |-> Outcome(c)]

\* None is no record, no runner, and nothing that a program prints.
ChallengeAssumption ==
    /\ None \notin Reveals /\ None \notin Candidates /\ None \notin Runners
    /\ \A c \in Candidates, how \in {InProcess} \union Isolated :
           None # Observed(c) /\ None # Evaluation(c, how)

Idle == [op |-> "idle", at |-> "idle", on |-> None, how |-> None]

ChallengeInit ==
    /\ kept = [commitments |-> {}, discoveries |-> {}, candidates |-> {}, reveals |-> {},
               runners |-> {}, evaluations |-> {}, authentic |-> {}]
    /\ said = [registered |-> [s \in Suites |-> None], claimed |-> [r \in Reveals |-> None],
               revealed |-> [r \in Reveals |-> None], terminal |-> [r \in Reveals |-> None]]
    /\ retained = Maps
    /\ call = [p \in Callers |-> Idle]
    /\ deaths = 0

-----------------------------------------------------------------------------
(* The private root *)

\* persist_canonical, write_or_verify_immutable under a digest.
Keep(kind, x) == kept' = [kept EXCEPT ![kind] = @ \union {x}]

\* write_or_verify_state
MaySay(kind, key, value) == said[kind][key] \in {None, value}
Say(kind, key, value) == said' = [said EXCEPT ![kind] = [@ EXCEPT ![key] = value]]

Step(p, at) == call' = [call EXCEPT ![p].at = at]
Return(p) == call' = [call EXCEPT ![p] = Idle]
At(p, op, at) == call[p].op = op /\ call[p].at = at
Begin(p, op, at, on, how) ==
    /\ call[p] = Idle
    /\ call' = [call EXCEPT ![p] = [op |-> op, at |-> at, on |-> on, how |-> how]]

\* authenticate_commitment: the suite is registered for this very commitment.
CommitmentStands(r) == r \in kept.commitments /\ said.registered[Suite(r)] = r

\* PureCapabilityDiscoveryAuthority::authenticate opens the sources again.
DiscoveryStands(m) == m \in kept.discoveries /\ m \in retained

\* authenticate_claim
ClaimStands(c) == said.claimed[c.commitment] = c

\* PureWeightCandidateAuthority::authenticate_sealed
Sealed(c) == c \in kept.candidates /\ CommitmentStands(c.commitment) /\ ClaimStands(c)

\* PureWeightCandidateAuthority::authenticate
Deep(c) == Sealed(c) /\ DiscoveryStands(c.map)

\* authenticate_reveal_transition, over a reveal that can be read.
RevealStands(c) == c.commitment \in kept.reveals /\ said.revealed[c.commitment] = c

\* TerminalEvaluationAuthority::authenticate, and the one of isolated results,
\* which asks nothing of the sources.
EvaluationStands(e) ==
    /\ e \in kept.evaluations
    /\ IF e.how = InProcess THEN Deep(e.candidate)
       ELSE /\ Sealed(e.candidate)
            /\ e.how.runner \in kept.runners
            /\ e.outcome # "nonfinite"
    /\ RevealStands(e.candidate)
    /\ e.outcome = Outcome(e.candidate)
    /\ said.terminal[e.candidate.commitment] = e

-----------------------------------------------------------------------------
(* TerminalChallengeCommitment::commit *)

BeginCommit(p) ==
    \E r \in Reveals :
        /\ Wellformed(r)
        /\ Begin(p, "commit", "register", r, None)
        /\ UNCHANGED <<kept, said>>

RegisterSuite(p) ==
    LET r == call[p].on
    IN  /\ At(p, "commit", "register")
        /\ IF MaySay("registered", Suite(r), r)
           THEN Say("registered", Suite(r), r) /\ Step(p, "persist")
           ELSE Return(p) /\ UNCHANGED said
        /\ UNCHANGED kept

PersistCommitment(p) ==
    /\ At(p, "commit", "persist")
    /\ Keep("commitments", call[p].on)
    /\ Return(p)
    /\ UNCHANGED said

Commit(p) == BeginCommit(p) \/ RegisterSuite(p) \/ PersistCommitment(p)

-----------------------------------------------------------------------------
(* Discovery and candidates *)

\* discover_linear_map, of a descriptor in sources that can be opened.
Discover(p) ==
    \E m \in retained :
        /\ call[p] = Idle
        /\ Keep("discoveries", m)
        /\ UNCHANGED <<said, call>>

\* materialize, up to the persisted candidate.
BeginMaterialize(p) ==
    \E c \in Candidates :
        /\ DiscoveryStands(c.map) /\ CommitmentStands(c.commitment)
        /\ Begin(p, "materialize", "claim", c, None)
        /\ Keep("candidates", c)
        /\ UNCHANGED said

\* A commitment is claimed by one candidate: the others stay without a claim.
ClaimChallenge(p) ==
    LET c == call[p].on
    IN  /\ At(p, "materialize", "claim")
        /\ IF MaySay("claimed", c.commitment, c)
           THEN Say("claimed", c.commitment, c)
           ELSE UNCHANGED said
        /\ Return(p)
        /\ UNCHANGED kept

Materialize(p) == Discover(p) \/ BeginMaterialize(p) \/ ClaimChallenge(p)

-----------------------------------------------------------------------------
(* persist_reveal_after_candidate *)

\* Mutant: the candidate is not asked for its claim.
RevealUnclaimed(p) ==
    \E c \in Candidates, r \in Reveals :
        /\ c \in kept.candidates /\ CommitmentStands(c.commitment)
        /\ r = c.commitment /\ Fits(c.map, r)
        /\ Begin(p, "reveal", "transition", c, None)
        /\ Keep("reveals", r)
        /\ UNCHANGED said

BeginReveal(p) ==
    \E c \in Candidates, r \in Reveals :
        /\ Deep(c)
        /\ r = c.commitment /\ Fits(c.map, r)
        /\ Begin(p, "reveal", "transition", c, None)
        /\ Keep("reveals", r)
        /\ UNCHANGED said

RecordReveal(p) ==
    LET c == call[p].on
    IN  /\ At(p, "reveal", "transition")
        /\ IF MaySay("revealed", c.commitment, c)
           THEN Say("revealed", c.commitment, c)
           ELSE UNCHANGED said
        /\ Return(p)
        /\ UNCHANGED kept

PersistReveal(p) == BeginReveal(p) \/ RecordReveal(p)

-----------------------------------------------------------------------------
(* Evaluations, in the process and isolated *)

\* TerminalEvaluationAuthority::evaluate, up to the persisted receipt.
EvaluateInProcess(p) ==
    \E c \in Candidates :
        /\ Deep(c) /\ RevealStands(c)
        /\ Begin(p, "evaluate", "terminal", c, InProcess)
        /\ Keep("evaluations", Evaluation(c, InProcess))
        /\ UNCHANGED said

\* admit_local_build: the program, then the receipt that names it.
AdmitRunner(p) ==
    \E u \in Runners :
        /\ call[p] = Idle
        /\ Keep("runners", u)
        /\ UNCHANGED <<said, call>>

\* IsolatedTerminalEvaluationAuthority::evaluate, up to run_isolated: the package
\* cannot be executed when an output overflows.
BeginIsolated(p) ==
    \E c \in Candidates, how \in Isolated :
        /\ Sealed(c) /\ RevealStands(c) /\ Fits(c.map, c.commitment)
        /\ how.runner \in kept.runners
        /\ Outcome(c) # "nonfinite"
        /\ Begin(p, "isolated", "run", c, how)
        /\ UNCHANGED <<kept, said>>

\* What run_isolated may report: a success with what the program prints, or a
\* failure of any kind.
Reports(how, c) ==
    {[ok |-> TRUE, stdout |-> IF how.runner \in Faithful THEN Observed(c) ELSE None],
     [ok |-> FALSE, stdout |-> None]}

\* The report is accepted when it succeeded and printed exactly what the
\* package gives.
FinishIsolated(p) ==
    LET c == call[p].on
        how == call[p].how
    IN  /\ At(p, "isolated", "run")
        /\ \E report \in Reports(how, c) :
               IF report.ok /\ report.stdout = Observed(c)
               THEN Keep("evaluations", Evaluation(c, how)) /\ Step(p, "terminal")
               ELSE Return(p) /\ UNCHANGED kept
        /\ UNCHANGED said

\* The terminal transition, by the commitment: the first evaluation has it.
RecordTerminal(p) ==
    LET c == call[p].on
        e == Evaluation(c, call[p].how)
    IN  /\ \E op \in {"evaluate", "isolated"} : At(p, op, "terminal")
        /\ IF MaySay("terminal", c.commitment, e)
           THEN Say("terminal", c.commitment, e)
           ELSE UNCHANGED said
        /\ Return(p)
        /\ UNCHANGED kept

\* authenticate, of any receipt that there is.
Authenticate(p) ==
    \E e \in kept.evaluations :
        /\ call[p] = Idle
        /\ EvaluationStands(e)
        /\ Keep("authentic", e)
        /\ UNCHANGED <<said, call>>

Evaluate(p) ==
    \/ EvaluateInProcess(p) \/ AdmitRunner(p) \/ BeginIsolated(p) \/ FinishIsolated(p)
    \/ RecordTerminal(p) \/ Authenticate(p)

-----------------------------------------------------------------------------
\* A caller dies between two of its records.
DieInCall(p) ==
    /\ deaths < MaxDeaths /\ call[p] # Idle
    /\ Return(p)
    /\ deaths' = deaths + 1
    /\ UNCHANGED <<kept, said, retained>>

\* Retention ends: the captured sources of a map cannot be opened any more.
ForgetSource ==
    /\ \E m \in retained : retained' = retained \ {m}
    /\ UNCHANGED <<kept, said, call, deaths>>

ChallengeNext ==
    \/ \E p \in Callers :
           (Commit(p) \/ Materialize(p) \/ PersistReveal(p) \/ Evaluate(p))
           /\ UNCHANGED <<retained, deaths>>
    \/ \E p \in Callers : DieInCall(p)
    \/ ForgetSource

ChallengeSpec == ChallengeInit /\ [][ChallengeNext]_challenge

-----------------------------------------------------------------------------
(* Properties *)

\* Nobody sees the cases before a candidate is bound to them: a suite is revealed
\* only under the commitment it is registered for, and claimed, under whatever
\* label or order its cases are written; and it is claimed by one candidate, the
\* one that it is revealed for.
CandidatesBlind ==
    /\ \A r \in kept.reveals :
           /\ said.claimed[r] # None
           /\ said.registered[Suite(r)] = r
    /\ \A r \in Reveals :
           /\ said.revealed[r] # None => said.revealed[r] = said.claimed[r]
           /\ said.claimed[r] # None => said.registered[Suite(r)] = r

\* A suite has one verdict, whoever evaluates, however the callers interleave or
\* die: what is authentic names the claimed candidate, tells what its map gives
\* on the committed cases, and was printed by the admitted program when it says
\* so.
OneVerdict ==
    /\ \A d, e \in kept.authentic :
           Suite(d.candidate.commitment) = Suite(e.candidate.commitment) => d = e
    /\ \A e \in kept.authentic :
           /\ e.candidate = said.claimed[e.candidate.commitment]
           /\ e.candidate = said.revealed[e.candidate.commitment]
           /\ e.outcome = "passed" =>
                  \A i \in DOMAIN e.candidate.commitment.cases :
                      e.candidate.map.gives[e.candidate.commitment.cases[i].input]
                          = e.candidate.commitment.cases[i].output
           /\ e.how # InProcess => e.how.runner \in Faithful \intersect kept.runners
=============================================================================
