---------------------------- MODULE SolverPortfolio ----------------------------
(***************************************************************************)
(* The portfolio that solves one least squares problem                        *)
(* (src/src/solver_portfolio.rs): two solvers of its own, and candidates      *)
(* that come from outside, in any order and any form; each is measured on the *)
(* problem itself, and what cannot be tried within the limits is unknown,     *)
(* never rejected.                                                            *)
(*                                                                            *)
(* Numbers are integers of a bounded magnitude, sums are exact, and a norm is *)
(* the sum of the magnitudes.  Where the rotations of the singular value      *)
(* decomposition end, and what the ridge solver returns, belong to the        *)
(* problem.                                                                   *)
(***************************************************************************)
EXTENDS Integers, FiniteSets, Sequences, SequencesExt, FiniteSetsExt

CONSTANTS
    None,
    Tasks,      \* the problems with the policies they are solved under
    Offers,     \* of a problem: the proposals there may be, in an order of their own
    Generous,   \* limits under which nothing is refused
    Digests,    \* the candidates in the order of their digests
    MaxOffers,  \* proposals of one call
    Largest,    \* the largest finite magnitude
    MaxDense,   \* MAX_EXACT_CANDIDATE_DENSE_ELEMENTS
    MaxLowRank  \* MAX_LOW_RANK

PortfolioAssumption ==
    /\ MaxOffers \in Nat /\ Largest \in Nat /\ MaxDense \in Nat /\ MaxLowRank \in Nat
    /\ IsInjective(Digests)

VARIABLES
    task,       \* [problem, policy]
    offered     \* the proposals so far, as places in Offers

-----------------------------------------------------------------------------
(* Numbers: a problem is [inputs, targets, components, sweeps, ridge, single].   *)

Magnitude(v) == IF v < 0 THEN -v ELSE v

Finite(v) == Magnitude(v) <= Largest

AllFinite(s) == \A i \in DOMAIN s : Finite(s[i])

Sum(s) == FoldLeft(LAMBDA a, b : a + b, 0, s)

Dot(s, t) == Sum([i \in DOMAIN s |-> s[i] * t[i]])

Norm(s) == Sum([i \in DOMAIN s |-> Magnitude(s[i])])

Cases(p) == Len(p.inputs)
Inputs(p) == Len(p.inputs[1])
Outputs(p) == Len(p.targets[1])

\* LeastSquaresProblem::new
ValidProblem(p) ==
    /\ Cases(p) > 0 /\ Len(p.targets) = Cases(p)
    /\ \A c \in 1 .. Cases(p) :
           /\ Len(p.inputs[c]) = Inputs(p) /\ Len(p.targets[c]) = Outputs(p)
           /\ AllFinite(p.inputs[c]) /\ AllFinite(p.targets[c])
    /\ Inputs(p) > 0 /\ Outputs(p) > 0

\* PortfolioPolicy::validate and SolverResourceLimits::validate
ValidPolicy(q) ==
    /\ \A f \in {"cases", "inputs", "outputs", "working", "parameters", "work",
                 "minimum", "sweeps", "magnitude", "condition"} : q[f] > 0
    /\ q.working <= MaxDense /\ q.parameters <= MaxDense
    /\ q.minimum <= q.maximum
    /\ q.energy \in 1 .. 100 /\ q.tolerance \in 0 .. 99
    /\ q.relative >= 0 /\ q.absolute >= 0 /\ q.relative + q.absolute > 0

-----------------------------------------------------------------------------
(* CandidateRepresentation                                                     *)

\* stored_parameter_count
Stored(c) ==
    CASE c.kind = "dense" -> c.rows * c.columns
      [] c.kind = "low rank" -> c.rows * c.rank + c.rank * c.columns
      [] c.kind = "sparse" -> Len(c.entries)
      [] c.kind = "block" -> Sum([b \in DOMAIN c.blocks |-> Len(c.blocks[b].values)])

Before(x, y) == x[1] < y[1] \/ (x[1] = y[1] /\ x[2] < y[2])

Ascending(places) == \A i \in 2 .. Len(places) : Before(places[i - 1], places[i])

\* The element of c at <<i, j>>; the sum of the components, in low rank.
Component(c, i, j, r) == c.left[(i - 1) * c.rank + r] * c.right[(r - 1) * c.columns + j]

CanonicalDense(c) == Len(c.weights) = c.rows * c.columns /\ AllFinite(c.weights)

CanonicalLowRank(c) ==
    /\ c.rank > 0
    /\ Len(c.left) = c.rows * c.rank /\ Len(c.right) = c.rank * c.columns
    /\ AllFinite(c.left) /\ AllFinite(c.right)
    /\ \A i \in 1 .. c.rows, j \in 1 .. c.columns :
           AllFinite([r \in 1 .. c.rank |-> Component(c, i, j, r)])

CanonicalSparse(c) ==
    /\ \A e \in DOMAIN c.entries :
           LET x == c.entries[e]
           IN  x[1] <= c.rows /\ x[2] <= c.columns /\ Finite(x[3]) /\ x[3] # 0
    /\ Ascending(c.entries)

Area(b) == (b.at[1] .. b.at[1] + b.rows - 1) \X (b.at[2] .. b.at[2] + b.columns - 1)

CanonicalBlocks(c) ==
    /\ \A i \in DOMAIN c.blocks :
           LET b == c.blocks[i]
           IN  /\ b.rows > 0 /\ b.columns > 0
               /\ Area(b) \subseteq (1 .. c.rows) \X (1 .. c.columns)
               /\ Len(b.values) = b.rows * b.columns /\ AllFinite(b.values)
    /\ Ascending([i \in DOMAIN c.blocks |-> c.blocks[i].at])
    /\ \A i, k \in DOMAIN c.blocks :
           i # k => Area(c.blocks[i]) \intersect Area(c.blocks[k]) = {}

\* materialize_dense succeeds
Canonical(c) ==
    /\ c.rows * c.columns <= MaxDense
    /\ CASE c.kind = "dense" -> CanonicalDense(c)
         [] c.kind = "low rank" -> CanonicalLowRank(c)
         [] c.kind = "sparse" -> CanonicalSparse(c)
         [] c.kind = "block" -> CanonicalBlocks(c)

InBlock(c, i, j) ==
    LET held == {b \in DOMAIN c.blocks : <<i, j>> \in Area(c.blocks[b])}
    IN  IF held = {} THEN 0
        ELSE LET b == c.blocks[CHOOSE x \in held : TRUE]
             IN  b.values[(i - b.at[1]) * b.columns + (j - b.at[2]) + 1]

Weight(c, i, j) ==
    CASE c.kind = "dense" -> c.weights[(i - 1) * c.columns + j]
      [] c.kind = "low rank" -> Sum([r \in 1 .. c.rank |-> Component(c, i, j, r)])
      [] c.kind = "sparse" ->
             Sum([e \in DOMAIN c.entries |->
                     IF c.entries[e][1] = i /\ c.entries[e][2] = j
                     THEN c.entries[e][3] ELSE 0])
      [] c.kind = "block" -> InBlock(c, i, j)

\* materialize_dense
Dense(c) ==
    [kind |-> "dense", rows |-> c.rows, columns |-> c.columns,
     weights |-> [n \in 1 .. c.rows * c.columns |->
                     Weight(c, ((n - 1) \div c.columns) + 1, ((n - 1) % c.columns) + 1)]]

\* exact_digest: a candidate that can be written out is its digest, and they are
\* in an order.
Place(c) == CHOOSE n \in DOMAIN Digests : Digests[n] = c

\* rank
RankOf(c) == IF c.kind = "low rank" THEN c.rank ELSE None

-----------------------------------------------------------------------------
(* The limits                                                                  *)

\* problem_limit
ProblemLimit(p, q) ==
    CASE Cases(p) > q.cases -> "cases"
      [] Inputs(p) > q.inputs -> "input dimension"
      [] Outputs(p) > q.outputs -> "output dimension"
      [] \E c \in 1 .. Cases(p) :
             \E v \in Range(p.inputs[c]) \union Range(p.targets[c]) :
                 Magnitude(v) > q.magnitude -> "absolute value"
      [] \E c \in 1 .. Cases(p) : \E v \in Range(p.inputs[c]) :
             v * v * Cases(p) * Inputs(p) > Largest -> "safe gram magnitude"
      [] Cases(p) * (Cases(p) + Inputs(p) + Outputs(p)) + Outputs(p) * Inputs(p)
             > q.working -> "working elements"
      [] OTHER -> None

\* external_proposal_limit
ExternalLimit(proposals, q) ==
    LET count == [i \in DOMAIN proposals |->
                     IF proposals[i].payload \in {"not applicable", "unknown"} THEN 0
                     ELSE Stored(proposals[i].candidate)]
    IN  IF Len(proposals) > q.externals THEN "external proposals"
        ELSE IF Sum(count) > q.parameters THEN "external parameters"
        ELSE None

\* single_candidate_evaluation_work_upper_bound
EvaluationWork(p) ==
    Outputs(p) * Inputs(p) * 8 + Cases(p) * Outputs(p) * (Inputs(p) + 1) * 8

\* direct_solver_work_upper_bound
DirectWork(p, q) ==
    LET n == Cases(p)  i == Inputs(p)  o == Outputs(p)
        components == IF i <= n THEN i ELSE n
        tall == IF i <= n THEN n ELSE i
        cap == IF q.maximum <= components THEN q.maximum ELSE components
        ranks == (cap * (cap + 1)) \div 2
    IN  q.sweeps * ((components * (components - 1)) \div 2) * (tall * 8 + components * 2 + 64)
        + ((components * (components + 1)) \div 2) * (i + n) * 4 + n * i * components * 4
        + ((n * (n + 1)) \div 2) * i * 4
        + ranks * (o * n + i) * 4 + ranks * o * i * 4
        + cap * EvaluationWork(p)
        + n * n * (i + o) * 8 + n * n * n * 8

-----------------------------------------------------------------------------
(* One candidate                                                               *)

Evaluation(role, status, reason, rank, candidate, metrics) ==
    [role |-> role, status |-> status, reason |-> reason, rank |-> rank,
     candidate |-> candidate, metrics |-> metrics]

\* measure_candidate: None, if it cannot be measured.
Measure(c, p) ==
    IF c.rows # Outputs(p) \/ c.columns # Inputs(p) \/ ~Canonical(c) THEN None
    ELSE LET dense == Dense(c)
             row(o) == SubSeq(dense.weights, (o - 1) * c.columns + 1, o * c.columns)
             residuals == FlattenSeq([n \in 1 .. Cases(p) |->
                 [o \in 1 .. Outputs(p) |-> Dot(row(o), p.inputs[n]) - p.targets[n][o]]])
             metrics == [residual |-> Norm(residuals), norm |-> Norm(dense.weights),
                         target |-> Norm(FlattenSeq(p.targets)), stored |-> Stored(c)]
         IN  IF \A f \in DOMAIN metrics : Finite(metrics[f]) THEN metrics ELSE None

\* The residual that is still accepted.
Threshold(metrics, q) == q.absolute + (q.relative * metrics.target) \div 100

\* What the metrics of a candidate say.
Judged(role, rank, c, q, metrics) ==
    IF metrics = None
    THEN Evaluation(role, "rejected", "invalid candidate", rank, None, None)
    ELSE IF ~Finite(Threshold(metrics, q))
    THEN Evaluation(role, "unknown", "tolerance unrepresentable", rank, c, metrics)
    ELSE IF metrics.residual <= Threshold(metrics, q)
    THEN Evaluation(role, "accepted", "within tolerance", rank, c, metrics)
    ELSE Evaluation(role, "rejected", "exceeds tolerance", rank, c, metrics)

\* evaluate_candidate
Evaluate(role, rank, c, p, q) ==
    IF Stored(c) > q.parameters
    THEN Evaluation(role, "unknown", "candidate parameters", rank, None, None)
    ELSE Judged(role, rank, c, q, Measure(c, p))

\* run_external
RunExternal(proposal, p, q) ==
    CASE proposal.payload = "candidate" ->
             IF EvaluationWork(p) > q.work
             THEN Evaluation("external", "unknown", "evaluation work",
                             RankOf(proposal.candidate), None, None)
             ELSE Evaluate("external", RankOf(proposal.candidate), proposal.candidate, p, q)
      [] proposal.payload = "not applicable" ->
             Evaluation("external", "rejected", "not applicable", None, None, None)
      [] proposal.payload = "unknown" ->
             Evaluation("external", "unknown", "backend unknown", None, None, None)

-----------------------------------------------------------------------------
(* The solvers of the portfolio                                                *)

\* compact_representation: the factors, where they are smaller.
Compact(c) ==
    IF Stored(c) < c.rows * c.columns \/ ~Canonical(c) THEN c ELSE Dense(c)

\* verify_direct_svd: orthonormal components that make up the inputs.
Verified(p) ==
    LET active == {k \in DOMAIN p.components : p.components[k].value > 0}
    IN  /\ \A k, l \in active :
               LET same == IF k = l THEN 1 ELSE 0
               IN  /\ Dot(p.components[k].input, p.components[l].input) = same
                   /\ Dot(p.components[k].case, p.components[l].case) = same
        /\ \A n \in 1 .. Cases(p), i \in 1 .. Inputs(p) :
               p.inputs[n][i] =
                   Sum([k \in DOMAIN p.components |->
                           p.components[k].value * p.components[k].case[n]
                               * p.components[k].input[i]])

\* direct_one_sided_jacobi_svd: None, where the sweeps do not suffice.
DirectSvd(p, q) ==
    IF p.sweeps > q.sweeps \/ ~Verified(p) THEN None
    ELSE SortSeq(p.components, LAMBDA k, l : k.value > l.value)

\* choose_energy_rank
EnergyRank(spectrum, energy, most, least) ==
    LET enough == {r \in 1 .. most :
            Sum(SubSeq(spectrum, 1, r)) * 100 >= energy * Sum(spectrum)}
        r == IF enough = {} THEN most ELSE Min(enough)
    IN  IF r < least THEN least ELSE r

\* diagnose_problem
Diagnose(p, svd, q) ==
    LET value == [k \in DOMAIN svd |-> svd[k].value]
        rank == Cardinality({k \in DOMAIN svd : value[k] * 100 > value[1] * q.tolerance})
        squares == [k \in DOMAIN svd |-> value[k] * value[k]]
    IN  [rank |-> rank,
         energy |-> IF rank = 0 THEN 0
                    ELSE EnergyRank(squares, q.energy, rank,
                                    IF q.minimum <= rank THEN q.minimum ELSE rank),
         kind |-> IF rank = 0 THEN "degenerate"
                  ELSE IF rank < Cases(p) THEN "rank deficient"
                  ELSE IF ~Finite(squares[1]) THEN "unrepresentable"
                  ELSE "finite",
         condition |-> IF rank = 0 THEN None ELSE squares[1] \div squares[rank]]

\* cholesky_eligibility, and float32_problem_is_safe
CholeskyGate(p, d, q) ==
    CASE Cases(p) < 2 -> "too few cases"
      [] Cases(p) > MaxLowRank -> "too many cases"
      [] d.kind \in {"degenerate", "rank deficient"} -> d.kind
      [] d.kind = "unrepresentable" \/ d.condition > q.condition -> "condition"
      [] p.single = FALSE -> "float32"
      [] OTHER -> "authorized"

\* run_cholesky
RunCholesky(p, d, q) ==
    LET gate == CholeskyGate(p, d, q)
    IN  IF gate # "authorized"
        THEN Evaluation("cholesky", "rejected", gate, None, None, None)
        ELSE IF p.ridge = None
        THEN Evaluation("cholesky", "rejected", "backend failure", None, None, None)
        ELSE Evaluate("cholesky", p.ridge.rank, Compact(p.ridge), p, q)

\* direct_svd_factors
Factors(p, svd, r) ==
    [kind |-> "low rank", rows |-> Outputs(p), columns |-> Inputs(p), rank |-> r,
     left |-> [n \in 1 .. Outputs(p) * r |->
                  LET o == ((n - 1) \div r) + 1  k == ((n - 1) % r) + 1
                  IN  Dot([c \in 1 .. Cases(p) |-> p.targets[c][o]], svd[k].case)
                          \div svd[k].value],
     right |-> FlattenSeq([k \in 1 .. r |-> svd[k].input])]

AtRank(p, svd, q, r) == Evaluate("direct", r, Compact(Factors(p, svd, r)), p, q)

\* One rank after the other, and the first that is accepted; otherwise the last.
FirstAccepted(results) ==
    LET accepted == {r \in DOMAIN results : results[r].status = "accepted"}
    IN  results[IF accepted = {} THEN Max(DOMAIN results) ELSE Min(accepted)]

Tried(p, svd, q, least, most) ==
    FirstAccepted([r \in least .. most |-> AtRank(p, svd, q, r)])

\* Mutant of RunDirect: ranks beyond the budget are not missed.
RejectAtRankBudget(p, svd, d, q) ==
    LET cap == IF d.rank <= q.maximum THEN d.rank ELSE q.maximum
    IN  IF d.rank = 0 \/ cap < d.energy \/ cap < q.minimum
        THEN Evaluation("direct", "unknown", "rank budget", cap, None, None)
        ELSE Tried(p, svd, q, IF d.energy < q.minimum THEN q.minimum ELSE d.energy, cap)

\* A result that is not accepted, where there were more ranks to try.
IfMissed(result, more) ==
    IF result.status # "accepted" /\ more
    THEN [result EXCEPT !.status = "unknown", !.reason = "rank budget"]
    ELSE result

\* run_direct_svd
RunDirect(p, svd, d, q) ==
    LET cap == IF d.rank <= q.maximum THEN d.rank ELSE q.maximum
        zero == [kind |-> "dense", rows |-> Outputs(p), columns |-> Inputs(p),
                 weights |-> [n \in 1 .. Outputs(p) * Inputs(p) |-> 0]]
    IN  IF d.rank = 0 THEN Evaluate("direct", 0, zero, p, q)
        ELSE IF cap < d.energy \/ cap < q.minimum
        THEN Evaluation("direct", "unknown", "rank budget", cap, None, None)
        ELSE IfMissed(
                 Tried(p, svd, q, IF d.energy < q.minimum THEN q.minimum ELSE d.energy, cap),
                 cap < d.rank)

-----------------------------------------------------------------------------
(* The verdict                                                                 *)

RoleOrder == [cholesky |-> 1, direct |-> 2, external |-> 3]

\* choose_accepted: by size, role, residual, norm, digest, and place.
Merit(evaluations, n) ==
    LET e == evaluations[n]
    IN  <<e.metrics.stored, RoleOrder[e.role], e.metrics.residual, e.metrics.norm,
          Place(e.candidate), n>>

Better(a, b) ==
    \E k \in DOMAIN a : a[k] < b[k] /\ \A j \in 1 .. k - 1 : a[j] = b[j]

With(evaluations, status) == {n \in DOMAIN evaluations : evaluations[n].status = status}

ChooseAccepted(evaluations) ==
    LET accepted == With(evaluations, "accepted")
    IN  IF accepted = {} THEN None
        ELSE CHOOSE n \in accepted :
                 \A m \in accepted \ {n} : Better(Merit(evaluations, n), Merit(evaluations, m))

\* aggregate_rejection_reason: the direct solver speaks for the portfolio.
RejectionReason(evaluations) ==
    LET direct == {n \in DOMAIN evaluations : evaluations[n].role = "direct"}
    IN  evaluations[Min(IF direct = {} THEN DOMAIN evaluations ELSE direct)].reason

Report(status, reason, evaluations, selected) ==
    [status |-> status, reason |-> reason, evaluations |-> evaluations,
     selected |-> selected]

\* What the evaluations come to.
Verdict(evaluations) ==
    LET selected == ChooseAccepted(evaluations)
        unknown == With(evaluations, "unknown")
    IN  IF selected # None
        THEN Report("accepted", evaluations[selected].reason, evaluations, selected)
        ELSE IF unknown # {}
        THEN Report("unknown", evaluations[Min(unknown)].reason, evaluations, None)
        ELSE Report("rejected", RejectionReason(evaluations), evaluations, None)

\* seal_with_unavailable_direct_solver
WithoutDirect(reason, outside) ==
    Verdict(<<Evaluation("direct", "unknown", reason, None, None, None)>> \o outside)

\* solve_with_portfolio
SolveWithPortfolio(p, q, proposals) ==
    LET refused == Report("unknown", "limit", <<>>, None)
        svd == DirectSvd(p, q)
        d == Diagnose(p, svd, q)
        outside == [i \in DOMAIN proposals |-> RunExternal(proposals[i], p, q)]
    IN  IF ProblemLimit(p, q) # None
        THEN [refused EXCEPT !.reason = ProblemLimit(p, q)]
        ELSE IF ExternalLimit(proposals, q) # None
        THEN [refused EXCEPT !.reason = ExternalLimit(proposals, q)]
        ELSE IF DirectWork(p, q) > q.work THEN WithoutDirect("svd work", outside)
        ELSE IF svd = None THEN WithoutDirect("not converged", outside)
        ELSE Verdict(<<RunCholesky(p, d, q), RunDirect(p, svd, d, q)>> \o outside)

\* projection: what the digest of a report is made of.
Projection(r) ==
    [status |-> r.status, reason |-> r.reason,
     evaluations |-> [e \in Range(r.evaluations) |->
                         Cardinality({n \in DOMAIN r.evaluations : r.evaluations[n] = e})],
     selected |-> IF r.selected = None THEN None ELSE r.evaluations[r.selected]]

\* canonical_observed_rejection
ObservedRejection(r) ==
    LET observed == {n \in With(r.evaluations, "rejected") : r.evaluations[n].candidate # None}
        direct == {n \in observed : r.evaluations[n].role = "direct"}
    IN  IF observed = {} THEN None
        ELSE IF direct # {} THEN r.evaluations[Min(direct)].candidate
        ELSE Digests[Min({Place(r.evaluations[n].candidate) : n \in observed})]

-----------------------------------------------------------------------------
(* A caller gathers proposals for a problem, in any order, and may ask at any   *)
(* time.                                                                        *)

Gathered(places) == [i \in DOMAIN places |-> Offers[task.problem][places[i]]]

Answer == SolveWithPortfolio(task.problem, task.policy, Gathered(offered))

PortfolioTypeOK ==
    /\ task \in Tasks /\ ValidProblem(task.problem) /\ ValidPolicy(task.policy)
    /\ offered \in Seq(DOMAIN Offers[task.problem]) /\ Len(offered) <= MaxOffers

PortfolioInit == task \in Tasks /\ offered = <<>>

Offer ==
    /\ Len(offered) < MaxOffers
    /\ \E n \in DOMAIN Offers[task.problem] : offered' = Append(offered, n)
    /\ UNCHANGED task

-----------------------------------------------------------------------------
\* The order of the proposals changes neither the verdict nor the candidate that
\* is selected or held to be rejected; if one is selected or all are rejected,
\* the report has the same digest in every order.
OrderIsIrrelevant ==
    \A answer \in {Answer},
       sorted \in {SolveWithPortfolio(task.problem, task.policy,
                       Gathered(SortSeq(offered, LAMBDA m, n : m < n)))} :
        /\ sorted.status = answer.status
        /\ ObservedRejection(sorted) = ObservedRejection(answer)
        /\ answer.status # "unknown" => Projection(sorted) = Projection(answer)

\* Limits hide an answer and never make another one: what is rejected under
\* narrow limits is rejected without them, and what is accepted accepted.
LimitsOnlyHide ==
    LET unlimited == SolveWithPortfolio(task.problem, Generous[task.policy], Gathered(offered))
    IN  Answer.status \in {"unknown", unlimited.status}

\* One proposal more never takes an accepted candidate away, nor brings a larger
\* one, unless there are more of them than the limits allow, and then nothing is
\* accepted at all.
ProposalsOnlyHelp ==
    offered # <<>> =>
        \A answer \in {Answer},
           before \in {SolveWithPortfolio(task.problem, task.policy,
                                           Gathered(Front(offered)))} :
            before.status = "accepted" /\ answer.evaluations # <<>> =>
                /\ answer.status = "accepted"
                /\ answer.evaluations[answer.selected].metrics.stored <=
                       before.evaluations[before.selected].metrics.stored
=============================================================================
