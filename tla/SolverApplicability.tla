------------------------- MODULE SolverApplicability -------------------------
(***************************************************************************)
(* Which solver configuration fits which numerical problem, and how alike    *)
(* two problems are (src/src/procedural_memory.rs): Applicability,           *)
(* SolverConfiguration and the similarity that decides what experience is    *)
(* transferred.  Fractions are in hundredths; None is "not measured", which  *)
(* is not zero.                                                              *)
(***************************************************************************)
EXTENDS Integers, FiniteSets, FiniteSetsExt

CONSTANTS
    None,
    MaxDimension,   \* MAX_MATRIX_DIMENSION
    MaxElements,    \* MAX_EXPLICIT_MATRIX_ELEMENTS
    MaxBlocks       \* MAX_BLOCKS

LimitsAssumption ==
    /\ MaxDimension \in Nat \ {0} /\ MaxElements \in Nat \ {0} /\ MaxBlocks \in Nat
    /\ None \notin Int

Statistics == {"condition", "outliers", "sparsity", "noise"}

MinDimension(x) == IF x.rows <= x.columns THEN x.rows ELSE x.columns

-----------------------------------------------------------------------------
(* Applicability::validate *)

ValidAxes(x) ==
    /\ x.rows \in 1 .. MaxDimension /\ x.columns \in 1 .. MaxDimension
    /\ x.rank # None => x.rank \in 0 .. MinDimension(x)
    /\ x.blocks \in 0 .. MaxBlocks /\ x.blocks <= x.columns

ValidStatistics(x) ==
    \A s \in Statistics :
        x.observed[s] # None =>
            x.observed[s] \in (IF s = "condition" THEN Nat ELSE 0 .. 100)

\* Blocks are counted exactly where the structure has them, and a matrix that
\* is written out is small.
ValidApplicability(x) ==
    /\ ValidAxes(x)
    /\ ValidStatistics(x)
    /\ (x.blocks > 0) <=> (x.structure \in {"blocks", "groups"})
    /\ x.structure # "operator" => x.rows * x.columns <= MaxElements

-----------------------------------------------------------------------------
(* SolverConfiguration: a record [family, kind, size, extra, regularization,  *)
(* tolerance, iterations], where size is the rank, the number of nonzeros,    *)
(* groups or blocks that the kind of parameters bounds.                       *)

Kind ==
    [cholesky |-> "low rank", randomized |-> "randomized", jacobi |-> "direct",
     qr |-> "direct", divided |-> "direct", lsqr |-> "iterative",
     lsmr |-> "iterative", robust |-> "robust", sparse |-> "sparse",
     groupSparse |-> "groups", blocks |-> "blocks", gradient |-> "full",
     orthogonalized |-> "full", external |-> "external", hybrid |-> "hybrid",
     software |-> "software"]

Sized == {"low rank", "randomized", "sparse", "groups", "blocks"}

ValidParameters(c) ==
    /\ c.kind = Kind[c.family]
    /\ c.kind \in Sized => c.size > 0
    /\ c.kind = "randomized" => c.extra > 0
    /\ c.kind = "sparse" => c.size <= MaxElements
    /\ c.kind \in {"groups", "blocks"} => c.size <= MaxBlocks

\* The families without a solver of their own have no controls either.
Uncontrolled == {"external", "hybrid", "software"}

ValidControls(c) ==
    /\ (c.regularization # None) <=> (c.family = "cholesky")
    /\ c.regularization # None => c.regularization > 0
    /\ (c.tolerance # None) <=> (c.family \notin Uncontrolled)
    /\ c.tolerance # None => c.tolerance > 0
    /\ (c.iterations # None) <=>
           (c.family \notin Uncontrolled \union {"cholesky", "qr", "divided"})
    /\ c.iterations # None => c.iterations > 0

ValidConfiguration(c) == ValidParameters(c) /\ ValidControls(c)

Rank(c) == IF c.kind \in {"low rank", "randomized"} THEN c.size ELSE None

-----------------------------------------------------------------------------
(* applicability_similarity *)

\* ProceduralRetrievalPolicy::current
WeightOf ==
    [rows |-> 12, columns |-> 12, rank |-> 16, condition |-> 16, outliers |-> 10,
     sparsity |-> 10, noise |-> 8, precision |-> 8, structure |-> 8]

Distance(m, n) == IF m <= n THEN n - m ELSE m - n

\* logarithmic_ratio, the square root of the ratio of the two.
LogarithmicRatio(m, n) ==
    LET ratio == (10000 * (IF m <= n THEN m ELSE n)) \div (IF m <= n THEN n ELSE m)
    IN CHOOSE r \in 0 .. 100 : r * r <= ratio /\ (r + 1) * (r + 1) > ratio

\* exp(-d / 2), in hundredths.
Decay(d) == IF d > 8 THEN 1
            ELSE [n \in 0 .. 8 |-> <<100, 61, 37, 22, 14, 8, 5, 3, 2>>[n + 1]][d]

\* ratio_similarity
RatioSimilarity(l, r) ==
    100 - Distance((100 * l.rank) \div MinDimension(l), (100 * r.rank) \div MinDimension(r))

\* add_optional_unit_similarity: nothing, where either is not measured.
StatisticScore(l, r, s) ==
    IF l.observed[s] = None \/ r.observed[s] = None THEN 0
    ELSE IF s = "condition" THEN Decay(Distance(l.observed[s], r.observed[s]))
    ELSE 100 - Distance(l.observed[s], r.observed[s])

Score(l, r, feature) ==
    CASE feature = "rows" -> LogarithmicRatio(l.rows, r.rows)
      [] feature = "columns" -> LogarithmicRatio(l.columns, r.columns)
      [] feature = "rank" ->
             IF l.rank = None \/ r.rank = None THEN 0 ELSE RatioSimilarity(l, r)
      [] feature = "precision" -> IF l.precision = r.precision THEN 100 ELSE 0
      [] feature = "structure" -> IF l.structure = r.structure THEN 100 ELSE 0
      [] OTHER -> StatisticScore(l, r, feature)

\* Mutant of TotalWeight: only the features that were measured are counted.
TotalWeightOfKnown(l, r) ==
    MapThenSumSet(LAMBDA f : WeightOf[f],
        {f \in DOMAIN WeightOf :
            /\ f \in Statistics => l.observed[f] # None /\ r.observed[f] # None
            /\ f = "rank" => l.rank # None /\ r.rank # None})

TotalWeight(l, r) == MapThenSumSet(LAMBDA f : WeightOf[f], DOMAIN WeightOf)

Similarity(l, r) ==
    IF l.semantics # r.semantics THEN 0
    ELSE MapThenSumSet(LAMBDA f : WeightOf[f] * Score(l, r, f), DOMAIN WeightOf)
             \div TotalWeight(l, r)
=============================================================================
