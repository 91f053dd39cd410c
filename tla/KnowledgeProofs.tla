---------------------------- MODULE KnowledgeProofs ----------------------------
(***************************************************************************)
(* Proofs about the knowledge engine and the plan of trials: that a plan     *)
(* keeps its reserve and covers everybody, that the canonical lineage only   *)
(* grows, that every receipt the engine issued can be applied, and that a    *)
(* complete inquiry rests on what was observed.                              *)
(***************************************************************************)
EXTENDS MCKnowledge, FiniteSetTheorems, WellFoundedInduction, TLAPS

-----------------------------------------------------------------------------
(* Numbers and finite sets.                                                  *)

\* A set of numbers has a least one: the finite subsets of Nat are well
\* founded under inclusion.
LEMMA LeastNumber ==
    ASSUME NEW S \in SUBSET Nat, S # {}
    PROVE  \E n \in S : \A k \in S : n <= k
<1> DEFINE T == {0 .. n : n \in S}
           R0 == StrictSubsetOrdering(Nat)
<1>1. T \subseteq FiniteSubsetsOf(Nat) /\ T # {}
  <2>1. ASSUME NEW n \in S PROVE 0 .. n \in FiniteSubsetsOf(Nat)
    <3>1. IsFiniteSet(0 .. n) /\ 0 .. n \in SUBSET Nat
        BY FS_Interval
    <3> QED BY <3>1 DEF FiniteSubsetsOf
  <2> QED BY <2>1
<1>2. IsWellFoundedOn(R0, FiniteSubsetsOf(Nat))
    BY FS_StrictSubsetOrderingWellFounded
<1> HIDE DEF R0
<1>3. PICK x \in T : \A y \in T : <<y, x>> \notin R0
  <2> HIDE DEF T
  <2> QED BY <1>1, <1>2, WFMin
<1>4. PICK n \in S : x = 0 .. n
    BY <1>3
<1>5. ASSUME NEW k \in S, k < n PROVE FALSE
  <2>1. 0 .. k \subseteq 0 .. n /\ n \in 0 .. n /\ n \notin 0 .. k
      BY <1>5
  <2>2. 0 .. k \in SUBSET Nat /\ 0 .. n \in SUBSET Nat
      OBVIOUS
  <2>3. <<0 .. k, 0 .. n>> \in R0
      BY <2>1, <2>2 DEF R0, StrictSubsetOrdering
  <2> QED BY <2>3, <1>3, <1>4
<1> QED BY <1>5

\* What holds of the empty set, and of a set when it holds of every set with one
\* element less, holds of all subsets of a finite set.
LEMMA SubsetsReached ==
    ASSUME NEW D, IsFiniteSet(D), NEW Good \in SUBSET (SUBSET D), {} \in Good,
           \A s \in SUBSET D : s # {} /\ (\A x \in s : s \ {x} \in Good) => s \in Good
    PROVE  Good = SUBSET D
<1> SUFFICES ASSUME (SUBSET D) \ Good # {} PROVE FALSE
    OBVIOUS
<1> DEFINE Sizes == {Cardinality(s) : s \in (SUBSET D) \ Good}
<1>1. \A s \in SUBSET D : IsFiniteSet(s) /\ Cardinality(s) \in Nat
    BY FS_Subset, FS_CardinalityType
<1>2. \E n \in Sizes : \A k \in Sizes : n <= k
  <2>1. Sizes \in SUBSET Nat /\ Sizes # {}
      BY <1>1
  <2> HIDE DEF Sizes
  <2> QED BY <2>1, LeastNumber
<1>3. PICK s \in (SUBSET D) \ Good : \A t \in (SUBSET D) \ Good : Cardinality(s) <= Cardinality(t)
    BY <1>2
<1> HIDE DEF Sizes
<1>4. s \in SUBSET D /\ s \notin Good /\ s # {}
    BY <1>3
<1>5. ASSUME NEW x \in s PROVE s \ {x} \in Good
  <2>1. Cardinality(s \ {x}) = Cardinality(s) - 1
      BY <1>1, FS_RemoveElement
  <2>2. s \ {x} \in SUBSET D /\ Cardinality(s) \in Nat
      BY <1>1
  <2>3. ~(Cardinality(s) <= Cardinality(s \ {x}))
      BY <2>1, <2>2
  <2> QED BY <2>2, <2>3, <1>3
<1> QED BY <1>4, <1>5

-----------------------------------------------------------------------------
(* Sums.  The value a sum takes over a set is found element by element; that  *)
(* there is a function that tells it of every subset is shown by the number    *)
(* of elements.                                                              *)

Picked(s) == CHOOSE x \in s : TRUE

\* g tells the sum of f over each set of S.
TellsSums(f, g, S) ==
    g = [s \in S |-> IF s = {} THEN 0 ELSE f[Picked(s)] + g[s \ {Picked(s)}]]

UpTo(D, n) == {s \in SUBSET D : Cardinality(s) <= n}

\* What is true of UpTo(D, 0), and of the next where it is true of one, is true of
\* all subsets; the numbers for which it is true are a set.
LEMMA SizesReached ==
    ASSUME NEW D, IsFiniteSet(D), NEW Good \in SUBSET Nat, 0 \in Good,
           \A n \in Good : n + 1 \in Good
    PROVE  \E n \in Good : UpTo(D, n) = SUBSET D
<1>1. Cardinality(D) \in Nat
    BY FS_CardinalityType
<1>2. Nat \ Good = {}
  <2> SUFFICES ASSUME Nat \ Good # {} PROVE FALSE
      OBVIOUS
  <2> DEFINE Rest == Nat \ Good
  <2>1. PICK n \in Rest : \A k \in Rest : n <= k
    <3>1. Rest \in SUBSET Nat /\ Rest # {}
        OBVIOUS
    <3> HIDE DEF Rest
    <3> QED BY <3>1, LeastNumber
  <2>2. n # 0 /\ n - 1 \in Nat /\ n - 1 \notin Rest
      BY <2>1
  <2> QED BY <2>1, <2>2
<1>3. \A s \in SUBSET D : Cardinality(s) <= Cardinality(D)
    BY FS_Subset
<1>4. UpTo(D, Cardinality(D)) = SUBSET D
    BY <1>3 DEF UpTo
<1> QED BY <1>1, <1>2, <1>4

LEMMA PickedOne ==
    ASSUME NEW D, IsFiniteSet(D), NEW s \in SUBSET D
    PROVE  /\ IsFiniteSet(s) /\ Cardinality(s) \in Nat
           /\ s = {} <=> Cardinality(s) = 0
           /\ \A x \in s : /\ s \ {x} \in SUBSET D
                           /\ Cardinality(s \ {x}) = Cardinality(s) - 1
           /\ s # {} => Picked(s) \in s
<1>1. IsFiniteSet(s)
    BY FS_Subset
<1>2. Cardinality(s) \in Nat /\ (s = {} <=> Cardinality(s) = 0)
    BY <1>1, FS_CardinalityType, FS_EmptySet
<1>3. s # {} => Picked(s) \in s
    BY DEF Picked
<1>4. \A x \in s : Cardinality(s \ {x}) = Cardinality(s) - 1
    BY <1>1, FS_RemoveElement
<1> QED BY <1>1, <1>2, <1>3, <1>4

LEMMA SumsFurther ==
    ASSUME NEW D, IsFiniteSet(D), NEW f, NEW n \in Nat, NEW g, TellsSums(f, g, UpTo(D, n))
    PROVE  \E h : TellsSums(f, h, UpTo(D, n + 1))
<1> DEFINE h == [s \in UpTo(D, n + 1) |->
                    IF s = {} THEN 0 ELSE f[Picked(s)] + g[s \ {Picked(s)}]]
<1>1. ASSUME NEW s \in UpTo(D, n) PROVE s \in UpTo(D, n + 1) /\ h[s] = g[s]
  <2>1. s \in SUBSET D /\ Cardinality(s) <= n /\ Cardinality(s) \in Nat
      BY PickedOne DEF UpTo
  <2>2. s \in UpTo(D, n + 1)
      BY <2>1 DEF UpTo
  <2> QED BY <2>2 DEF TellsSums
<1>2. ASSUME NEW s \in UpTo(D, n + 1), s # {} PROVE s \ {Picked(s)} \in UpTo(D, n)
    BY <1>2, PickedOne DEF UpTo
<1>3. h = [s \in UpTo(D, n + 1) |->
              IF s = {} THEN 0 ELSE f[Picked(s)] + h[s \ {Picked(s)}]]
  <2>1. ASSUME NEW s \in UpTo(D, n + 1), s # {}
        PROVE  h[s \ {Picked(s)}] = g[s \ {Picked(s)}]
      BY <2>1, <1>1, <1>2
  <2> QED BY <2>1
<1> HIDE DEF h
<1> QED BY <1>3 DEF TellsSums

LEMMA NothingLeft ==
    ASSUME NEW D, IsFiniteSet(D), NEW s \in UpTo(D, 0)
    PROVE  s = {}
<1>1. s \in SUBSET D /\ Cardinality(s) <= 0
    BY DEF UpTo
<1>2. Cardinality(s) \in Nat /\ (s = {} <=> Cardinality(s) = 0)
    BY <1>1, PickedOne
<1> QED BY <1>1, <1>2

LEMMA SumsTold ==
    ASSUME NEW D, IsFiniteSet(D), NEW f
    PROVE  \E g : TellsSums(f, g, SUBSET D)
<1> DEFINE Good == {n \in Nat : \E g : TellsSums(f, g, UpTo(D, n))}
<1>1. 0 \in Good
  <2> DEFINE g == [s \in UpTo(D, 0) |-> 0]
  <2>1. g = [s \in UpTo(D, 0) |-> IF s = {} THEN 0 ELSE f[Picked(s)] + g[s \ {Picked(s)}]]
      BY NothingLeft
  <2> HIDE DEF g
  <2> QED BY <2>1 DEF TellsSums
<1>2. \A n \in Good : n + 1 \in Good
    BY SumsFurther
<1>3. Good \in SUBSET Nat
    OBVIOUS
<1>4. PICK n \in Good : UpTo(D, n) = SUBSET D
  <2> HIDE DEF Good
  <2> QED BY <1>1, <1>2, <1>3, SizesReached
<1> QED BY <1>4

\* So the sum of a function of a finite domain is what such a function tells.
LEMMA TotalTold ==
    ASSUME NEW f, IsFiniteSet(DOMAIN f)
    PROVE  \E g : TellsSums(f, g, SUBSET DOMAIN f) /\ Planning!SumFunction(f) = g[DOMAIN f]
<1> DEFINE g == CHOOSE g : TellsSums(f, g, SUBSET DOMAIN f)
<1>1. TellsSums(f, g, SUBSET DOMAIN f)
    BY SumsTold
<1>2. Planning!SumFunction(f) =
        LET it[s \in SUBSET DOMAIN f] ==
                IF s = {} THEN 0
                ELSE f[CHOOSE x \in s : TRUE] + it[s \ {CHOOSE x \in s : TRUE}]
        IN  it[DOMAIN f]
    BY DEF Planning!SumFunction, Planning!SumFunctionOnSet, Planning!FoldFunctionOnSet,
           Planning!MapThenFoldSet
<1>3. g = CHOOSE h : h = [s \in SUBSET DOMAIN f |->
              IF s = {} THEN 0
              ELSE f[CHOOSE x \in s : TRUE] + h[s \ {CHOOSE x \in s : TRUE}]]
    BY DEF TellsSums, Picked
<1>4. Planning!SumFunction(f) = g[DOMAIN f]
    BY <1>2, <1>3
<1> QED BY <1>1, <1>4

Unfolds(f, F, s) ==
    /\ F[s] \in Int
    /\ s = {} => F[s] = 0
    /\ s # {} => Picked(s) \in s /\ F[s] = f[Picked(s)] + F[s \ {Picked(s)}]

LEMMA SumsUnfold ==
    ASSUME NEW D, IsFiniteSet(D), NEW f \in [D -> Int], NEW F, TellsSums(f, F, SUBSET D)
    PROVE  \A s \in SUBSET D : Unfolds(f, F, s)
<1> DEFINE Good == {s \in SUBSET D : F[s] \in Int}
<1>1. ASSUME NEW s \in SUBSET D
      PROVE  /\ s = {} => F[s] = 0
             /\ s # {} => Picked(s) \in s /\ F[s] = f[Picked(s)] + F[s \ {Picked(s)}]
  <2>1. F[s] = IF s = {} THEN 0 ELSE f[Picked(s)] + F[s \ {Picked(s)}]
      BY DEF TellsSums
  <2>2. s # {} => Picked(s) \in s
      BY PickedOne
  <2> QED BY <2>1, <2>2
<1>2. {} \in Good
  <2>1. {} \in SUBSET D /\ F[{}] = 0
      BY <1>1
  <2> QED BY <2>1
<1>3. ASSUME NEW s \in SUBSET D, s # {}, \A x \in s : s \ {x} \in Good PROVE s \in Good
  <2>1. Picked(s) \in s /\ F[s] = f[Picked(s)] + F[s \ {Picked(s)}]
      BY <1>1, <1>3
  <2>2. f[Picked(s)] \in Int /\ F[s \ {Picked(s)}] \in Int
      BY <2>1, <1>3
  <2> QED BY <2>1, <2>2
<1>4. Good = SUBSET D
  <2>1. Good \in SUBSET (SUBSET D)
      OBVIOUS
  <2> HIDE DEF Good
  <2> QED BY <2>1, <1>2, <1>3, SubsetsReached
<1> QED BY <1>1, <1>4 DEF Unfolds

\* Of two functions the one that is nowhere less sums to no less.
LEMMA TotalsCompare ==
    ASSUME NEW D, IsFiniteSet(D), NEW f \in [D -> Int], NEW h \in [D -> Int],
           \A x \in D : f[x] >= h[x]
    PROVE  /\ Planning!SumFunction(f) \in Int /\ Planning!SumFunction(h) \in Int
           /\ Planning!SumFunction(f) >= Planning!SumFunction(h)
<1>1. DOMAIN f = D /\ DOMAIN h = D
    OBVIOUS
<1>2. PICK F : TellsSums(f, F, SUBSET D) /\ Planning!SumFunction(f) = F[D]
    BY <1>1, TotalTold
<1>3. PICK H : TellsSums(h, H, SUBSET D) /\ Planning!SumFunction(h) = H[D]
    BY <1>1, TotalTold
<1> DEFINE Good == {s \in SUBSET D : F[s] >= H[s]}
<1>4. \A s \in SUBSET D : Unfolds(f, F, s)
    BY <1>2, SumsUnfold
<1>8. \A s \in SUBSET D : Unfolds(h, H, s)
    BY <1>3, SumsUnfold
<1>5. {} \in Good
  <2>1. {} \in SUBSET D /\ F[{}] = 0 /\ H[{}] = 0
      BY <1>4, <1>8 DEF Unfolds
  <2> QED BY <2>1
<1>6. ASSUME NEW s \in SUBSET D, s # {}, \A x \in s : s \ {x} \in Good PROVE s \in Good
  <2> DEFINE x == Picked(s)
  <2>1. x \in s /\ F[s] = f[x] + F[s \ {x}] /\ H[s] = h[x] + H[s \ {x}]
      BY <1>4, <1>8, <1>6 DEF Unfolds
  <2> HIDE DEF x
  <2>2. F[s \ {x}] >= H[s \ {x}] /\ F[s \ {x}] \in Int /\ H[s \ {x}] \in Int
      BY <2>1, <1>6, <1>4, <1>8 DEF Unfolds
  <2>3. f[x] >= h[x] /\ f[x] \in Int /\ h[x] \in Int
      BY <2>1
  <2> QED BY <2>1, <2>2, <2>3
<1>7. Good = SUBSET D
  <2>1. Good \in SUBSET (SUBSET D)
      OBVIOUS
  <2> HIDE DEF Good
  <2> QED BY <2>1, <1>5, <1>6, SubsetsReached
<1>9. D \in SUBSET D /\ F[D] >= H[D]
    BY <1>7
<1>10. F[D] \in Int /\ H[D] \in Int
    BY <1>4, <1>8, <1>9 DEF Unfolds
<1> QED BY <1>2, <1>3, <1>9, <1>10

\* A function that is k more at one place sums to k more.
LEMMA TotalWithOneMore ==
    ASSUME NEW D, IsFiniteSet(D), NEW f \in [D -> Int], NEW h \in [D -> Int],
           NEW a \in D, NEW k \in Int, f[a] = h[a] + k, \A x \in D \ {a} : f[x] = h[x]
    PROVE  Planning!SumFunction(f) = Planning!SumFunction(h) + k
<1>1. DOMAIN f = D /\ DOMAIN h = D
    OBVIOUS
<1>2. PICK F : TellsSums(f, F, SUBSET D) /\ Planning!SumFunction(f) = F[D]
    BY <1>1, TotalTold
<1>3. PICK H : TellsSums(h, H, SUBSET D) /\ Planning!SumFunction(h) = H[D]
    BY <1>1, TotalTold
<1> DEFINE Good == {s \in SUBSET D : F[s] = H[s] + (IF a \in s THEN k ELSE 0)}
<1>4. \A s \in SUBSET D : Unfolds(f, F, s)
    BY <1>2, SumsUnfold
<1>8. \A s \in SUBSET D : Unfolds(h, H, s)
    BY <1>3, SumsUnfold
<1>5. {} \in Good
  <2>1. {} \in SUBSET D /\ F[{}] = 0 /\ H[{}] = 0
      BY <1>4, <1>8 DEF Unfolds
  <2> QED BY <2>1
<1>6. ASSUME NEW s \in SUBSET D, s # {}, \A x \in s : s \ {x} \in Good PROVE s \in Good
  <2> DEFINE x == Picked(s)
  <2>1. x \in s /\ F[s] = f[x] + F[s \ {x}] /\ H[s] = h[x] + H[s \ {x}]
      BY <1>4, <1>8, <1>6 DEF Unfolds
  <2> HIDE DEF x
  <2>2. /\ F[s \ {x}] = H[s \ {x}] + (IF a \in s \ {x} THEN k ELSE 0)
        /\ F[s \ {x}] \in Int /\ H[s \ {x}] \in Int
      BY <2>1, <1>6, <1>4, <1>8 DEF Unfolds
  <2>3. f[x] = h[x] + (IF x = a THEN k ELSE 0) /\ f[x] \in Int /\ h[x] \in Int
      BY <2>1
  <2> QED BY <2>1, <2>2, <2>3
<1>7. Good = SUBSET D
  <2>1. Good \in SUBSET (SUBSET D)
      OBVIOUS
  <2> HIDE DEF Good
  <2> QED BY <2>1, <1>5, <1>6, SubsetsReached
<1> QED BY <1>2, <1>3, <1>4, <1>8, <1>7 DEF Unfolds

\* A constant function sums to as many times the constant as there are places.
LEMMA TotalOfConstant ==
    ASSUME NEW D, IsFiniteSet(D), NEW k \in Nat
    PROVE  Planning!SumFunction([x \in D |-> k]) = Cardinality(D) * k
<1> DEFINE f == [x \in D |-> k]
<1>1. DOMAIN f = D /\ f \in [D -> Int] /\ \A x \in D : f[x] = k
    OBVIOUS
<1> HIDE DEF f
<1>2. PICK F : TellsSums(f, F, SUBSET D) /\ Planning!SumFunction(f) = F[D]
    BY <1>1, TotalTold
<1> DEFINE Good == {s \in SUBSET D : F[s] = Cardinality(s) * k}
<1>3. {} \in Good
  <2>1. F[{}] = 0 /\ Cardinality({}) = 0
      BY <1>1, <1>2, SumsUnfold, FS_EmptySet DEF Unfolds
  <2> QED BY <2>1
<1>4. ASSUME NEW s \in SUBSET D, s # {}, \A x \in s : s \ {x} \in Good PROVE s \in Good
  <2> DEFINE x == Picked(s)
  <2>1. x \in s /\ F[s] = f[x] + F[s \ {x}]
      BY <1>1, <1>2, <1>4, SumsUnfold DEF Unfolds
  <2> HIDE DEF x
  <2>2. /\ Cardinality(s) \in Nat /\ Cardinality(s) # 0
        /\ Cardinality(s \ {x}) = Cardinality(s) - 1
      BY <2>1, <1>4, PickedOne
  <2>3. F[s \ {x}] = (Cardinality(s) - 1) * k /\ f[x] = k
      BY <2>1, <2>2, <1>1, <1>4
  <2>4. (Cardinality(s) - 1) * k + k = Cardinality(s) * k
      BY <2>2
  <2>5. (Cardinality(s) - 1) * k \in Int
      BY <2>2
  <2>6. F[s] = Cardinality(s) * k
      BY <2>1, <2>3, <2>4, <2>5
  <2> QED BY <2>6
<1>5. Good = SUBSET D
  <2>1. Good \in SUBSET (SUBSET D)
      OBVIOUS
  <2> HIDE DEF Good
  <2> QED BY <2>1, <1>3, <1>4, SubsetsReached
<1> QED BY <1>2, <1>5 DEF f

-----------------------------------------------------------------------------
(* The plan of trials.                                                       *)

Trials == [candidate : Candidates, ordinal : Nat, reason : {"coverage", "score"}]
Counts == [c \in Candidates |-> Planning!Planned(c)]
Costs == [c \in Candidates |-> plan.cost[c] * Planning!Planned(c)]

\* What holds at every step of a plan: what was consumed and how many trials
\* there are is what the trials of each candidate say; a plan that was begun was
\* feasible; its first phase stays within the mandatory trials and its second
\* within the budget that is left.
PlanInv ==
    /\ plan \in Plans
    /\ phase \in {"started", "covering", "exploiting", "planned", "refused"}
    /\ allocations \in Seq(Trials)
    /\ consumed = Planning!SumFunction(Costs)
    /\ Len(allocations) = Planning!SumFunction(Counts)
    /\ phase \in {"started", "refused"} => allocations = <<>>
    /\ phase \in {"covering", "exploiting", "planned"} => Planning!Feasible
    /\ phase = "covering" =>
           \A c \in Candidates :
               /\ Planning!Planned(c) <= plan.least
               /\ \A d \in Candidates : Planning!Planned(c) <= Planning!Planned(d) + 1
    /\ phase \in {"exploiting", "planned"} =>
           \A c \in Candidates : Planning!Planned(c) \in plan.least .. plan.most[c]
    /\ consumed <= Planning!Allocatable
    /\ Len(allocations) <= plan.trials
    /\ phase = "planned" =>
           \/ Len(allocations) >= plan.trials
           \/ \A c \in Candidates : ~Planning!Viable(c)

LEMMA PlanTypes ==
    ASSUME NEW x \in Plans
    PROVE  /\ IsFiniteSet(Candidates)
           /\ x.reserve \in Nat /\ x.total \in Nat /\ x.reserve < x.total
           /\ x.least \in Nat \ {0} /\ x.trials \in Nat \ {0}
           /\ \A c \in Candidates :
                  x.cost[c] \in Nat \ {0} /\ x.most[c] \in Nat /\ x.most[c] >= x.least
BY Instances DEF Planning!PlansAssumption, Planning!IsFiniteSet, IsFiniteSet

\* The cardinality that AdaptiveBudget sees is the one seen here.
LEMMA CountsAgree == \A S : Planning!Cardinality(S) = Cardinality(S)
BY DEF Planning!Cardinality, Cardinality

\* How many trials each candidate has is a function of the candidates.
LEMMA CountsType ==
    ASSUME PlanInv
    PROVE  /\ \A c \in Candidates : Planning!Planned(c) \in Nat
           /\ Counts \in [Candidates -> Int]
           /\ Costs \in [Candidates -> Int]
<1>1. ASSUME NEW c \in Candidates PROVE Planning!Planned(c) \in Nat
  <2> DEFINE S == {i \in DOMAIN allocations : allocations[i].candidate = c}
  <2>1. IsFiniteSet(1 .. Len(allocations)) /\ S \in SUBSET (1 .. Len(allocations))
      BY FS_Interval DEF PlanInv
  <2> HIDE DEF S
  <2>2. Cardinality(S) \in Nat
      BY <2>1, FS_Subset, FS_CardinalityType
  <2> QED BY <2>2, CountsAgree DEF Planning!Planned, S
<1>2. \A c \in Candidates : plan.cost[c] \in Nat
    BY PlanTypes DEF PlanInv
<1>3. \A c \in Candidates : plan.cost[c] * Planning!Planned(c) \in Int
    BY <1>1, <1>2
<1> QED BY <1>1, <1>3 DEF Counts, Costs

\* One more trial counts for its candidate and for no other, and consumes what
\* the candidate costs.
LEMMA CountsAfter ==
    ASSUME PlanInv, NEW c \in Candidates, NEW reason \in {"coverage", "score"},
           Planning!Allocate(c, reason)
    PROVE  /\ allocations' \in Seq(Trials)
           /\ Len(allocations') = Len(allocations) + 1
           /\ \A d \in Candidates :
                  Planning!Planned(d)' = Planning!Planned(d) + (IF d = c THEN 1 ELSE 0)
           /\ Counts' \in [Candidates -> Int] /\ Costs' \in [Candidates -> Int]
           /\ consumed' = Planning!SumFunction(Costs')
           /\ Len(allocations') = Planning!SumFunction(Counts')
           /\ plan' = plan /\ consumed' = consumed + plan.cost[c]
<1> DEFINE t == [candidate |-> c, ordinal |-> Planning!Planned(c), reason |-> reason]
<1>0. plan' = plan /\ consumed' = consumed + plan.cost[c] /\ allocations' = Append(allocations, t)
    BY DEF Planning!Allocate
<1>1. t \in Trials /\ allocations \in Seq(Trials) /\ t.candidate = c
    BY CountsType DEF Trials, PlanInv
<1> HIDE DEF t
<1>2. /\ allocations' \in Seq(Trials)
      /\ Len(allocations') = Len(allocations) + 1
      /\ Len(allocations) \in Nat
      /\ DOMAIN allocations = 1 .. Len(allocations)
      /\ DOMAIN allocations' = 1 .. (Len(allocations) + 1)
      /\ \A i \in 1 .. Len(allocations) : allocations'[i] = allocations[i]
      /\ allocations'[Len(allocations) + 1] = t
    BY <1>0, <1>1
<1>3. ASSUME NEW d \in Candidates
      PROVE  Planning!Planned(d)' = Planning!Planned(d) + (IF d = c THEN 1 ELSE 0)
  <2> DEFINE n == Len(allocations) + 1
             S == {i \in DOMAIN allocations : allocations[i].candidate = d}
             T == {i \in DOMAIN allocations' : allocations'[i].candidate = d}
  <2>1. IsFiniteSet(S)
    <3>1. IsFiniteSet(1 .. Len(allocations)) /\ S \in SUBSET (1 .. Len(allocations))
        BY <1>2, FS_Interval
    <3> HIDE DEF S
    <3> QED BY <3>1, FS_Subset
  <2>2. n \notin S
      BY <1>2
  <2>3. T = IF d = c THEN S \union {n} ELSE S
      BY <1>1, <1>2
  <2> HIDE DEF S, T
  <2>4. Cardinality(S) \in Nat /\ Cardinality(S \union {n}) = Cardinality(S) + 1
      BY <2>1, <2>2, FS_CardinalityType, FS_AddElement
  <2>5. Cardinality(T) = Cardinality(S) + (IF d = c THEN 1 ELSE 0)
      BY <2>3, <2>4
  <2> QED BY <2>5, CountsAgree DEF Planning!Planned, S, T
<1>4. \A d \in Candidates : Planning!Planned(d) \in Nat /\ plan.cost[d] \in Nat
    BY CountsType, PlanTypes DEF PlanInv
<1>5. Counts \in [Candidates -> Int] /\ Costs \in [Candidates -> Int] /\ IsFiniteSet(Candidates)
    BY CountsType, PlanTypes DEF PlanInv
<1>6. /\ Counts' \in [Candidates -> Int]
      /\ Counts'[c] = Counts[c] + 1
      /\ \A d \in Candidates \ {c} : Counts'[d] = Counts[d]
    BY <1>3, <1>4 DEF Counts
<1>7. /\ Costs' \in [Candidates -> Int]
      /\ Costs'[c] = Costs[c] + plan.cost[c]
      /\ \A d \in Candidates \ {c} : Costs'[d] = Costs[d]
  <2>1. ASSUME NEW d \in Candidates
        PROVE  /\ Costs'[d] = plan.cost[d] * (Planning!Planned(d) + (IF d = c THEN 1 ELSE 0))
               /\ Costs[d] = plan.cost[d] * Planning!Planned(d)
      BY <1>0, <1>3 DEF Costs
  <2>2. ASSUME NEW d \in Candidates
        PROVE  /\ Costs'[d] = Costs[d] + (IF d = c THEN plan.cost[d] ELSE 0)
               /\ Costs'[d] \in Int
    <3>1. \A a, b \in Nat : a * (b + 1) = a * b + a /\ a * (b + 0) = a * b + 0 /\ a * b \in Nat
        OBVIOUS
    <3> QED BY <2>1, <3>1, <1>4
  <2>3. Costs' = [d \in Candidates |-> Costs'[d]]
      BY DEF Costs
  <2>4. Costs' \in [Candidates -> Int]
      BY <2>2, <2>3
  <2>5. \A d \in Candidates : Costs[d] \in Int
      BY <1>5
  <2> QED BY <2>2, <2>4, <2>5
<1>8. Planning!SumFunction(Counts') = Planning!SumFunction(Counts) + 1
    BY <1>5, <1>6, TotalWithOneMore
<1>9. Planning!SumFunction(Costs') = Planning!SumFunction(Costs) + plan.cost[c]
  <2>1. plan.cost[c] \in Int
      BY <1>4
  <2> HIDE DEF Costs
  <2> QED BY <2>1, <1>5, <1>7, TotalWithOneMore
<1> QED BY <1>0, <1>2, <1>3, <1>6, <1>7, <1>8, <1>9 DEF PlanInv

LEMMA PlanInit ==
    ASSUME Planning!Init PROVE PlanInv
<1> USE DEF Planning!Init
<1>1. /\ IsFiniteSet(Candidates) /\ plan.reserve \in Nat /\ plan.total \in Nat
      /\ plan.reserve < plan.total /\ plan.trials \in Nat
      /\ \A c \in Candidates : plan.cost[c] \in Nat
    BY PlanTypes
<1>2. \A c \in Candidates : Planning!Planned(c) = 0
  <2>1. \A c \in Candidates : {i \in DOMAIN allocations : allocations[i].candidate = c} = {}
      OBVIOUS
  <2> QED BY <2>1, FS_EmptySet, CountsAgree DEF Planning!Planned
<1>3. Counts = [c \in Candidates |-> 0]
    BY <1>2 DEF Counts
<1>4. Costs = [c \in Candidates |-> 0]
    BY <1>1, <1>2 DEF Costs
<1>5. Planning!SumFunction([c \in Candidates |-> 0]) = Cardinality(Candidates) * 0
    BY <1>1, TotalOfConstant
<1>6. Cardinality(Candidates) * 0 = 0
    BY <1>1, FS_CardinalityType
<1>7. consumed = 0 /\ Len(allocations) = 0 /\ allocations \in Seq(Trials)
    OBVIOUS
<1> QED BY <1>1, <1>3, <1>4, <1>5, <1>6, <1>7 DEF PlanInv, Planning!Allocatable

LEMMA PlanStutters ==
    ASSUME PlanInv, UNCHANGED budget PROVE PlanInv'
BY DEF PlanInv, budget, Counts, Costs, Trials, Planning!Planned, Planning!Feasible,
       Planning!MandatoryCost, Planning!Allocatable, Planning!Viable

\* Within the mandatory trials everything fits.
LEMMA CoverageFits ==
    ASSUME PlanInv, NEW c \in Candidates, Planning!Cover(c)
    PROVE  /\ consumed' <= Planning!Allocatable
           /\ Len(allocations') <= plan.trials
           /\ \A d \in Candidates : Planning!Planned(d)' <= plan.least
<1>1. Planning!Allocate(c, "coverage") /\ phase = "covering" /\ Planning!Planned(c) < plan.least
    BY DEF Planning!Cover
<1>2. /\ IsFiniteSet(Candidates) /\ plan.least \in Nat /\ plan.trials \in Nat
      /\ plan.reserve \in Nat /\ plan.total \in Nat
      /\ \A d \in Candidates : plan.cost[d] \in Nat
    BY PlanTypes DEF PlanInv
<1>3. \A d \in Candidates : Planning!Planned(d) \in Nat /\ Planning!Planned(d) <= plan.least
    BY <1>1, CountsType DEF PlanInv
<1>4. /\ \A d \in Candidates :
             Planning!Planned(d)' = Planning!Planned(d) + (IF d = c THEN 1 ELSE 0)
      /\ Counts' \in [Candidates -> Int] /\ Costs' \in [Candidates -> Int]
      /\ consumed' = Planning!SumFunction(Costs')
      /\ Len(allocations') = Planning!SumFunction(Counts')
      /\ plan' = plan
    BY <1>1, CountsAfter
<1>5. \A d \in Candidates : Planning!Planned(d)' \in Nat /\ Planning!Planned(d)' <= plan.least
    BY <1>1, <1>2, <1>3, <1>4
<1>6. /\ Planning!MandatoryCost <= Planning!Allocatable
      /\ Cardinality(Candidates) * plan.least <= plan.trials
    BY <1>1, CountsAgree DEF PlanInv, Planning!Feasible
<1>7. consumed' <= Planning!MandatoryCost
  <2> DEFINE all == [d \in Candidates |-> plan.cost[d] * plan.least]
  <2>1. all \in [Candidates -> Int]
    <3>1. \A d \in Candidates : plan.cost[d] * plan.least \in Int
        BY <1>2
    <3> QED BY <3>1
  <2>2. ASSUME NEW d \in Candidates PROVE all[d] >= Costs'[d]
    <3>1. all[d] = plan.cost[d] * plan.least /\ Costs'[d] = plan.cost[d] * Planning!Planned(d)'
        BY <1>4 DEF Costs
    <3>2. \A a, x, y \in Nat : x <= y => a * x <= a * y /\ a * x \in Nat /\ a * y \in Nat
        OBVIOUS
    <3>3. plan.cost[d] * Planning!Planned(d)' <= plan.cost[d] * plan.least
        BY <3>2, <1>2, <1>5
    <3>4. plan.cost[d] * Planning!Planned(d)' \in Nat /\ plan.cost[d] * plan.least \in Nat
        BY <3>2, <1>2, <1>5
    <3> QED BY <3>1, <3>3, <3>4
  <2> HIDE DEF all
  <2>3. /\ Planning!SumFunction(all) \in Int /\ Planning!SumFunction(Costs') \in Int
        /\ Planning!SumFunction(all) >= Planning!SumFunction(Costs')
      BY <1>2, <1>4, <2>1, <2>2, TotalsCompare
  <2>4. Planning!MandatoryCost = Planning!SumFunction(all)
      BY DEF Planning!MandatoryCost, all
  <2> QED BY <2>3, <2>4, <1>4
<1>8. Len(allocations') <= Cardinality(Candidates) * plan.least
  <2> DEFINE all == [d \in Candidates |-> plan.least]
  <2>1. all \in [Candidates -> Int]
      BY <1>2
  <2>2. \A d \in Candidates : all[d] >= Counts'[d]
      BY <1>5 DEF Counts
  <2>3. Planning!SumFunction(all) = Cardinality(Candidates) * plan.least
      BY <1>2, TotalOfConstant
  <2> HIDE DEF all
  <2>4. /\ Planning!SumFunction(all) \in Int /\ Planning!SumFunction(Counts') \in Int
        /\ Planning!SumFunction(all) >= Planning!SumFunction(Counts')
      BY <1>2, <1>4, <2>1, <2>2, TotalsCompare
  <2> QED BY <2>3, <2>4, <1>4
<1>9. Planning!SumFunction(Costs') \in Int /\ Planning!SumFunction(Counts') \in Int
  <2>1. /\ \A d \in Candidates : Costs'[d] >= Costs'[d] /\ Counts'[d] >= Counts'[d]
      BY <1>4
  <2> HIDE DEF Costs, Counts
  <2>2. Planning!SumFunction(Costs') \in Int
      BY <1>2, <1>4, <2>1, TotalsCompare
  <2>3. Planning!SumFunction(Counts') \in Int
      BY <1>2, <1>4, <2>1, TotalsCompare
  <2> QED BY <2>2, <2>3
<1>10. Planning!MandatoryCost \in Int /\ Planning!Allocatable \in Int
  <2>1. \A d \in Candidates : plan.cost[d] * plan.least \in Int
      BY <1>2
  <2>2. [d \in Candidates |-> plan.cost[d] * plan.least] \in [Candidates -> Int]
      BY <2>1
  <2>3. Planning!SumFunction([d \in Candidates |-> plan.cost[d] * plan.least]) \in Int
      BY <1>2, <2>2, TotalsCompare
  <2> QED BY <2>3, <1>2 DEF Planning!MandatoryCost, Planning!Allocatable
<1>11. Cardinality(Candidates) \in Nat
    BY <1>2, FS_CardinalityType
<1>12. consumed' <= Planning!Allocatable
    BY <1>4, <1>6, <1>7, <1>9, <1>10
<1>13. Cardinality(Candidates) * plan.least \in Int
    BY <1>2, <1>11
<1>14. Len(allocations') <= plan.trials
    BY <1>2, <1>4, <1>6, <1>8, <1>9, <1>13
<1> QED BY <1>5, <1>12, <1>14

LEMMA PlanCovers ==
    ASSUME PlanInv, NEW c \in Candidates, Planning!Cover(c) PROVE PlanInv'
<1>1. /\ Planning!Allocate(c, "coverage") /\ phase = "covering" /\ phase' = phase
      /\ Planning!Planned(c) < plan.least
      /\ \A d \in Candidates : Planning!Planned(d) >= Planning!Planned(c)
    BY DEF Planning!Cover, Planning!Behind
<1>2. /\ allocations' \in Seq(Trials)
      /\ \A d \in Candidates :
             Planning!Planned(d)' = Planning!Planned(d) + (IF d = c THEN 1 ELSE 0)
      /\ consumed' = Planning!SumFunction(Costs')
      /\ Len(allocations') = Planning!SumFunction(Counts')
      /\ plan' = plan
    BY <1>1, CountsAfter
<1>3. /\ consumed' <= Planning!Allocatable
      /\ Len(allocations') <= plan.trials
      /\ \A d \in Candidates : Planning!Planned(d)' <= plan.least
    BY CoverageFits
<1>4. /\ Planning!Feasible' = Planning!Feasible /\ Planning!Allocatable' = Planning!Allocatable
      /\ Planning!Feasible
    BY <1>1, <1>2 DEF PlanInv, Planning!Feasible, Planning!Allocatable, Planning!MandatoryCost
<1>5. ASSUME NEW d \in Candidates, NEW e \in Candidates
      PROVE  Planning!Planned(d)' <= Planning!Planned(e)' + 1
  <2>1. /\ Planning!Planned(d) \in Nat /\ Planning!Planned(e) \in Nat
        /\ Planning!Planned(c) \in Nat
        /\ Planning!Planned(d) <= Planning!Planned(e) + 1
        /\ Planning!Planned(c) <= Planning!Planned(e)
      BY <1>1, CountsType DEF PlanInv
  <2> QED BY <1>2, <2>1
<1>6. plan \in Plans
    BY DEF PlanInv
<1> QED BY <1>1, <1>2, <1>3, <1>4, <1>5, <1>6 DEF PlanInv

LEMMA PlanFavours ==
    ASSUME PlanInv, NEW c \in Candidates, Planning!Favour(c) PROVE PlanInv'
<1>1. /\ Planning!Allocate(c, "score") /\ phase = "exploiting" /\ phase' = phase
      /\ Len(allocations) < plan.trials
      /\ Planning!Planned(c) < plan.most[c]
      /\ plan.cost[c] <= Planning!Allocatable - consumed
    BY DEF Planning!Favour, Planning!Viable
<1>2. /\ allocations' \in Seq(Trials)
      /\ Len(allocations') = Len(allocations) + 1
      /\ \A d \in Candidates :
             Planning!Planned(d)' = Planning!Planned(d) + (IF d = c THEN 1 ELSE 0)
      /\ consumed' = Planning!SumFunction(Costs')
      /\ Len(allocations') = Planning!SumFunction(Counts')
      /\ plan' = plan /\ consumed' = consumed + plan.cost[c]
    BY <1>1, CountsAfter
<1>3. /\ Planning!Feasible' = Planning!Feasible /\ Planning!Allocatable' = Planning!Allocatable
      /\ Planning!Feasible
    BY <1>1, <1>2 DEF PlanInv, Planning!Feasible, Planning!Allocatable, Planning!MandatoryCost
<1>4. /\ plan \in Plans /\ plan.trials \in Nat /\ plan.reserve \in Nat /\ plan.total \in Nat
      /\ plan.least \in Nat
      /\ \A d \in Candidates : plan.cost[d] \in Nat /\ plan.most[d] \in Nat
    BY PlanTypes DEF PlanInv
<1>5. consumed \in Int /\ Len(allocations) \in Nat
  <2>1. Planning!SumFunction(Costs) \in Int
      BY <1>4, CountsType, PlanTypes, TotalsCompare
  <2> QED BY <2>1 DEF PlanInv
<1>6. consumed' <= Planning!Allocatable /\ Len(allocations') <= plan.trials
  <2>1. Planning!Allocatable \in Int /\ plan.cost[c] \in Int /\ plan.trials \in Int
      BY <1>4 DEF Planning!Allocatable
  <2>2. consumed + plan.cost[c] <= Planning!Allocatable
      BY <2>1, <1>1, <1>5
  <2>3. Len(allocations) + 1 <= plan.trials
      BY <2>1, <1>1, <1>5
  <2> QED BY <2>2, <2>3, <1>2
<1>7. ASSUME NEW d \in Candidates PROVE Planning!Planned(d)' \in plan.least .. plan.most[d]
  <2>1. Planning!Planned(d) \in plan.least .. plan.most[d] /\ Planning!Planned(d) \in Nat
      BY <1>1, CountsType DEF PlanInv
  <2> QED BY <1>1, <1>2, <1>4, <2>1
<1> QED BY <1>1, <1>2, <1>3, <1>4, <1>6, <1>7 DEF PlanInv

LEMMA PlanStep ==
    ASSUME PlanInv, Planning!Next PROVE PlanInv'
<1>1. ASSUME UNCHANGED <<plan, allocations, consumed>>
      PROVE  /\ plan' = plan /\ allocations' = allocations /\ consumed' = consumed
             /\ Counts' = Counts /\ Costs' = Costs
             /\ Planning!Feasible' = Planning!Feasible
             /\ Planning!Allocatable' = Planning!Allocatable
             /\ \A c \in Candidates : /\ Planning!Planned(c)' = Planning!Planned(c)
                                      /\ Planning!Viable(c)' = Planning!Viable(c)
    BY <1>1 DEF Counts, Costs, Planning!Planned, Planning!Feasible, Planning!MandatoryCost,
                Planning!Allocatable, Planning!Viable
<1>2. plan \in Plans /\ plan.least \in Nat /\ \A c \in Candidates : plan.most[c] \in Nat /\ plan.most[c] >= plan.least
    BY PlanTypes DEF PlanInv
<1>3. CASE Planning!Begin
  <2>1. /\ phase = "started" /\ UNCHANGED <<plan, allocations, consumed>>
        /\ phase' = IF Planning!Feasible THEN "covering" ELSE "refused"
      BY <1>3 DEF Planning!Begin
  <2>2. \A c \in Candidates : Planning!Planned(c) = 0
    <3>1. \A c \in Candidates : {i \in DOMAIN allocations : allocations[i].candidate = c} = {}
        BY <2>1 DEF PlanInv
    <3> QED BY <3>1, FS_EmptySet, CountsAgree DEF Planning!Planned
  <2> QED BY <1>1, <1>2, <2>1, <2>2 DEF PlanInv
<1>4. CASE Planning!Exploit
  <2>1. /\ phase = "covering" /\ UNCHANGED <<plan, allocations, consumed>>
        /\ phase' = "exploiting" /\ \A c \in Candidates : Planning!Planned(c) >= plan.least
      BY <1>4 DEF Planning!Exploit
  <2>2. \A c \in Candidates : Planning!Planned(c) \in plan.least .. plan.most[c]
      BY <1>2, <2>1, CountsType DEF PlanInv
  <2> QED BY <1>1, <2>1, <2>2 DEF PlanInv
<1>5. CASE Planning!Finish
  <2>1. /\ phase = "exploiting" /\ UNCHANGED <<plan, allocations, consumed>>
        /\ phase' = "planned"
        /\ Len(allocations) >= plan.trials \/ \A c \in Candidates : ~Planning!Viable(c)
      BY <1>5 DEF Planning!Finish
  <2> QED BY <1>1, <2>1 DEF PlanInv
<1> QED BY <1>3, <1>4, <1>5, PlanCovers, PlanFavours DEF Planning!Next

LEMMA PlanHolds == PartsSpec => []PlanInv
<1>1. PartsInit => PlanInv
    BY PlanInit DEF PartsInit
<1>2. PlanInv /\ [PartsNext]_parts => PlanInv'
  <2> SUFFICES ASSUME PlanInv, [PartsNext]_parts PROVE PlanInv'
      OBVIOUS
  <2>1. Planning!Next \/ UNCHANGED budget
      BY DEF PartsNext, Call, Work, Allocate, parts
  <2> QED BY <2>1, PlanStep, PlanStutters
<1> QED BY <1>1, <1>2, PTL DEF PartsSpec

\* The plan of trials (allocate_adaptive_budget): the reserve kept for the holdout
\* is never touched, nobody is a whole round ahead of another, and a finished plan
\* covers everybody, within every limit, and leaves nothing that one more trial
\* could have used, for any candidates, costs and limits.
THEOREM PlansAreWellSpent == PartsSpec => []BudgetWellSpent
<1>1. ASSUME PlanInv PROVE BudgetWellSpent
  <2> USE <1>1
  <2>1. /\ plan \in Plans /\ plan.reserve \in Nat /\ plan.total \in Nat /\ plan.trials \in Nat
        /\ \A c \in Candidates : plan.cost[c] \in Nat /\ plan.most[c] \in Nat
      BY PlanTypes DEF PlanInv
  <2>2. consumed \in Int
    <3>1. Planning!SumFunction(Costs) \in Int
        BY <2>1, CountsType, PlanTypes, TotalsCompare
    <3> QED BY <3>1 DEF PlanInv
  <2>3. Planning!TypeOK
      BY DEF PlanInv, Planning!TypeOK, Costs
  <2>4. Planning!ReserveUntouched
      BY <2>1, <2>2 DEF PlanInv, Planning!ReserveUntouched, Planning!Allocatable
  <2>5. Planning!EverybodyCovered
      BY DEF PlanInv, Planning!EverybodyCovered
  <2>6. Planning!NothingLeftOver
    <3> SUFFICES ASSUME phase = "planned", Len(allocations) < plan.trials, NEW c \in Candidates
                 PROVE  \/ Planning!Planned(c) = plan.most[c]
                        \/ consumed + plan.cost[c] + plan.reserve > plan.total
        BY DEF Planning!NothingLeftOver
    <3>1. /\ Planning!Planned(c) \in Nat /\ Planning!Planned(c) <= plan.most[c]
          /\ Len(allocations) \in Nat
        BY CountsType DEF PlanInv
    <3>2. ~Planning!Viable(c)
        BY <2>1, <3>1 DEF PlanInv
    <3>3. Planning!Planned(c) >= plan.most[c] \/ plan.cost[c] > Planning!Allocatable - consumed
        BY <2>1, <2>2, <3>1, <3>2 DEF Planning!Viable, Planning!Allocatable
    <3> QED BY <2>1, <2>2, <3>1, <3>3 DEF Planning!Allocatable
  <2> QED BY <2>3, <2>4, <2>5, <2>6 DEF BudgetWellSpent
<1> QED BY <1>1, PlanHolds, PTL

-----------------------------------------------------------------------------
(* Dependencies.                                                             *)

\* A set of nodes that holds target and every node with an edge into the set.
Closing(edges, target, R) ==
    target \in R /\ \A e \in edges : e[2] \in R => e[1] \in R

\* The ancestors of a node are the least such set.
LEMMA AncestorsLeast ==
    ASSUME NEW E, NEW t, NEW R \in SUBSET Nodes, Closing(E, t, R)
    PROVE  Ancestors(E, t) \subseteq R
BY DEF Ancestors, Closing

LEMMA AncestorsClosing ==
    ASSUME NEW E \in SUBSET (Nodes \X Nodes), NEW t \in Nodes
    PROVE  Ancestors(E, t) \in SUBSET Nodes /\ Closing(E, t, Ancestors(E, t))
<1>1. Ancestors(E, t) \in SUBSET Nodes /\ t \in Ancestors(E, t)
    BY DEF Ancestors
<1>2. ASSUME NEW e \in E, e[2] \in Ancestors(E, t) PROVE e[1] \in Ancestors(E, t)
  <2>1. e[1] \in Nodes
      OBVIOUS
  <2>2. ASSUME NEW R \in SUBSET Nodes, Closing(E, t, R) PROVE e[1] \in R
      BY <1>2, <2>2, AncestorsLeast DEF Closing
  <2> QED BY <2>1, <2>2 DEF Ancestors, Closing
<1> QED BY <1>1, <1>2 DEF Closing

LEMMA AncestorsGrow ==
    ASSUME NEW E \in SUBSET (Nodes \X Nodes), NEW F \in SUBSET E, NEW t \in Nodes
    PROVE  Ancestors(F, t) \subseteq Ancestors(E, t)
<1>1. Closing(F, t, Ancestors(E, t)) /\ Ancestors(E, t) \in SUBSET Nodes
    BY AncestorsClosing DEF Closing
<1> QED BY <1>1, AncestorsLeast

LEMMA AncestorsOfAncestors ==
    ASSUME NEW E \in SUBSET (Nodes \X Nodes), NEW t \in Nodes, NEW u \in Ancestors(E, t)
    PROVE  Ancestors(E, u) \subseteq Ancestors(E, t)
<1>1. Closing(E, u, Ancestors(E, t)) /\ Ancestors(E, t) \in SUBSET Nodes
    BY AncestorsClosing DEF Closing
<1> QED BY <1>1, AncestorsLeast

\* What one more edge adds are the ancestors of its source.
LEMMA AncestorsWithEdge ==
    ASSUME NEW E \in SUBSET (Nodes \X Nodes), NEW from \in Nodes, NEW to \in Nodes,
           NEW t \in Nodes, NEW n \in Ancestors(E \union {<<from, to>>}, t)
    PROVE  n \in Ancestors(E, t) \/ (to \in Ancestors(E, t) /\ n \in Ancestors(E, from))
<1> DEFINE F == E \union {<<from, to>>}
           R == Ancestors(E, t) \union (IF to \in Ancestors(E, t) THEN Ancestors(E, from) ELSE {})
<1>1. /\ Ancestors(E, t) \in SUBSET Nodes /\ Closing(E, t, Ancestors(E, t))
      /\ Ancestors(E, from) \in SUBSET Nodes /\ Closing(E, from, Ancestors(E, from))
    BY AncestorsClosing
<1>2. R \in SUBSET Nodes /\ t \in R
    BY <1>1 DEF Closing
<1>3. ASSUME NEW e \in F, e[2] \in R PROVE e[1] \in R
  <2>1. CASE e \in E
      BY <2>1, <1>1, <1>3 DEF Closing
  <2>2. CASE e = <<from, to>>
    <3>1. e[2] = to /\ e[1] = from
        BY <2>2
    <3>2. to \in Ancestors(E, t)
      <4> SUFFICES ASSUME to \notin Ancestors(E, t) PROVE FALSE
          OBVIOUS
      <4> QED BY <3>1, <1>3
    <3> QED BY <3>1, <3>2, <1>1 DEF Closing
  <2> QED BY <2>1, <2>2
<1>4. Closing(F, t, R)
    BY <1>2, <1>3 DEF Closing
<1>5. Ancestors(F, t) \subseteq R
  <2> HIDE DEF F, R
  <2> QED BY <1>2, <1>4, AncestorsLeast
<1> QED BY <1>5

Acyclic(E) == \A e \in E : ~ClosesCycle(E \ {e}, e[1], e[2])

\* An edge that closes no cycle leaves the graph without one.
LEMMA StaysAcyclic ==
    ASSUME NEW E \in SUBSET (Nodes \X Nodes), NEW from \in Nodes, NEW to \in Nodes,
           Acyclic(E), ~ClosesCycle(E, from, to)
    PROVE  Acyclic(E \union {<<from, to>>})
<1> DEFINE f == <<from, to>>
           F == E \union {f}
<1>0. to # from /\ to \notin Ancestors(E, from)
    BY DEF ClosesCycle
<1>1. ASSUME NEW e \in F, ClosesCycle(F \ {e}, e[1], e[2]) PROVE FALSE
  <2>1. CASE e = f
    <3>1. F \ {e} \in SUBSET E /\ e[1] = from /\ e[2] = to
        BY <2>1
    <3>2. Ancestors(F \ {e}, from) \subseteq Ancestors(E, from)
        BY <3>1, AncestorsGrow
    <3> QED BY <3>1, <3>2, <1>0, <1>1 DEF ClosesCycle
  <2>2. CASE e # f
    <3> DEFINE D == E \ {e}
               a == e[1]
               b == e[2]
    <3>1. e \in E /\ F \ {e} = D \union {f} /\ D \in SUBSET E
        BY <2>2
    <3>2. a \in Nodes /\ b \in Nodes /\ b # a /\ b \notin Ancestors(D, a)
        BY <3>1 DEF Acyclic, ClosesCycle
    <3>3. b \in Ancestors(D \union {f}, a)
        BY <1>1, <3>1, <3>2 DEF ClosesCycle
    <3>7. e[1] = a /\ e[2] = b /\ D \in SUBSET (Nodes \X Nodes)
        BY <3>1
    <3> HIDE DEF a, b, D
    <3>4. to \in Ancestors(D, a) /\ b \in Ancestors(D, from)
        BY <3>2, <3>3, <3>7, AncestorsWithEdge
    <3>5. to \in Ancestors(E, a) /\ b \in Ancestors(E, from)
        BY <3>1, <3>2, <3>4, AncestorsGrow
    <3>6. a \in Ancestors(E, from)
        BY <3>1, <3>5, <3>7, AncestorsClosing DEF Closing
    <3> QED BY <3>5, <3>6, <1>0, AncestorsOfAncestors
  <2> QED BY <2>1, <2>2
<1> QED BY <1>1 DEF Acyclic

-----------------------------------------------------------------------------
(* States of knowledge.                                                      *)

Statuses == {"open", "satisfied", "contradicted", "refused", "cycle"}

FormedDuty(c, d) ==
    /\ d = [claim |-> d.claim, method |-> d.method, meets |-> d.meets,
            predicts |-> d.predicts, node |-> d.node, status |-> d.status,
            attempts |-> d.attempts, witnesses |-> d.witnesses]
    /\ d.method \in Methods
    /\ d.node \in IF d.method = "closure" THEN Nodes ELSE {None}
    /\ d.status \in Statuses
    /\ d.attempts \in Nat
    /\ DOMAIN d.predicts \in Content[c].families \union {{}}

\* The parts of a state are what their names say.
Formed(s) ==
    /\ s = [contract |-> s.contract, lineage |-> s.lineage, cost |-> s.cost,
            work |-> s.work, support |-> s.support, against |-> s.against,
            depth |-> s.depth, edges |-> s.edges, limit |-> s.limit]
    /\ s.contract \in Contracts
    /\ \E S : s.lineage \in Seq(S)
    /\ s.cost \in Nat
    /\ s.work = [o \in DOMAIN s.work |-> s.work[o]]
    /\ DOMAIN s.work \subseteq Nat
    /\ \A o \in DOMAIN s.work : FormedDuty(s.contract, s.work[o])
    /\ s.support = [h \in Hypotheses(s.contract) |-> s.support[h]]
    /\ s.against = [h \in Hypotheses(s.contract) |-> s.against[h]]
    /\ s.limit \in LimitsMet \union {None}

DutyOfReceipt(s, i) == s.lineage[i].action.duty

\* What a revision observed speaks against h.
SpeaksAgainst(s, i, h) ==
    /\ Seen(s, i).kind = "completed"
    /\ h \in DOMAIN s.work[DutyOfReceipt(s, i)].predicts
    /\ Seen(s, i).seen \notin s.work[DutyOfReceipt(s, i)].predicts[h]

\* A duty is satisfied by an execution that met it, and what is held against a
\* hypothesis are the revisions that speak against it.
Witnessed(s) ==
    /\ \A i \in Applied(s) : DutyOfReceipt(s, i) \in DOMAIN s.work
    /\ \A o \in DOMAIN s.work :
           s.work[o].status = "satisfied" =>
               \E i \in Applied(s) :
                   /\ DutyOfReceipt(s, i) = o
                   /\ Seen(s, i).kind = "completed"
                   /\ Seen(s, i).seen \in s.work[o].meets
    /\ \A o \in DOMAIN s.work : s.work[o].witnesses \subseteq Applied(s)
    /\ \A h \in Hypotheses(s.contract) :
           /\ s.support[h] \subseteq Applied(s)
           /\ s.against[h] = {i \in Applied(s) : SpeaksAgainst(s, i, h)}

\* The nodes are those of the duties, in a graph without cycles.
Linked(s) ==
    /\ s.depth \in [DOMAIN s.depth -> Nat] /\ DOMAIN s.depth \subseteq Nodes
    /\ s.edges \subseteq (DOMAIN s.depth) \X (DOMAIN s.depth)
    /\ Cardinality(DOMAIN s.depth) <= Budget(s).nodes
    /\ DependenciesIndexed(s)
    /\ \A o \in DOMAIN s.work : \A n \in Nodes : o = Duty[n] => s.work[o].node = n
    /\ \A n \in DOMAIN s.depth : \E o \in DOMAIN s.work : s.work[o].node = n

\* Unless a limit or a cycle was met, every edge that was shown is followed.
NoCycle(s) == \A o \in DOMAIN s.work : s.work[o].status # "cycle"
Followed(s) ==
    s.limit = None /\ NoCycle(s) =>
        \A i \in Applied(s) : Seen(s, i).kind = "completed" => Seen(s, i).to \subseteq DOMAIN s.depth

Sound(s) == Formed(s) /\ Witnessed(s) /\ Linked(s) /\ Followed(s) /\ ValidState(s)

LEMMA NodeFacts ==
    /\ Nodes \subseteq Nat /\ IsFiniteSet(Nodes) /\ None \notin Nodes
    /\ None \notin Contracts /\ None \notin Ends /\ None \notin LimitsMet
    /\ \A n \in Nodes : Duty[n] \in Nat
    /\ \A n, m \in Nodes : Duty[n] = Duty[m] => n = m
BY NodesAssumption DEF IsInjective

LEMMA LinkedSets ==
    ASSUME NEW s, Linked(s)
    PROVE  /\ IsFiniteSet(DOMAIN s.depth) /\ Cardinality(DOMAIN s.depth) \in Nat
           /\ IsFiniteSet(s.edges) /\ Cardinality(s.edges) \in Nat
           /\ s.edges \in SUBSET (Nodes \X Nodes)
<1>1. DOMAIN s.depth \subseteq Nodes /\ s.edges \in SUBSET (Nodes \X Nodes)
    BY DEF Linked
<1>2. IsFiniteSet(DOMAIN s.depth)
    BY <1>1, NodeFacts, FS_Subset
<1>3. IsFiniteSet(Nodes \X Nodes)
    BY NodeFacts, FS_Product
<1>4. IsFiniteSet(s.edges)
    BY <1>1, <1>3, FS_Subset
<1> QED BY <1>1, <1>2, <1>4, FS_CardinalityType

-----------------------------------------------------------------------------
(* One edge of an expanded node.                                             *)

\* What an edge may change is the status of the duty that is expanded, the
\* nodes, the edges, the duties of new nodes and the limit.
Extends(t, u, o, to) ==
    /\ Formed(u) /\ Witnessed(u) /\ Linked(u)
    /\ u.contract = t.contract /\ u.lineage = t.lineage /\ u.cost = t.cost
    /\ o \in DOMAIN u.work
    /\ u.work[o].method = t.work[o].method /\ u.work[o].node = t.work[o].node
    /\ Cardinality(u.edges) <= Cardinality(t.edges) + 1
    /\ DOMAIN t.depth \subseteq DOMAIN u.depth
    /\ NoCycle(u) => NoCycle(t)
    /\ u.limit = None => t.limit = None
    /\ u.limit = None /\ NoCycle(u) => to \in DOMAIN u.depth

Source(t, o) == t.work[o].node

Expandable(t, o, to) ==
    /\ Formed(t) /\ Witnessed(t) /\ Linked(t)
    /\ o \in DOMAIN t.work /\ t.work[o].method = "closure"
    /\ to \in Nodes

LEMMA SourceIndexed ==
    ASSUME NEW t, NEW o, NEW to, Expandable(t, o, to)
    PROVE  Source(t, o) \in DOMAIN t.depth /\ Source(t, o) \in Nodes
BY DEF Expandable, Linked, DependenciesIndexed, Source

\* What was witnessed stays so while the lineage stays and duties only change
\* their status to blocked or come as new.
LEMMA StaysWitnessed ==
    ASSUME NEW t, NEW u, Witnessed(t),
           u.contract = t.contract, u.lineage = t.lineage,
           u.support = t.support, u.against = t.against,
           DOMAIN t.work \subseteq DOMAIN u.work,
           \A x \in DOMAIN t.work :
               /\ u.work[x].meets = t.work[x].meets
               /\ u.work[x].predicts = t.work[x].predicts
               /\ u.work[x].witnesses = t.work[x].witnesses
               /\ u.work[x].status = t.work[x].status \/ u.work[x].status = "cycle",
           \A x \in DOMAIN u.work :
               x \in DOMAIN t.work \/ (u.work[x].status = "open" /\ u.work[x].witnesses = {})
    PROVE  Witnessed(u)
<1>1. Applied(u) = Applied(t) /\ Hypotheses(u.contract) = Hypotheses(t.contract)
    BY DEF Applied, Revision, Hypotheses
<1>2. ASSUME NEW i \in Applied(t)
      PROVE  Seen(u, i) = Seen(t, i) /\ DutyOfReceipt(u, i) = DutyOfReceipt(t, i)
    BY DEF Seen, DutyOfReceipt
<1>3. ASSUME NEW i \in Applied(t), NEW h PROVE SpeaksAgainst(u, i, h) = SpeaksAgainst(t, i, h)
  <2>1. DutyOfReceipt(t, i) \in DOMAIN t.work
      BY DEF Witnessed
  <2> QED BY <2>1, <1>2 DEF SpeaksAgainst
<1>4. \A h \in Hypotheses(u.contract) :
          u.support[h] \subseteq Applied(u) /\ u.against[h] = {i \in Applied(u) : SpeaksAgainst(u, i, h)}
    BY <1>1, <1>3 DEF Witnessed
<1>5. ASSUME NEW x \in DOMAIN u.work, u.work[x].status = "satisfied"
      PROVE  \E i \in Applied(u) : /\ DutyOfReceipt(u, i) = x
                                   /\ Seen(u, i).kind = "completed"
                                   /\ Seen(u, i).seen \in u.work[x].meets
  <2>1. x \in DOMAIN t.work /\ t.work[x].status = "satisfied"
      BY <1>5
  <2> QED BY <1>1, <1>2, <2>1 DEF Witnessed
<1>6. \A i \in Applied(u) : DutyOfReceipt(u, i) \in DOMAIN u.work
    BY <1>1, <1>2 DEF Witnessed
<1>7. \A x \in DOMAIN u.work : u.work[x].witnesses \subseteq Applied(u)
    BY <1>1 DEF Witnessed
<1> QED BY <1>4, <1>5, <1>6, <1>7 DEF Witnessed

\* An edge that closes a cycle blocks the duty.
LEMMA CycleExtends ==
    ASSUME NEW t, NEW o, NEW to, Expandable(t, o, to), ClosesCycle(t.edges, Source(t, o), to)
    PROVE  Extends(t, Discover(t, o, Source(t, o), to), o, to)
<1> DEFINE u == Discover(t, o, Source(t, o), to)
<1>1. u = [t EXCEPT !.work[o].status = "cycle"]
    BY DEF Discover
<1> HIDE DEF u
<1>2. /\ Formed(t) /\ Witnessed(t) /\ Linked(t)
      /\ o \in DOMAIN t.work /\ t.work[o].method = "closure" /\ to \in Nodes
    BY DEF Expandable
<1>3. /\ u.contract = t.contract /\ u.lineage = t.lineage /\ u.cost = t.cost
      /\ u.support = t.support /\ u.against = t.against /\ u.depth = t.depth
      /\ u.edges = t.edges /\ u.limit = t.limit
      /\ u.work = [t.work EXCEPT ![o].status = "cycle"]
      /\ u = [contract |-> u.contract, lineage |-> u.lineage, cost |-> u.cost,
              work |-> u.work, support |-> u.support, against |-> u.against,
              depth |-> u.depth, edges |-> u.edges, limit |-> u.limit]
    BY <1>1, <1>2 DEF Formed
<1>4. /\ DOMAIN u.work = DOMAIN t.work
      /\ u.work = [x \in DOMAIN u.work |-> u.work[x]]
      /\ \A x \in DOMAIN t.work : x # o => u.work[x] = t.work[x]
      /\ u.work[o] = [t.work[o] EXCEPT !.status = "cycle"]
    BY <1>2, <1>3 DEF Formed
<1>5. /\ u.work[o].claim = t.work[o].claim /\ u.work[o].method = t.work[o].method
      /\ u.work[o].meets = t.work[o].meets /\ u.work[o].predicts = t.work[o].predicts
      /\ u.work[o].node = t.work[o].node /\ u.work[o].status = "cycle"
      /\ u.work[o].attempts = t.work[o].attempts
      /\ u.work[o].witnesses = t.work[o].witnesses
      /\ FormedDuty(u.contract, u.work[o])
  <2> DEFINE d == t.work[o]
             e == u.work[o]
  <2>1. FormedDuty(u.contract, d) /\ e = [d EXCEPT !.status = "cycle"]
      BY <1>2, <1>3, <1>4 DEF Formed
  <2> HIDE DEF d, e
  <2>2. /\ e.claim = d.claim /\ e.method = d.method /\ e.meets = d.meets
        /\ e.predicts = d.predicts /\ e.node = d.node /\ e.status = "cycle"
        /\ e.attempts = d.attempts /\ e.witnesses = d.witnesses
        /\ e = [claim |-> e.claim, method |-> e.method, meets |-> e.meets,
                predicts |-> e.predicts, node |-> e.node, status |-> e.status,
                attempts |-> e.attempts, witnesses |-> e.witnesses]
      BY <2>1 DEF FormedDuty
  <2>3. FormedDuty(u.contract, e)
      BY <2>1, <2>2 DEF FormedDuty, Statuses
  <2> QED BY <2>2, <2>3 DEF d, e
<1>6. \A x \in DOMAIN t.work :
          /\ u.work[x].method = t.work[x].method /\ u.work[x].node = t.work[x].node
          /\ u.work[x].meets = t.work[x].meets /\ u.work[x].predicts = t.work[x].predicts
          /\ u.work[x].witnesses = t.work[x].witnesses
          /\ u.work[x].status = t.work[x].status \/ u.work[x].status = "cycle"
          /\ FormedDuty(u.contract, u.work[x])
    BY <1>2, <1>3, <1>4, <1>5 DEF Formed
<1>7. Formed(u)
    BY <1>2, <1>3, <1>4, <1>6 DEF Formed
<1>8. Witnessed(u)
  <2>1. \A x \in DOMAIN t.work :
            /\ u.work[x].meets = t.work[x].meets
            /\ u.work[x].predicts = t.work[x].predicts
            /\ u.work[x].witnesses = t.work[x].witnesses
            /\ u.work[x].status = t.work[x].status \/ u.work[x].status = "cycle"
      BY <1>6
  <2>2. DOMAIN t.work = DOMAIN u.work
      BY <1>4
  <2> QED BY <2>1, <2>2, <1>2, <1>3, StaysWitnessed
<1>9. Linked(u)
  <2>1. Budget(u) = Budget(t)
      BY <1>3 DEF Budget
  <2>2. DependenciesIndexed(u)
    <3>1. DependenciesIndexed(t)
        BY <1>2 DEF Linked
    <3>2. \A x \in DOMAIN u.work :
              u.work[x].method = "closure" => u.work[x].node \in DOMAIN u.depth
        BY <3>1, <1>3, <1>4, <1>6 DEF DependenciesIndexed
    <3>3. Acyclic(u.edges)
        BY <3>1, <1>3 DEF DependenciesIndexed, Acyclic
    <3>4. \A e \in u.edges : {e[1], e[2]} \subseteq DOMAIN u.depth
        BY <3>1, <1>3 DEF DependenciesIndexed
    <3>5. \A n \in DOMAIN u.depth : u.depth[n] <= Budget(u).depth
        BY <3>1, <2>1, <1>3 DEF DependenciesIndexed
    <3>6. \A n \in DOMAIN u.depth :
              u.depth[n] > 0 =>
                  \E e \in u.edges : e[2] = n /\ u.depth[e[1]] + 1 = u.depth[n]
        BY <3>1, <1>3 DEF DependenciesIndexed
    <3> QED BY <3>2, <3>3, <3>4, <3>5, <3>6 DEF DependenciesIndexed, Acyclic
  <2> QED BY <2>1, <2>2, <1>2, <1>3, <1>4, <1>6 DEF Linked
<1>10. ~NoCycle(u)
    BY <1>2, <1>4, <1>5 DEF NoCycle
<1>11. Cardinality(u.edges) <= Cardinality(t.edges) + 1
    BY <1>2, <1>3, LinkedSets
<1> QED BY <1>2, <1>3, <1>4, <1>6, <1>7, <1>8, <1>9, <1>10, <1>11 DEF Extends, u

\* An edge to a known node is one edge more.
LEMMA EdgeExtends ==
    ASSUME NEW t, NEW o, NEW to, Expandable(t, o, to),
           ~ClosesCycle(t.edges, Source(t, o), to), to \in DOMAIN t.depth
    PROVE  Extends(t, Discover(t, o, Source(t, o), to), o, to)
<1> DEFINE from == Source(t, o)
           u == Discover(t, o, from, to)
<1>1. u = [t EXCEPT !.edges = @ \union {<<from, to>>}]
    BY DEF Discover
<1>2. from \in DOMAIN t.depth /\ from \in Nodes
    BY SourceIndexed
<1>3. ~ClosesCycle(t.edges, from, to)
    OBVIOUS
<1> HIDE DEF u, from
<1>4. /\ Formed(t) /\ Witnessed(t) /\ Linked(t)
      /\ o \in DOMAIN t.work /\ t.work[o].method = "closure" /\ to \in Nodes
    BY DEF Expandable
<1>5. /\ u.contract = t.contract /\ u.lineage = t.lineage /\ u.cost = t.cost
      /\ u.support = t.support /\ u.against = t.against /\ u.depth = t.depth
      /\ u.work = t.work /\ u.limit = t.limit
      /\ u.edges = t.edges \union {<<from, to>>}
      /\ u = [contract |-> u.contract, lineage |-> u.lineage, cost |-> u.cost,
              work |-> u.work, support |-> u.support, against |-> u.against,
              depth |-> u.depth, edges |-> u.edges, limit |-> u.limit]
    BY <1>1, <1>4 DEF Formed
<1>6. Formed(u)
    BY <1>4, <1>5 DEF Formed
<1>7. Witnessed(u)
  <2>1. \A x \in DOMAIN t.work :
            /\ u.work[x].meets = t.work[x].meets
            /\ u.work[x].predicts = t.work[x].predicts
            /\ u.work[x].witnesses = t.work[x].witnesses
            /\ u.work[x].status = t.work[x].status
      BY <1>5
  <2> QED BY <2>1, <1>4, <1>5, StaysWitnessed
<1>8. Linked(u)
  <2>1. Budget(u) = Budget(t)
      BY <1>5 DEF Budget
  <2>2. u.edges \subseteq (DOMAIN u.depth) \X (DOMAIN u.depth)
      BY <1>2, <1>4, <1>5 DEF Linked
  <2>3. DependenciesIndexed(t)
      BY <1>4 DEF Linked
  <2>4. Acyclic(u.edges)
    <3>1. Acyclic(t.edges) /\ t.edges \in SUBSET (Nodes \X Nodes)
        BY <2>3, <1>4, LinkedSets DEF DependenciesIndexed, Acyclic
    <3> QED BY <3>1, <1>2, <1>3, <1>4, <1>5, StaysAcyclic
  <2>5. DependenciesIndexed(u)
    <3>1. \A e \in u.edges : {e[1], e[2]} \subseteq DOMAIN u.depth
        BY <2>2
    <3>2. \A n \in DOMAIN u.depth : u.depth[n] <= Budget(u).depth
        BY <2>1, <2>3, <1>5 DEF DependenciesIndexed
    <3>3. \A x \in DOMAIN u.work :
              u.work[x].method = "closure" => u.work[x].node \in DOMAIN u.depth
        BY <2>3, <1>5 DEF DependenciesIndexed
    <3>4. ASSUME NEW n \in DOMAIN u.depth, u.depth[n] > 0
          PROVE  \E e \in u.edges : e[2] = n /\ u.depth[e[1]] + 1 = u.depth[n]
        BY <2>3, <3>4, <1>5 DEF DependenciesIndexed
    <3> QED BY <2>4, <3>1, <3>2, <3>3, <3>4 DEF DependenciesIndexed, Acyclic
  <2> QED BY <2>1, <2>2, <2>5, <1>4, <1>5 DEF Linked
<1>9. Cardinality(u.edges) <= Cardinality(t.edges) + 1
  <2>1. IsFiniteSet(t.edges) /\ Cardinality(t.edges) \in Nat
      BY <1>4, LinkedSets
  <2>2. \/ Cardinality(t.edges \union {<<from, to>>}) = Cardinality(t.edges)
        \/ Cardinality(t.edges \union {<<from, to>>}) = Cardinality(t.edges) + 1
      BY <2>1, FS_AddElement
  <2> QED BY <2>1, <2>2, <1>5
<1>10. NoCycle(u) => NoCycle(t)
    BY <1>5 DEF NoCycle
<1> QED BY <1>4, <1>5, <1>6, <1>7, <1>8, <1>9, <1>10 DEF Extends, u, from

\* A limit is noted and nothing is followed beyond it.
LEMMA LimitExtends ==
    ASSUME NEW t, NEW o, NEW to, Expandable(t, o, to), NEW l \in LimitsMet,
           Discover(t, o, Source(t, o), to) = [t EXCEPT !.limit = l]
    PROVE  Extends(t, Discover(t, o, Source(t, o), to), o, to)
<1> DEFINE u == Discover(t, o, Source(t, o), to)
<1>1. u = [t EXCEPT !.limit = l] /\ l # None
    BY NodeFacts
<1> HIDE DEF u
<1>2. /\ Formed(t) /\ Witnessed(t) /\ Linked(t)
      /\ o \in DOMAIN t.work /\ t.work[o].method = "closure" /\ to \in Nodes
    BY DEF Expandable
<1>3. /\ u.contract = t.contract /\ u.lineage = t.lineage /\ u.cost = t.cost
      /\ u.support = t.support /\ u.against = t.against /\ u.depth = t.depth
      /\ u.work = t.work /\ u.edges = t.edges /\ u.limit = l
      /\ u = [contract |-> u.contract, lineage |-> u.lineage, cost |-> u.cost,
              work |-> u.work, support |-> u.support, against |-> u.against,
              depth |-> u.depth, edges |-> u.edges, limit |-> u.limit]
    BY <1>1, <1>2 DEF Formed
<1>4. Formed(u)
    BY <1>2, <1>3 DEF Formed
<1>5. Witnessed(u)
  <2>1. \A x \in DOMAIN t.work :
            /\ u.work[x].meets = t.work[x].meets
            /\ u.work[x].predicts = t.work[x].predicts
            /\ u.work[x].witnesses = t.work[x].witnesses
            /\ u.work[x].status = t.work[x].status
      BY <1>3
  <2> QED BY <2>1, <1>2, <1>3, StaysWitnessed
<1>6. Linked(u)
  <2>1. Budget(u) = Budget(t) /\ DependenciesIndexed(t)
      BY <1>2, <1>3 DEF Budget, Linked
  <2>2. \A e \in u.edges : {e[1], e[2]} \subseteq DOMAIN u.depth
      BY <2>1, <1>3 DEF DependenciesIndexed
  <2>3. \A n \in DOMAIN u.depth : u.depth[n] <= Budget(u).depth
      BY <2>1, <1>3 DEF DependenciesIndexed
  <2>4. \A x \in DOMAIN u.work :
            u.work[x].method = "closure" => u.work[x].node \in DOMAIN u.depth
      BY <2>1, <1>3 DEF DependenciesIndexed
  <2>5. \A n \in DOMAIN u.depth :
            u.depth[n] > 0 => \E e \in u.edges : e[2] = n /\ u.depth[e[1]] + 1 = u.depth[n]
      BY <2>1, <1>3 DEF DependenciesIndexed
  <2>6. Acyclic(u.edges)
      BY <2>1, <1>3 DEF DependenciesIndexed, Acyclic
  <2>7. DependenciesIndexed(u)
      BY <2>2, <2>3, <2>4, <2>5, <2>6 DEF DependenciesIndexed, Acyclic
  <2> QED BY <2>1, <2>7, <1>2, <1>3 DEF Linked
<1>7. Cardinality(u.edges) <= Cardinality(t.edges) + 1
    BY <1>2, <1>3, LinkedSets
<1>8. NoCycle(u) => NoCycle(t)
    BY <1>3 DEF NoCycle
<1> QED BY <1>1, <1>2, <1>3, <1>4, <1>5, <1>6, <1>7, <1>8 DEF Extends, u

\* A new node within the limits becomes a duty, one edge away from its source.
LEMMA NodeExtends ==
    ASSUME NEW t, NEW o, NEW to, Expandable(t, o, to),
           ~ClosesCycle(t.edges, Source(t, o), to), to \notin DOMAIN t.depth,
           t.depth[Source(t, o)] + 1 <= Budget(t).depth,
           Cardinality(DOMAIN t.depth) < Budget(t).nodes,
           Budget(t).nodes \in Nat, Budget(t).depth \in Nat
    PROVE  Extends(t, Discover(t, o, Source(t, o), to), o, to)
<1> DEFINE from == Source(t, o)
           u == Discover(t, o, from, to)
<1>1. from \in DOMAIN t.depth /\ from \in Nodes
    BY SourceIndexed
<1>2. /\ Formed(t) /\ Witnessed(t) /\ Linked(t)
      /\ o \in DOMAIN t.work /\ t.work[o].method = "closure" /\ to \in Nodes
    BY DEF Expandable
<1>3. t.depth[from] \in Nat /\ IsFiniteSet(DOMAIN t.depth) /\ Cardinality(DOMAIN t.depth) \in Nat
    BY <1>1, <1>2, LinkedSets DEF Linked
<1>4. u = [t EXCEPT !.depth = With(@, to, t.depth[from] + 1),
                    !.edges = @ \union {<<from, to>>},
                    !.work = With(@, Duty[to], Derived(to))]
    BY <1>3 DEF Discover
<1>5. ~ClosesCycle(t.edges, from, to) /\ t.depth[from] + 1 <= Budget(t).depth
    OBVIOUS
<1> HIDE DEF u, from
<1>6. Duty[to] \notin DOMAIN t.work
  <2> SUFFICES ASSUME Duty[to] \in DOMAIN t.work PROVE FALSE
      OBVIOUS
  <2>1. t.work[Duty[to]].node = to
      BY <1>2 DEF Linked
  <2>2. t.work[Duty[to]].method = "closure"
      BY <2>1, <1>2, NodeFacts DEF Formed, FormedDuty
  <2>3. to \in DOMAIN t.depth
      BY <2>1, <2>2, <1>2 DEF Linked, DependenciesIndexed
  <2> QED BY <2>3
<1>7. /\ u.contract = t.contract /\ u.lineage = t.lineage /\ u.cost = t.cost
      /\ u.support = t.support /\ u.against = t.against /\ u.limit = t.limit
      /\ u.depth = With(t.depth, to, t.depth[from] + 1)
      /\ u.edges = t.edges \union {<<from, to>>}
      /\ u.work = With(t.work, Duty[to], Derived(to))
      /\ u = [contract |-> u.contract, lineage |-> u.lineage, cost |-> u.cost,
              work |-> u.work, support |-> u.support, against |-> u.against,
              depth |-> u.depth, edges |-> u.edges, limit |-> u.limit]
    BY <1>2, <1>4 DEF Formed
<1>8. /\ DOMAIN u.work = DOMAIN t.work \union {Duty[to]}
      /\ u.work = [x \in DOMAIN u.work |-> u.work[x]]
      /\ \A x \in DOMAIN t.work : u.work[x] = t.work[x]
      /\ u.work[Duty[to]] = Derived(to)
    BY <1>6, <1>7 DEF With
<1>9. /\ DOMAIN u.depth = DOMAIN t.depth \union {to}
      /\ u.depth = [n \in DOMAIN u.depth |-> u.depth[n]]
      /\ \A n \in DOMAIN t.depth : u.depth[n] = t.depth[n]
      /\ u.depth[to] = t.depth[from] + 1
    BY <1>7 DEF With
<1>10. /\ FormedDuty(u.contract, Derived(to))
       /\ Derived(to).status = "open" /\ Derived(to).witnesses = {}
       /\ Derived(to).node = to /\ Derived(to).method = "closure"
    BY <1>2 DEF FormedDuty, Derived, Open, Statuses, Methods
<1>11. Formed(u)
  <2>1. DOMAIN u.work \subseteq Nat
      BY <1>2, <1>8, NodeFacts DEF Formed
  <2>2. \A x \in DOMAIN u.work : FormedDuty(u.contract, u.work[x])
      BY <1>2, <1>7, <1>8, <1>10 DEF Formed
  <2>3. u.work = [x \in DOMAIN u.work |-> u.work[x]]
      BY <1>8
  <2> QED BY <2>1, <2>2, <2>3, <1>2, <1>7 DEF Formed
<1>12. Witnessed(u)
  <2>1. \A x \in DOMAIN t.work :
            /\ u.work[x].meets = t.work[x].meets
            /\ u.work[x].predicts = t.work[x].predicts
            /\ u.work[x].witnesses = t.work[x].witnesses
            /\ u.work[x].status = t.work[x].status
      BY <1>8
  <2>2. \A x \in DOMAIN u.work :
            x \in DOMAIN t.work \/ (u.work[x].status = "open" /\ u.work[x].witnesses = {})
      BY <1>8, <1>10
  <2>3. DOMAIN t.work \subseteq DOMAIN u.work
      BY <1>8
  <2> QED BY <2>1, <2>2, <2>3, <1>2, <1>7, StaysWitnessed
<1>13. Linked(u)
  <2>1. Budget(u) = Budget(t) /\ DependenciesIndexed(t)
      BY <1>2, <1>7 DEF Budget, Linked
  <2>2. u.edges \subseteq (DOMAIN u.depth) \X (DOMAIN u.depth)
      BY <1>1, <1>2, <1>7, <1>9 DEF Linked
  <2>3. Acyclic(u.edges)
    <3>1. Acyclic(t.edges) /\ t.edges \in SUBSET (Nodes \X Nodes)
        BY <2>1, <1>2, LinkedSets DEF DependenciesIndexed, Acyclic
    <3> QED BY <3>1, <1>1, <1>2, <1>5, <1>7, StaysAcyclic
  <2>4. /\ u.depth \in [DOMAIN u.depth -> Nat] /\ DOMAIN u.depth \subseteq Nodes
    <3>1. \A n \in DOMAIN u.depth : u.depth[n] \in Nat
        BY <1>2, <1>3, <1>9 DEF Linked
    <3> QED BY <3>1, <1>2, <1>9 DEF Linked
  <2>5. Cardinality(DOMAIN u.depth) <= Budget(u).nodes
    <3>1. Cardinality(DOMAIN t.depth \union {to}) = Cardinality(DOMAIN t.depth) + 1
        BY <1>3, FS_AddElement
    <3> QED BY <3>1, <2>1, <1>3, <1>9
  <2>6. DependenciesIndexed(u)
    <3>1. \A e \in u.edges : {e[1], e[2]} \subseteq DOMAIN u.depth
        BY <2>2
    <3>2. \A n \in DOMAIN u.depth : u.depth[n] <= Budget(u).depth
        BY <2>1, <1>5, <1>9 DEF DependenciesIndexed
    <3>3. \A x \in DOMAIN u.work :
              u.work[x].method = "closure" => u.work[x].node \in DOMAIN u.depth
        BY <2>1, <1>8, <1>9, <1>10 DEF DependenciesIndexed
    <3>4. ASSUME NEW n \in DOMAIN u.depth, u.depth[n] > 0
          PROVE  \E e \in u.edges : e[2] = n /\ u.depth[e[1]] + 1 = u.depth[n]
      <4>1. CASE n \in DOMAIN t.depth
        <5>1. t.depth[n] > 0 /\ u.depth[n] = t.depth[n]
            BY <3>4, <4>1, <1>9
        <5>2. PICK e \in t.edges : e[2] = n /\ t.depth[e[1]] + 1 = t.depth[n]
            BY <4>1, <5>1, <2>1 DEF DependenciesIndexed
        <5>3. e[1] \in DOMAIN t.depth /\ e \in u.edges
            BY <5>2, <2>1, <1>7 DEF DependenciesIndexed
        <5> QED BY <5>1, <5>2, <5>3, <1>9
      <4>2. CASE n = to
        <5>1. <<from, to>> \in u.edges /\ u.depth[from] = t.depth[from]
            BY <1>1, <1>7, <1>9
        <5> QED BY <5>1, <4>2, <1>9
      <4> QED BY <3>4, <4>1, <4>2, <1>9
    <3> QED BY <2>3, <3>1, <3>2, <3>3, <3>4 DEF DependenciesIndexed, Acyclic
  <2>7. \A x \in DOMAIN u.work : \A n \in Nodes : x = Duty[n] => u.work[x].node = n
      BY <1>2, <1>8, <1>10, NodeFacts DEF Linked
  <2>8. \A n \in DOMAIN u.depth : \E x \in DOMAIN u.work : u.work[x].node = n
    <3>1. ASSUME NEW n \in DOMAIN t.depth PROVE \E x \in DOMAIN u.work : u.work[x].node = n
        BY <1>2, <1>8 DEF Linked
    <3> QED BY <3>1, <1>8, <1>9, <1>10
  <2> QED BY <2>2, <2>4, <2>5, <2>6, <2>7, <2>8 DEF Linked
<1>14. Cardinality(u.edges) <= Cardinality(t.edges) + 1
  <2>1. IsFiniteSet(t.edges) /\ Cardinality(t.edges) \in Nat
      BY <1>2, LinkedSets
  <2>2. \/ Cardinality(t.edges \union {<<from, to>>}) = Cardinality(t.edges)
        \/ Cardinality(t.edges \union {<<from, to>>}) = Cardinality(t.edges) + 1
      BY <2>1, FS_AddElement
  <2> QED BY <2>1, <2>2, <1>7
<1>15. NoCycle(u) => NoCycle(t)
    BY <1>8 DEF NoCycle
<1>16. o \in DOMAIN u.work /\ u.work[o] = t.work[o] /\ DOMAIN t.depth \subseteq DOMAIN u.depth /\ to \in DOMAIN u.depth
    BY <1>2, <1>8, <1>9
<1> QED BY <1>7, <1>11, <1>12, <1>13, <1>14, <1>15, <1>16 DEF Extends, u, from

LEMMA DiscoverExtends ==
    ASSUME NEW t, NEW o, NEW to, Expandable(t, o, to),
           Budget(t).nodes \in Nat, Budget(t).depth \in Nat
    PROVE  Extends(t, Discover(t, o, Source(t, o), to), o, to)
<1>1. t.depth[Source(t, o)] \in Nat /\ Cardinality(DOMAIN t.depth) \in Nat
    BY SourceIndexed, LinkedSets DEF Expandable, Linked
<1>2. CASE ClosesCycle(t.edges, Source(t, o), to)
    BY <1>2, CycleExtends
<1>3. CASE ~ClosesCycle(t.edges, Source(t, o), to) /\ to \in DOMAIN t.depth
    BY <1>3, EdgeExtends
<1>4. CASE /\ ~ClosesCycle(t.edges, Source(t, o), to) /\ to \notin DOMAIN t.depth
           /\ t.depth[Source(t, o)] + 1 > Budget(t).depth
  <2>1. Discover(t, o, Source(t, o), to) = [t EXCEPT !.limit = "depth"]
      BY <1>4 DEF Discover
  <2> QED BY <2>1, LimitExtends DEF LimitsMet
<1>5. CASE /\ ~ClosesCycle(t.edges, Source(t, o), to) /\ to \notin DOMAIN t.depth
           /\ ~(t.depth[Source(t, o)] + 1 > Budget(t).depth)
           /\ Cardinality(DOMAIN t.depth) >= Budget(t).nodes
  <2>1. Discover(t, o, Source(t, o), to) = [t EXCEPT !.limit = "nodes"]
      BY <1>5 DEF Discover
  <2> QED BY <2>1, LimitExtends DEF LimitsMet
<1>6. CASE /\ ~ClosesCycle(t.edges, Source(t, o), to) /\ to \notin DOMAIN t.depth
           /\ ~(t.depth[Source(t, o)] + 1 > Budget(t).depth)
           /\ ~(Cardinality(DOMAIN t.depth) >= Budget(t).nodes)
    BY <1>1, <1>6, NodeExtends
<1> QED BY <1>2, <1>3, <1>4, <1>5, <1>6

-----------------------------------------------------------------------------
(* All edges of an expanded node.                                            *)

\* A finite set of numbers has a greatest one.
LEMMA MaxOfNodes ==
    ASSUME NEW T \in SUBSET Nodes, T # {}
    PROVE  Max(T) \in T
<1> DEFINE Good == {s \in SUBSET Nodes : s = {} \/ \E m \in s : \A k \in s : m >= k}
<1>1. {} \in Good
    OBVIOUS
<1>2. ASSUME NEW s \in SUBSET Nodes, s # {}, \A x \in s : s \ {x} \in Good PROVE s \in Good
  <2>1. PICK x \in s : TRUE
      BY <1>2
  <2>2. s \ {x} = {} \/ \E m \in s \ {x} : \A k \in s \ {x} : m >= k
      BY <1>2, <2>1
  <2>3. s \subseteq Nat
      BY NodeFacts
  <2>4. \E m \in s : \A k \in s : m >= k
    <3>1. CASE s \ {x} = {}
      <4>1. \A k \in s : k = x /\ x \in Nat
          BY <2>1, <2>3, <3>1
      <4>2. \A k \in s : x >= k
          BY <4>1
      <4> QED BY <2>1, <4>2
    <3>2. CASE \E m \in s \ {x} : \A k \in s \ {x} : m >= k
      <4>1. PICK m \in s \ {x} : \A k \in s \ {x} : m >= k
          BY <3>2
      <4>2. m \in Nat /\ x \in Nat /\ m \in s /\ \A k \in s : k \in Nat /\ (k = x \/ k \in s \ {x})
          BY <2>3
      <4>3. CASE m >= x
        <5>1. \A k \in s : m >= k
            BY <4>1, <4>2, <4>3
        <5> QED BY <4>2, <5>1
      <4>4. CASE ~(m >= x)
        <5>1. \A k \in s : x >= k
            BY <4>1, <4>2, <4>4
        <5> QED BY <2>1, <5>1
      <4> QED BY <4>3, <4>4
    <3> QED BY <2>2, <3>1, <3>2
  <2> QED BY <2>4
<1>3. Good = SUBSET Nodes
  <2>1. Good \in SUBSET (SUBSET Nodes)
      OBVIOUS
  <2> HIDE DEF Good
  <2> QED BY <2>1, <1>1, <1>2, NodeFacts, SubsetsReached
<1>4. \E m \in T : \A k \in T : m >= k
    BY <1>3
<1> QED BY <1>4 DEF Max

\* g tells the state after the edges to each set of targets of S.
TellsStates(s0, o, from, g, S) ==
    g = [T \in S |-> IF T = {} THEN s0
                     ELSE Discover(g[T \ {Max(T)}], o, from, Max(T))]

LEMMA StatesFurther ==
    ASSUME NEW D \in SUBSET Nodes, NEW s0, NEW o, NEW from, NEW n \in Nat, NEW g,
           TellsStates(s0, o, from, g, UpTo(D, n))
    PROVE  \E h : TellsStates(s0, o, from, h, UpTo(D, n + 1))
<1> DEFINE h == [T \in UpTo(D, n + 1) |->
                    IF T = {} THEN s0 ELSE Discover(g[T \ {Max(T)}], o, from, Max(T))]
<1>0. IsFiniteSet(D)
    BY NodeFacts, FS_Subset
<1>1. ASSUME NEW T \in UpTo(D, n) PROVE T \in UpTo(D, n + 1) /\ h[T] = g[T]
  <2>1. T \in SUBSET D /\ Cardinality(T) <= n /\ Cardinality(T) \in Nat
      BY <1>0, PickedOne DEF UpTo
  <2>2. T \in UpTo(D, n + 1)
      BY <2>1 DEF UpTo
  <2> QED BY <2>2 DEF TellsStates
<1>2. ASSUME NEW T \in UpTo(D, n + 1), T # {} PROVE T \ {Max(T)} \in UpTo(D, n)
  <2>1. T \in SUBSET D /\ Cardinality(T) <= n + 1 /\ Max(T) \in T
      BY <1>2, MaxOfNodes DEF UpTo
  <2>2. /\ Cardinality(T) \in Nat /\ T \ {Max(T)} \in SUBSET D
        /\ Cardinality(T \ {Max(T)}) = Cardinality(T) - 1
      BY <1>0, <2>1, PickedOne
  <2> QED BY <2>1, <2>2 DEF UpTo
<1>3. h = [T \in UpTo(D, n + 1) |->
              IF T = {} THEN s0 ELSE Discover(h[T \ {Max(T)}], o, from, Max(T))]
  <2>1. ASSUME NEW T \in UpTo(D, n + 1), T # {}
        PROVE  h[T \ {Max(T)}] = g[T \ {Max(T)}]
      BY <2>1, <1>1, <1>2
  <2> QED BY <2>1
<1> HIDE DEF h
<1> QED BY <1>3 DEF TellsStates

LEMMA StatesTold ==
    ASSUME NEW D \in SUBSET Nodes, NEW s0, NEW o, NEW from
    PROVE  \E g : TellsStates(s0, o, from, g, SUBSET D)
<1> DEFINE Good == {n \in Nat : \E g : TellsStates(s0, o, from, g, UpTo(D, n))}
<1>0. IsFiniteSet(D)
    BY NodeFacts, FS_Subset
<1>1. 0 \in Good
  <2> DEFINE g == [T \in UpTo(D, 0) |-> s0]
  <2>1. g = [T \in UpTo(D, 0) |->
                IF T = {} THEN s0 ELSE Discover(g[T \ {Max(T)}], o, from, Max(T))]
      BY <1>0, NothingLeft
  <2> HIDE DEF g
  <2> QED BY <2>1 DEF TellsStates
<1>2. \A n \in Good : n + 1 \in Good
    BY StatesFurther
<1>3. Good \in SUBSET Nat
    OBVIOUS
<1>4. PICK n \in Good : UpTo(D, n) = SUBSET D
  <2> HIDE DEF Good
  <2> QED BY <1>0, <1>1, <1>2, <1>3, SizesReached
<1> QED BY <1>4

LEMMA ExpandedTold ==
    ASSUME NEW s, NEW o, NEW outcome, outcome.to \in SUBSET Nodes,
           outcome.kind = "completed", s.work[o].method = "closure"
    PROVE  \E g : /\ TellsStates(s, o, Source(s, o), g, SUBSET outcome.to)
                  /\ Expanded(s, o, outcome) = g[outcome.to]
<1> DEFINE from == Source(s, o)
           D == outcome.to
           g == CHOOSE g : TellsStates(s, o, from, g, SUBSET D)
<1>1. TellsStates(s, o, from, g, SUBSET D)
    BY StatesTold
<1>2. Expanded(s, o, outcome) =
          LET it[T \in SUBSET D] ==
                  IF T = {} THEN s ELSE Discover(it[T \ {Max(T)}], o, from, Max(T))
          IN  it[D]
    BY DEF Expanded, MapThenFoldSet, Source
<1>3. g = CHOOSE h : h = [T \in SUBSET D |->
              IF T = {} THEN s ELSE Discover(h[T \ {Max(T)}], o, from, Max(T))]
    BY DEF TellsStates
<1>4. Expanded(s, o, outcome) = g[D]
    BY <1>2, <1>3
<1> QED BY <1>1, <1>4

\* What the edges to a set of targets make of a state.
ExtendsTo(s, t, o, T) ==
    /\ Formed(t) /\ Witnessed(t) /\ Linked(t)
    /\ t.contract = s.contract /\ t.lineage = s.lineage /\ t.cost = s.cost
    /\ o \in DOMAIN t.work
    /\ t.work[o].method = s.work[o].method /\ t.work[o].node = s.work[o].node
    /\ Cardinality(t.edges) <= Cardinality(s.edges) + Cardinality(T)
    /\ DOMAIN s.depth \subseteq DOMAIN t.depth
    /\ NoCycle(t) => NoCycle(s)
    /\ t.limit = None => s.limit = None
    /\ t.limit = None /\ NoCycle(t) => T \subseteq DOMAIN t.depth

LEMMA ExtendsStep ==
    ASSUME NEW s, NEW t, NEW o, NEW T \in SUBSET Nodes, NEW to \in T,
           ExtendsTo(s, t, o, T \ {to}), Linked(s), s.work[o].method = "closure",
           Budget(s).nodes \in Nat, Budget(s).depth \in Nat
    PROVE  ExtendsTo(s, Discover(t, o, Source(s, o), to), o, T)
<1> DEFINE u == Discover(t, o, Source(t, o), to)
<1>1. Source(s, o) = Source(t, o) /\ Budget(t) = Budget(s)
    BY DEF ExtendsTo, Source, Budget
<1>2. Expandable(t, o, to)
    BY DEF ExtendsTo, Expandable
<1>3. Extends(t, u, o, to)
    BY <1>1, <1>2, DiscoverExtends
<1> HIDE DEF u
<1>4. Cardinality(u.edges) <= Cardinality(s.edges) + Cardinality(T)
  <2>1. Cardinality(T) \in Nat /\ Cardinality(T \ {to}) = Cardinality(T) - 1
    <3>1. IsFiniteSet(T)
        BY NodeFacts, FS_Subset
    <3> QED BY <3>1, FS_CardinalityType, FS_RemoveElement
  <2>2. /\ Cardinality(u.edges) \in Nat /\ Cardinality(t.edges) \in Nat
        /\ Cardinality(s.edges) \in Nat
      BY <1>3, LinkedSets DEF Extends, ExtendsTo
  <2>3. /\ Cardinality(u.edges) <= Cardinality(t.edges) + 1
        /\ Cardinality(t.edges) <= Cardinality(s.edges) + Cardinality(T \ {to})
      BY <1>3 DEF Extends, ExtendsTo
  <2> QED BY <2>1, <2>2, <2>3
<1>5. u.limit = None /\ NoCycle(u) => T \subseteq DOMAIN u.depth
    BY <1>3 DEF Extends, ExtendsTo
<1>6. ExtendsTo(s, u, o, T)
    BY <1>3, <1>4, <1>5 DEF Extends, ExtendsTo
<1> QED BY <1>1, <1>6 DEF u

LEMMA ExpandedExtends ==
    ASSUME NEW s, NEW o, NEW outcome, outcome.to \in SUBSET Nodes,
           outcome.kind = "completed", s.work[o].method = "closure",
           Formed(s), Witnessed(s), Linked(s), o \in DOMAIN s.work,
           Budget(s).nodes \in Nat, Budget(s).depth \in Nat
    PROVE  ExtendsTo(s, Expanded(s, o, outcome), o, outcome.to)
<1> DEFINE D == outcome.to
<1>1. PICK g : /\ TellsStates(s, o, Source(s, o), g, SUBSET D)
               /\ Expanded(s, o, outcome) = g[D]
    BY ExpandedTold
<1>2. D \in SUBSET Nodes /\ IsFiniteSet(D)
    BY NodeFacts, FS_Subset
<1> HIDE DEF D
<1>3. ASSUME NEW T \in SUBSET D
      PROVE  /\ T = {} => g[T] = s
             /\ T # {} => g[T] = Discover(g[T \ {Max(T)}], o, Source(s, o), Max(T))
    BY <1>1 DEF TellsStates
<1> DEFINE Good == {T \in SUBSET D : ExtendsTo(s, g[T], o, T)}
<1>4. {} \in Good
  <2>1. g[{}] = s
      BY <1>3
  <2>2. ExtendsTo(s, s, o, {})
    <3>1. Cardinality(s.edges) \in Nat /\ Cardinality({}) = 0
        BY LinkedSets, FS_EmptySet
    <3> QED BY <3>1 DEF ExtendsTo
  <2> QED BY <2>1, <2>2
<1>5. ASSUME NEW T \in SUBSET D, T # {}, \A x \in T : T \ {x} \in Good PROVE T \in Good
  <2>1. T \in SUBSET Nodes /\ Max(T) \in T
      BY <1>2, <1>5, MaxOfNodes
  <2>2. ExtendsTo(s, g[T \ {Max(T)}], o, T \ {Max(T)})
      BY <1>5, <2>1
  <2>3. ExtendsTo(s, Discover(g[T \ {Max(T)}], o, Source(s, o), Max(T)), o, T)
      BY <2>1, <2>2, ExtendsStep
  <2> QED BY <2>3, <1>3, <1>5
<1>6. Good = SUBSET D
  <2>1. Good \in SUBSET (SUBSET D)
      OBVIOUS
  <2> HIDE DEF Good
  <2> QED BY <2>1, <1>2, <1>4, <1>5, SubsetsReached
<1>7. ExtendsTo(s, g[D], o, D)
    BY <1>6
<1> QED BY <1>1, <1>7 DEF D

-----------------------------------------------------------------------------
(* One receipt.                                                              *)

LEMMA BudgetFacts ==
    ASSUME NEW s, s.contract \in Contracts
    PROVE  /\ Budget(s).actions \in Nat /\ Budget(s).cost \in Nat /\ Budget(s).nodes \in Nat
           /\ Budget(s).edges \in Nat /\ Budget(s).depth \in Nat /\ Budget(s).evidence \in Nat
BY ContractAssumption DEF ValidContract, Budget, Limits

LEMMA CostType == \A m \in Methods : Cost(m) \in Nat
BY DEF Methods, Cost

LEMMA StillOpen ==
    ASSUME NEW s, Terminal(s) = None
    PROVE  ~Blocked(s) /\ s.limit = None /\ ~Exhausted(s) /\ Affordable(s) # {}
BY NodeFacts DEF Terminal, Ends

LEMMA OverComplete ==
    ASSUME NEW s, Terminal(s) = "complete"
    PROVE  ~Blocked(s) /\ s.limit = None /\ Complete(s)
BY NodeFacts DEF Terminal, Ends

LEMMA PlannedAffordable ==
    ASSUME NEW s, Formed(s), Terminal(s) = None
    PROVE  Planned(s) \in Affordable(s)
<1>1. Affordable(s) # {} /\ Affordable(s) \in SUBSET Nat
    BY StillOpen DEF Affordable, IsOpen, WithStatus, Formed
<1>2. \E o \in Affordable(s) : \A k \in Affordable(s) : o <= k
    BY <1>1, LeastNumber
<1> QED BY <1>2 DEF Planned

\* What an executor may answer.
LEMMA OutcomeShape ==
    ASSUME NEW s, NEW duty, NEW outcome \in Outcomes(s, duty)
    PROVE  /\ outcome.kind \in {"completed", "nothing", "unavailable"}
           /\ outcome.kind = "completed" =>
                  /\ outcome.to \in SUBSET Nodes
                  /\ duty.method # "closure" => outcome.to = {}
                  /\ duty.method = "closure" =>
                         Cardinality(outcome.to) <= Budget(s).edges - Cardinality(s.edges)
<1>1. CASE outcome \in WithoutResult(duty)
    BY <1>1 DEF WithoutResult, Nothing, Unavailable
<1>2. CASE outcome \notin WithoutResult(duty)
  <2> DEFINE room == Budget(s).edges - Cardinality(s.edges)
             targets == IF duty.method = "closure"
                        THEN {T \in SUBSET Nodes : Cardinality(T) <= room}
                        ELSE {{}}
  <2>1. outcome \in {Completed(seen, to) : seen \in ObservedBy(s.contract, duty), to \in targets}
      BY <1>2 DEF Outcomes
  <2>2. PICK seen \in ObservedBy(s.contract, duty), to \in targets : outcome = Completed(seen, to)
      BY <2>1
  <2> QED BY <2>2 DEF Completed
<1> QED BY <1>1, <1>2

LEMMA ReceiptShape ==
    ASSUME NEW s, NEW r \in Receipts(s)
    PROVE  /\ r.action = Action(s) /\ r.action.duty = Planned(s)
           /\ r.outcome \in Outcomes(s, s.work[Planned(s)])
           /\ r.artifact \notin UsedArtifacts(s)
<1>1. PICK outcome \in Outcomes(s, s.work[Planned(s)]) :
          \E a \in ArtifactsFor(s, s.work[Planned(s)], outcome) \ UsedArtifacts(s) :
              r = [action |-> Action(s), outcome |-> outcome, artifact |-> a]
    BY DEF Receipts
<1> QED BY <1>1 DEF Action

\* What one receipt changes before the edges it reports are followed.
CountedTo(s, r, c) ==
    LET o == r.action.duty
        duty == s.work[o]
        n == Revision(s) + 1
    IN  /\ c = [contract |-> c.contract, lineage |-> c.lineage, cost |-> c.cost,
                work |-> c.work, support |-> c.support, against |-> c.against,
                depth |-> c.depth, edges |-> c.edges, limit |-> c.limit]
        /\ c.contract = s.contract /\ c.lineage = Append(s.lineage, r)
        /\ c.cost = s.cost + Cost(duty.method)
        /\ c.support = Noted(s.support, Judged(duty, r.outcome, TRUE), n)
        /\ c.against = Noted(s.against, Judged(duty, r.outcome, FALSE), n)
        /\ c.depth = s.depth /\ c.edges = s.edges /\ c.limit = s.limit
        /\ DOMAIN c.work = DOMAIN s.work
        /\ c.work = [x \in DOMAIN c.work |-> c.work[x]]
        /\ \A x \in DOMAIN s.work : x # o => c.work[x] = s.work[x]
        /\ c.work[o] = Tried(duty, r.outcome, n)

LEMMA CountedParts ==
    ASSUME NEW s, NEW r, Formed(s), r.action.duty \in DOMAIN s.work
    PROVE  CountedTo(s, r, Counted(s, r))
<1> DEFINE o == r.action.duty
           duty == s.work[o]
           n == Revision(s) + 1
           c == Counted(s, r)
           d == Tried(duty, r.outcome, n)
           Su == Noted(s.support, Judged(duty, r.outcome, TRUE), n)
           Ag == Noted(s.against, Judged(duty, r.outcome, FALSE), n)
<1>1. c = [s EXCEPT !.lineage = Append(@, r),
                    !.cost = @ + Cost(duty.method),
                    !.support = Su,
                    !.against = Ag,
                    !.work[o] = d]
    BY DEF Counted
<1>2. o \in DOMAIN s.work
    OBVIOUS
<1> HIDE DEF c, d, Su, Ag
<1>3. /\ c = [contract |-> c.contract, lineage |-> c.lineage, cost |-> c.cost,
              work |-> c.work, support |-> c.support, against |-> c.against,
              depth |-> c.depth, edges |-> c.edges, limit |-> c.limit]
      /\ c.contract = s.contract /\ c.lineage = Append(s.lineage, r)
      /\ c.cost = s.cost + Cost(duty.method)
      /\ c.support = Su /\ c.against = Ag
      /\ c.depth = s.depth /\ c.edges = s.edges /\ c.limit = s.limit
      /\ c.work = [s.work EXCEPT ![o] = d]
    BY <1>1 DEF Formed
<1>4. /\ DOMAIN c.work = DOMAIN s.work
      /\ c.work = [x \in DOMAIN c.work |-> c.work[x]]
      /\ \A x \in DOMAIN s.work : x # o => c.work[x] = s.work[x]
      /\ c.work[o] = d
    BY <1>2, <1>3 DEF Formed
<1> QED BY <1>3, <1>4 DEF CountedTo, c, d, Su, Ag

\* A receipt that may be issued for the planned action of a sound state.
Issued(s, r) == Sound(s) /\ Terminal(s) = None /\ r \in Receipts(s)

LEMMA IssuedFacts ==
    ASSUME NEW s, NEW r, Issued(s, r)
    PROVE  /\ Formed(s) /\ Witnessed(s) /\ Linked(s) /\ Followed(s) /\ ValidState(s)
           /\ r.action.duty = Planned(s) /\ Planned(s) \in Affordable(s)
           /\ Planned(s) \in DOMAIN s.work
           /\ s.work[Planned(s)].status = "open"
           /\ s.cost + Cost(s.work[Planned(s)].method) <= Budget(s).cost
           /\ r.outcome \in Outcomes(s, s.work[Planned(s)])
           /\ r.artifact \notin UsedArtifacts(s)
           /\ ~Blocked(s) /\ s.limit = None /\ ~Exhausted(s)
           /\ NoCycle(s)
<1>1. Formed(s) /\ Witnessed(s) /\ Linked(s) /\ Followed(s) /\ ValidState(s)
    BY DEF Issued, Sound
<1>2. Planned(s) \in Affordable(s) /\ ~Blocked(s) /\ s.limit = None /\ ~Exhausted(s)
    BY <1>1, StillOpen, PlannedAffordable DEF Issued
<1>3. /\ r.action.duty = Planned(s) /\ r.outcome \in Outcomes(s, s.work[Planned(s)])
      /\ r.artifact \notin UsedArtifacts(s)
    BY ReceiptShape DEF Issued
<1>4. NoCycle(s)
    BY <1>2 DEF Blocked, NoCycle
<1>5. /\ Planned(s) \in DOMAIN s.work /\ s.work[Planned(s)].status = "open"
      /\ s.cost + Cost(s.work[Planned(s)].method) <= Budget(s).cost
    BY <1>2 DEF Affordable, IsOpen, WithStatus
<1> QED BY <1>1, <1>2, <1>3, <1>4, <1>5

LEMMA TriedDuty ==
    ASSUME NEW c, NEW d, FormedDuty(c, d), NEW n,
           NEW outcome, outcome.kind \in {"completed", "nothing", "unavailable"}
    PROVE  LET e == Tried(d, outcome, n)
           IN  /\ FormedDuty(c, e)
               /\ e.claim = d.claim /\ e.method = d.method /\ e.meets = d.meets
               /\ e.predicts = d.predicts /\ e.node = d.node
               /\ e.status = StatusAfter(d, outcome) /\ e.status # "cycle"
               /\ e.status = "satisfied" => outcome.kind = "completed" /\ outcome.seen \in d.meets
               /\ e.witnesses = d.witnesses \union {n}
<1> DEFINE e == Tried(d, outcome, n)
           after == StatusAfter(d, outcome)
<1>1. /\ after \in {"open", "satisfied", "contradicted", "refused"}
      /\ after = "satisfied" => outcome.kind = "completed" /\ outcome.seen \in d.meets
    BY DEF StatusAfter
<1>2. e = [d EXCEPT !.attempts = @ + 1, !.witnesses = @ \union {n}, !.status = after]
    BY DEF Tried
<1> HIDE DEF e, after
<1>3. /\ e.claim = d.claim /\ e.method = d.method /\ e.meets = d.meets
      /\ e.predicts = d.predicts /\ e.node = d.node /\ e.status = after
      /\ e.attempts = d.attempts + 1 /\ e.witnesses = d.witnesses \union {n}
      /\ e = [claim |-> e.claim, method |-> e.method, meets |-> e.meets,
              predicts |-> e.predicts, node |-> e.node, status |-> e.status,
              attempts |-> e.attempts, witnesses |-> e.witnesses]
    BY <1>2 DEF FormedDuty
<1>4. FormedDuty(c, e)
    BY <1>1, <1>3 DEF FormedDuty, Statuses
<1>5. after # "cycle"
    BY <1>1
<1> QED BY <1>1, <1>3, <1>4, <1>5 DEF e, after

\* u has the lineage of s and one receipt more.
GrownBy(s, u, r) ==
    /\ Revision(s) \in Nat /\ Revision(u) = Revision(s) + 1
    /\ Applied(u) = Applied(s) \union {Revision(s) + 1}
    /\ Revision(s) + 1 \notin Applied(s)
    /\ \A i \in Applied(s) : u.lineage[i] = s.lineage[i]
    /\ u.lineage[Revision(s) + 1] = r
    /\ \E S : u.lineage \in Seq(S)

LEMMA LineageGrows ==
    ASSUME NEW s, NEW u, NEW r, Formed(s), u.lineage = Append(s.lineage, r)
    PROVE  GrownBy(s, u, r)
<1>1. PICK S : s.lineage \in Seq(S)
    BY DEF Formed
<1>2. s.lineage \in Seq(S \union {r}) /\ r \in S \union {r}
    BY <1>1
<1>3. u.lineage \in Seq(S \union {r})
    BY <1>2
<1>4. /\ Len(s.lineage) \in Nat /\ Len(u.lineage) = Len(s.lineage) + 1
      /\ \A i \in 1 .. Len(s.lineage) : u.lineage[i] = s.lineage[i]
      /\ u.lineage[Len(s.lineage) + 1] = r
    BY <1>1
<1>5. 1 .. (Len(s.lineage) + 1) = (1 .. Len(s.lineage)) \union {Len(s.lineage) + 1}
    BY <1>4
<1>6. \E T : u.lineage \in Seq(T)
    BY <1>3
<1> QED BY <1>4, <1>5, <1>6 DEF GrownBy, Revision, Applied

LEMMA CountedFormed ==
    ASSUME NEW s, NEW r, Issued(s, r)
    PROVE  Formed(Counted(s, r))
<1> DEFINE o == r.action.duty
           duty == s.work[o]
           n == Revision(s) + 1
           c == Counted(s, r)
<1>1. Formed(s) /\ o = Planned(s) /\ o \in DOMAIN s.work /\ r.outcome \in Outcomes(s, duty)
    BY IssuedFacts
<1>0. CountedTo(s, r, c)
    BY <1>1, CountedParts
<1> HIDE DEF c
<1>2. /\ c = [contract |-> c.contract, lineage |-> c.lineage, cost |-> c.cost,
              work |-> c.work, support |-> c.support, against |-> c.against,
              depth |-> c.depth, edges |-> c.edges, limit |-> c.limit]
      /\ c.contract = s.contract /\ c.lineage = Append(s.lineage, r)
      /\ c.cost = s.cost + Cost(duty.method)
      /\ c.support = Noted(s.support, Judged(duty, r.outcome, TRUE), n)
      /\ c.against = Noted(s.against, Judged(duty, r.outcome, FALSE), n)
      /\ c.limit = s.limit
      /\ DOMAIN c.work = DOMAIN s.work
      /\ c.work = [x \in DOMAIN c.work |-> c.work[x]]
      /\ \A x \in DOMAIN s.work : x # o => c.work[x] = s.work[x]
      /\ c.work[o] = Tried(duty, r.outcome, n)
    BY <1>0 DEF CountedTo
<1>3. FormedDuty(s.contract, duty)
    BY <1>1 DEF Formed
<1>4. r.outcome.kind \in {"completed", "nothing", "unavailable"}
    BY <1>1, OutcomeShape
<1>5. FormedDuty(s.contract, Tried(duty, r.outcome, n))
    BY <1>3, <1>4, TriedDuty
<1>6. duty.method \in Methods
    BY <1>3 DEF FormedDuty
<1> HIDE DEF c, duty, o, n
<1>7. \E S : c.lineage \in Seq(S)
    BY <1>1, <1>2, LineageGrows DEF GrownBy
<1>8. c.cost \in Nat
    BY <1>1, <1>2, <1>6, CostType DEF Formed
<1>9. \A x \in DOMAIN c.work : FormedDuty(c.contract, c.work[x])
    BY <1>1, <1>2, <1>5 DEF Formed
<1>10. /\ c.support = [h \in Hypotheses(c.contract) |-> c.support[h]]
       /\ c.against = [h \in Hypotheses(c.contract) |-> c.against[h]]
  <2>1. DOMAIN s.support = Hypotheses(s.contract) /\ DOMAIN s.against = Hypotheses(s.contract)
      BY <1>1 DEF Formed
  <2> QED BY <2>1, <1>2 DEF Noted
<1> QED BY <1>1, <1>2, <1>7, <1>8, <1>9, <1>10 DEF Formed, c

LEMMA CountedWitnessed ==
    ASSUME NEW s, NEW r, Issued(s, r)
    PROVE  Witnessed(Counted(s, r))
<1> DEFINE o == r.action.duty
           duty == s.work[o]
           n == Revision(s) + 1
           c == Counted(s, r)
<1>1. Formed(s) /\ Witnessed(s) /\ o \in DOMAIN s.work /\ r.outcome \in Outcomes(s, duty)
    BY IssuedFacts
<1>0. CountedTo(s, r, c)
    BY <1>1, CountedParts
<1> HIDE DEF c
<1>2. /\ c.contract = s.contract /\ c.lineage = Append(s.lineage, r)
      /\ c.support = Noted(s.support, Judged(duty, r.outcome, TRUE), n)
      /\ c.against = Noted(s.against, Judged(duty, r.outcome, FALSE), n)
      /\ DOMAIN c.work = DOMAIN s.work
      /\ \A x \in DOMAIN s.work : x # o => c.work[x] = s.work[x]
      /\ c.work[o] = Tried(duty, r.outcome, n)
    BY <1>0 DEF CountedTo
<1>3. FormedDuty(s.contract, duty) /\ r.outcome.kind \in {"completed", "nothing", "unavailable"}
    BY <1>1, OutcomeShape DEF Formed
<1>4. /\ c.work[o].meets = duty.meets /\ c.work[o].predicts = duty.predicts
      /\ c.work[o].status = "satisfied" =>
             r.outcome.kind = "completed" /\ r.outcome.seen \in duty.meets
      /\ c.work[o].witnesses = duty.witnesses \union {n}
    BY <1>2, <1>3, TriedDuty
<1>5. /\ n \in Nat
      /\ Applied(c) = Applied(s) \union {n} /\ n \notin Applied(s)
      /\ \A i \in Applied(s) : c.lineage[i] = s.lineage[i]
      /\ c.lineage[n] = r
  <2>1. GrownBy(s, c, r)
      BY <1>1, <1>2, LineageGrows
  <2> QED BY <2>1 DEF GrownBy
<1>6. \A x \in DOMAIN s.work : c.work[x].meets = s.work[x].meets /\ c.work[x].predicts = s.work[x].predicts
    BY <1>2, <1>4
<1>7. \A h \in Hypotheses(s.contract) :
          /\ c.support[h] = s.support[h] \union (IF h \in Judged(duty, r.outcome, TRUE) THEN {n} ELSE {})
          /\ c.against[h] = s.against[h] \union (IF h \in Judged(duty, r.outcome, FALSE) THEN {n} ELSE {})
  <2>1. DOMAIN s.support = Hypotheses(s.contract) /\ DOMAIN s.against = Hypotheses(s.contract)
      BY <1>1 DEF Formed
  <2> QED BY <2>1, <1>2 DEF Noted
<1>8. \A h : h \in Judged(duty, r.outcome, FALSE) <=>
                 /\ r.outcome.kind = "completed"
                 /\ h \in DOMAIN duty.predicts /\ r.outcome.seen \notin duty.predicts[h]
    BY DEF Judged
<1>9. duty = s.work[o] /\ o = r.action.duty /\ Hypotheses(c.contract) = Hypotheses(s.contract)
    BY <1>2
<1> HIDE DEF c, duty, o, n
<1>10. /\ \A i \in Applied(s) : Seen(c, i) = Seen(s, i) /\ DutyOfReceipt(c, i) = DutyOfReceipt(s, i)
       /\ Seen(c, n) = r.outcome /\ DutyOfReceipt(c, n) = o
    BY <1>5, <1>9 DEF Seen, DutyOfReceipt
<1>11. \A i \in Applied(c) : DutyOfReceipt(c, i) \in DOMAIN c.work
    BY <1>1, <1>2, <1>5, <1>10 DEF Witnessed
<1>12. ASSUME NEW x \in DOMAIN c.work, c.work[x].status = "satisfied"
       PROVE  \E i \in Applied(c) : /\ DutyOfReceipt(c, i) = x
                                    /\ Seen(c, i).kind = "completed"
                                    /\ Seen(c, i).seen \in c.work[x].meets
  <2>1. CASE x = o
      BY <2>1, <1>4, <1>5, <1>10, <1>12
  <2>2. CASE x # o
    <3>1. x \in DOMAIN s.work /\ s.work[x].status = "satisfied"
        BY <2>2, <1>2, <1>12
    <3>2. PICK i \in Applied(s) : /\ DutyOfReceipt(s, i) = x
                                  /\ Seen(s, i).kind = "completed"
                                  /\ Seen(s, i).seen \in s.work[x].meets
        BY <3>1, <1>1 DEF Witnessed
    <3> QED BY <3>1, <3>2, <1>5, <1>6, <1>10
  <2> QED BY <2>1, <2>2
<1>13. \A x \in DOMAIN c.work : c.work[x].witnesses \subseteq Applied(c)
  <2>1. \A x \in DOMAIN s.work : s.work[x].witnesses \subseteq Applied(s)
      BY <1>1 DEF Witnessed
  <2> QED BY <2>1, <1>1, <1>2, <1>4, <1>5, <1>9
<1>14. \A i \in Applied(s) : \A h : SpeaksAgainst(c, i, h) = SpeaksAgainst(s, i, h)
  <2>1. \A i \in Applied(s) : DutyOfReceipt(s, i) \in DOMAIN s.work
      BY <1>1 DEF Witnessed
  <2> QED BY <2>1, <1>6, <1>10 DEF SpeaksAgainst
<1>15. \A h : SpeaksAgainst(c, n, h) <=> h \in Judged(duty, r.outcome, FALSE)
    BY <1>1, <1>6, <1>8, <1>9, <1>10 DEF SpeaksAgainst
<1>16. ASSUME NEW h \in Hypotheses(c.contract)
       PROVE  /\ c.support[h] \subseteq Applied(c)
              /\ c.against[h] = {i \in Applied(c) : SpeaksAgainst(c, i, h)}
  <2>1. s.support[h] \subseteq Applied(s) /\ s.against[h] = {i \in Applied(s) : SpeaksAgainst(s, i, h)}
      BY <1>1, <1>9 DEF Witnessed
  <2>2. {i \in Applied(s) : SpeaksAgainst(s, i, h)} = {i \in Applied(s) : SpeaksAgainst(c, i, h)}
      BY <1>14
  <2>3. c.support[h] \subseteq Applied(c)
      BY <2>1, <1>5, <1>7, <1>9
  <2>4. {i \in Applied(c) : SpeaksAgainst(c, i, h)} =
            {i \in Applied(s) : SpeaksAgainst(c, i, h)}
                \union (IF SpeaksAgainst(c, n, h) THEN {n} ELSE {})
      BY <1>5
  <2>5. c.against[h] =
            s.against[h] \union (IF SpeaksAgainst(c, n, h) THEN {n} ELSE {})
      BY <1>7, <1>9, <1>15
  <2> QED BY <2>1, <2>2, <2>3, <2>4, <2>5
<1> QED BY <1>11, <1>12, <1>13, <1>16 DEF Witnessed, c

LEMMA CountedLinked ==
    ASSUME NEW s, NEW r, Issued(s, r)
    PROVE  Linked(Counted(s, r))
<1> DEFINE o == r.action.duty
           duty == s.work[o]
           n == Revision(s) + 1
           c == Counted(s, r)
<1>1. Formed(s) /\ Linked(s) /\ o \in DOMAIN s.work /\ r.outcome \in Outcomes(s, duty)
    BY IssuedFacts
<1>0. CountedTo(s, r, c)
    BY <1>1, CountedParts
<1> HIDE DEF c
<1>2. /\ c.contract = s.contract /\ c.depth = s.depth /\ c.edges = s.edges
      /\ DOMAIN c.work = DOMAIN s.work
      /\ \A x \in DOMAIN s.work : x # o => c.work[x] = s.work[x]
      /\ c.work[o] = Tried(duty, r.outcome, n)
    BY <1>0 DEF CountedTo
<1>3. FormedDuty(s.contract, duty) /\ r.outcome.kind \in {"completed", "nothing", "unavailable"}
    BY <1>1, OutcomeShape DEF Formed
<1>4. c.work[o].method = duty.method /\ c.work[o].node = duty.node
    BY <1>2, <1>3, TriedDuty
<1>5. \A x \in DOMAIN s.work : c.work[x].method = s.work[x].method /\ c.work[x].node = s.work[x].node
    BY <1>2, <1>4
<1> HIDE DEF c, duty, o, n
<1>6. Budget(c) = Budget(s) /\ DependenciesIndexed(s)
    BY <1>1, <1>2 DEF Budget, Linked
<1>7. \A e \in c.edges : {e[1], e[2]} \subseteq DOMAIN c.depth
    BY <1>6, <1>2 DEF DependenciesIndexed
<1>8. \A m \in DOMAIN c.depth : c.depth[m] <= Budget(c).depth
    BY <1>6, <1>2 DEF DependenciesIndexed
<1>9. \A x \in DOMAIN c.work :
          c.work[x].method = "closure" => c.work[x].node \in DOMAIN c.depth
    BY <1>6, <1>2, <1>5 DEF DependenciesIndexed
<1>10. \A m \in DOMAIN c.depth :
           c.depth[m] > 0 => \E e \in c.edges : e[2] = m /\ c.depth[e[1]] + 1 = c.depth[m]
    BY <1>6, <1>2 DEF DependenciesIndexed
<1>11. Acyclic(c.edges)
    BY <1>6, <1>2 DEF DependenciesIndexed, Acyclic
<1>12. DependenciesIndexed(c)
    BY <1>7, <1>8, <1>9, <1>10, <1>11 DEF DependenciesIndexed, Acyclic
<1> QED BY <1>1, <1>2, <1>5, <1>6, <1>12 DEF Linked, c

\* What following the reported edges, if any, makes of the counted receipt.
LEMMA AdvanceExtends ==
    ASSUME NEW s, NEW r, Issued(s, r)
    PROVE  LET u == Advance(s, r)
               c == Counted(s, r)
           IN  /\ Formed(u) /\ Witnessed(u) /\ Linked(u)
               /\ u.contract = s.contract /\ u.lineage = Append(s.lineage, r)
               /\ u.cost = c.cost
               /\ Cardinality(u.edges) <= Budget(s).edges
               /\ DOMAIN s.depth \subseteq DOMAIN u.depth
               /\ u.limit = None /\ NoCycle(u) /\ r.outcome.kind = "completed" =>
                      r.outcome.to \subseteq DOMAIN u.depth
<1> DEFINE o == r.action.duty
           c == Counted(s, r)
           u == Advance(s, r)
           duty == s.work[o]
<1>1. /\ Formed(s) /\ Linked(s) /\ ValidState(s) /\ o \in DOMAIN s.work
      /\ r.outcome \in Outcomes(s, duty)
    BY IssuedFacts
<1>2. Formed(c) /\ Witnessed(c) /\ Linked(c)
    BY CountedFormed, CountedWitnessed, CountedLinked
<1>3. CountedTo(s, r, c)
    BY <1>1, CountedParts
<1>4. /\ c.contract = s.contract /\ c.lineage = Append(s.lineage, r)
      /\ c.depth = s.depth /\ c.edges = s.edges /\ DOMAIN c.work = DOMAIN s.work
      /\ c.work[o] = Tried(duty, r.outcome, Revision(s) + 1)
    BY <1>3 DEF CountedTo
<1>5. /\ FormedDuty(s.contract, duty)
      /\ r.outcome.kind \in {"completed", "nothing", "unavailable"}
      /\ r.outcome.kind = "completed" =>
             /\ r.outcome.to \in SUBSET Nodes
             /\ duty.method # "closure" => r.outcome.to = {}
             /\ duty.method = "closure" =>
                    Cardinality(r.outcome.to) <= Budget(s).edges - Cardinality(s.edges)
    BY <1>1, OutcomeShape DEF Formed
<1>6. c.work[o].method = duty.method
    BY <1>4, <1>5, TriedDuty
<1>7. u = Expanded(c, o, r.outcome)
    BY DEF Advance
<1>8. s.contract \in Contracts /\ Budget(c) = Budget(s)
    BY <1>1, <1>4 DEF Formed, Budget
<1>9. /\ Budget(s).edges \in Nat /\ Budget(c).nodes \in Nat /\ Budget(c).depth \in Nat
      /\ Cardinality(s.edges) \in Nat /\ Cardinality(s.edges) <= Budget(s).edges
    BY <1>1, <1>8, BudgetFacts, LinkedSets DEF ValidState, WithinBudget
<1> HIDE DEF c, u, o, duty
<1>10. CASE r.outcome.kind = "completed" /\ duty.method = "closure"
  <2>1. ExtendsTo(c, u, o, r.outcome.to)
      BY <1>1, <1>2, <1>4, <1>5, <1>6, <1>7, <1>9, <1>10, ExpandedExtends
  <2>2. IsFiniteSet(r.outcome.to) /\ Cardinality(r.outcome.to) \in Nat
    <3>1. r.outcome.to \in SUBSET Nodes
        BY <1>5, <1>10
    <3>2. IsFiniteSet(r.outcome.to)
        BY <3>1, NodeFacts, FS_Subset
    <3> QED BY <3>2, FS_CardinalityType
  <2>3. Formed(u) /\ Witnessed(u) /\ Linked(u)
      BY <2>1 DEF ExtendsTo
  <2>4. Cardinality(u.edges) \in Nat
      BY <2>3, LinkedSets
  <2>5. Cardinality(u.edges) <= Cardinality(s.edges) + Cardinality(r.outcome.to)
      BY <2>1, <1>4 DEF ExtendsTo
  <2>6. Cardinality(u.edges) <= Budget(s).edges
      BY <2>2, <2>4, <2>5, <1>5, <1>9, <1>10
  <2>7. /\ u.contract = s.contract /\ u.lineage = Append(s.lineage, r) /\ u.cost = c.cost
        /\ DOMAIN s.depth \subseteq DOMAIN u.depth
        /\ u.limit = None /\ NoCycle(u) => r.outcome.to \subseteq DOMAIN u.depth
      BY <2>1, <1>4 DEF ExtendsTo
  <2> QED BY <2>3, <2>6, <2>7 DEF c, u
<1>11. CASE ~(r.outcome.kind = "completed" /\ duty.method = "closure")
  <2>1. u = c
      BY <1>6, <1>7, <1>11 DEF Expanded
  <2>2. r.outcome.kind = "completed" => r.outcome.to \subseteq DOMAIN u.depth
      BY <1>5, <1>11
  <2>3. Cardinality(u.edges) <= Budget(s).edges
      BY <2>1, <1>4, <1>9
  <2> QED BY <2>1, <2>2, <2>3, <1>2, <1>4 DEF c, u
<1> QED BY <1>10, <1>11

\* The evidence of one revision more is counted once more.
LEMMA ArtifactsCounted ==
    ASSUME NEW s, NEW u, NEW r, Formed(s), GrownBy(s, u, r),
           r.artifact \notin UsedArtifacts(s), Cardinality(UsedArtifacts(s)) = Revision(s)
    PROVE  Cardinality(UsedArtifacts(u)) = Revision(u)
<1> DEFINE A == UsedArtifacts(s)
           f == [i \in Applied(s) |-> s.lineage[i].artifact]
<1>1. Revision(s) \in Nat /\ IsFiniteSet(Applied(s))
    BY FS_Interval DEF GrownBy, Applied
<1>2. f \in Surjection(Applied(s), A)
    BY DEF Surjection, UsedArtifacts
<1>3. IsFiniteSet(A)
  <2> HIDE DEF f, A
  <2> QED BY <1>1, <1>2, FS_Surjection
<1>4. UsedArtifacts(u) = A \union {r.artifact}
  <2>1. /\ Applied(u) = Applied(s) \union {Revision(s) + 1}
        /\ \A i \in Applied(s) : u.lineage[i] = s.lineage[i]
        /\ u.lineage[Revision(s) + 1] = r
      BY DEF GrownBy
  <2> QED BY <2>1 DEF UsedArtifacts
<1>5. A = UsedArtifacts(s)
    OBVIOUS
<1> HIDE DEF A
<1>6. Cardinality(A \union {r.artifact}) = Cardinality(A) + 1
    BY <1>3, <1>5, FS_AddElement
<1>7. Revision(u) = Revision(s) + 1
    BY DEF GrownBy
<1> QED BY <1>4, <1>5, <1>6, <1>7

\* advance keeps a state sound, and validate_state accepts what it makes.
LEMMA AdvanceSound ==
    ASSUME NEW s, NEW r, Issued(s, r)
    PROVE  Sound(Advance(s, r))
<1> DEFINE u == Advance(s, r)
           c == Counted(s, r)
           o == Planned(s)
<1>1. /\ Formed(u) /\ Witnessed(u) /\ Linked(u)
      /\ u.contract = s.contract /\ u.lineage = Append(s.lineage, r)
      /\ u.cost = c.cost
      /\ Cardinality(u.edges) <= Budget(s).edges
      /\ DOMAIN s.depth \subseteq DOMAIN u.depth
      /\ u.limit = None /\ NoCycle(u) /\ r.outcome.kind = "completed" =>
             r.outcome.to \subseteq DOMAIN u.depth
    BY AdvanceExtends
<1>2. /\ Formed(s) /\ Followed(s) /\ ValidState(s)
      /\ r.action.duty = o /\ o \in DOMAIN s.work
      /\ s.work[o].status = "open"
      /\ s.cost + Cost(s.work[o].method) <= Budget(s).cost
      /\ r.artifact \notin UsedArtifacts(s)
      /\ s.limit = None /\ ~Exhausted(s) /\ NoCycle(s)
    BY IssuedFacts
<1>3. CountedTo(s, r, c)
    BY <1>2, CountedParts
<1> HIDE DEF u, c, o
<1>4. c.cost = s.cost + Cost(s.work[o].method)
    BY <1>2, <1>3 DEF CountedTo
<1>5. GrownBy(s, u, r)
    BY <1>1, <1>2, LineageGrows
<1>6. Budget(u) = Budget(s) /\ s.contract \in Contracts
    BY <1>1, <1>2 DEF Budget, Formed
<1>7. WithinBudget(u)
  <2>1. ~(Revision(s) >= Budget(s).actions) /\ ~(Revision(s) >= Budget(s).evidence)
      BY <1>2 DEF Exhausted
  <2>2. Revision(s) \in Nat /\ Revision(u) = Revision(s) + 1
      BY <1>5 DEF GrownBy
  <2>3. Budget(s).actions \in Nat /\ Budget(s).evidence \in Nat
      BY <1>6, BudgetFacts
  <2>4. Revision(u) <= Budget(u).actions /\ Revision(u) <= Budget(u).evidence
      BY <2>1, <2>2, <2>3, <1>6
  <2>5. u.cost <= Budget(u).cost
      BY <1>1, <1>2, <1>4, <1>6
  <2>6. Cardinality(DOMAIN u.depth) <= Budget(u).nodes
      BY <1>1 DEF Linked
  <2> QED BY <2>4, <2>5, <2>6, <1>1, <1>6 DEF WithinBudget
<1>8. Accounted(u)
  <2>1. Cardinality(UsedArtifacts(s)) = Revision(s)
      BY <1>2 DEF ValidState, Accounted
  <2>2. Cardinality(UsedArtifacts(u)) = Revision(u)
      BY <2>1, <1>2, <1>5, ArtifactsCounted
  <2>3. \A x \in DOMAIN u.work : u.work[x].witnesses \subseteq Applied(u)
      BY <1>1 DEF Witnessed
  <2>4. \A h \in Hypotheses(u.contract) : u.support[h] \union u.against[h] \subseteq Applied(u)
      BY <1>1 DEF Witnessed
  <2> QED BY <2>2, <2>3, <2>4 DEF Accounted
<1>9. DependenciesIndexed(u)
    BY <1>1 DEF Linked
<1>10. Followed(u)
  <2> SUFFICES ASSUME u.limit = None, NoCycle(u), NEW i \in Applied(u), Seen(u, i).kind = "completed"
               PROVE  Seen(u, i).to \subseteq DOMAIN u.depth
      BY DEF Followed
  <2>1. CASE i \in Applied(s)
    <3>1. Seen(u, i) = Seen(s, i)
        BY <2>1, <1>5 DEF GrownBy, Seen
    <3>2. Seen(s, i).to \subseteq DOMAIN s.depth
        BY <2>1, <3>1, <1>2 DEF Followed
    <3> QED BY <3>1, <3>2, <1>1
  <2>2. CASE i = Revision(s) + 1
    <3>1. Seen(u, i) = r.outcome
        BY <2>2, <1>5 DEF GrownBy, Seen
    <3> QED BY <3>1, <1>1
  <2>3. i \in Applied(s) \/ i = Revision(s) + 1
      BY <1>5 DEF GrownBy
  <2> QED BY <2>1, <2>2, <2>3
<1> QED BY <1>1, <1>7, <1>8, <1>9, <1>10 DEF Sound, ValidState, u

-----------------------------------------------------------------------------
(* The first state.                                                          *)

LEMMA ContractFacts ==
    ASSUME NEW c \in Contracts
    PROVE  /\ DOMAIN Content[c].duties \subseteq Nat
           /\ \A o \in DOMAIN Content[c].duties :
                  /\ Content[c].duties[o].method \in Methods
                  /\ Content[c].duties[o].node \in
                         IF Content[c].duties[o].method = "closure" THEN Nodes ELSE {None}
                  /\ \A n \in Nodes : o = Duty[n] => Content[c].duties[o].node = n
                  /\ DOMAIN Content[c].duties[o].predicts \in Content[c].families \union {{}}
           /\ \A family, other \in Content[c].families :
                  family = other \/ family \intersect other = {}
<1>1. ValidContract(Content[c])
    BY ContractAssumption
<1> QED BY <1>1 DEF ValidContract

LEMMA GenesisSound ==
    ASSUME NEW c \in Initializable
    PROVE  Sound(Genesis(c))
<1> DEFINE s == Genesis(c)
           duties == Content[c].duties
           roots == {duties[o].node : o \in DOMAIN duties} \ {None}
<1>1. c \in Contracts /\ ValidState(s)
    BY DEF Initializable
<1>2. /\ s = [contract |-> s.contract, lineage |-> s.lineage, cost |-> s.cost,
              work |-> s.work, support |-> s.support, against |-> s.against,
              depth |-> s.depth, edges |-> s.edges, limit |-> s.limit]
      /\ s.contract = c /\ s.lineage = <<>> /\ s.cost = 0 /\ s.edges = {} /\ s.limit = None
      /\ s.work = [o \in DOMAIN duties |-> Declared(c, o)]
      /\ s.support = [h \in Hypotheses(c) |-> {}]
      /\ s.against = [h \in Hypotheses(c) |-> {}]
      /\ s.depth = [n \in roots |-> 0]
    BY DEF Genesis
<1>3. ASSUME NEW o \in DOMAIN duties
      PROVE  /\ Declared(c, o).method = duties[o].method
             /\ Declared(c, o).node = duties[o].node
             /\ Declared(c, o).predicts = duties[o].predicts
             /\ Declared(c, o).status = "open" /\ Declared(c, o).witnesses = {}
             /\ FormedDuty(c, Declared(c, o))
  <2>1. /\ Declared(c, o).method = duties[o].method
        /\ Declared(c, o).node = duties[o].node
        /\ Declared(c, o).predicts = duties[o].predicts
        /\ Declared(c, o).status = "open" /\ Declared(c, o).witnesses = {}
        /\ Declared(c, o).attempts = 0
        /\ Declared(c, o) =
               [claim |-> Declared(c, o).claim, method |-> Declared(c, o).method,
                meets |-> Declared(c, o).meets, predicts |-> Declared(c, o).predicts,
                node |-> Declared(c, o).node, status |-> Declared(c, o).status,
                attempts |-> Declared(c, o).attempts, witnesses |-> Declared(c, o).witnesses]
      BY DEF Declared, Open
  <2>2. FormedDuty(c, Declared(c, o))
      BY <2>1, <1>1, ContractFacts DEF FormedDuty, Statuses
  <2> QED BY <2>1, <2>2
<1> HIDE DEF s
<1>4. Formed(s)
  <2>1. s.lineage \in Seq({})
      BY <1>2
  <2>2. DOMAIN s.work = DOMAIN duties /\ DOMAIN s.work \subseteq Nat
      BY <1>1, <1>2, ContractFacts
  <2>3. \A o \in DOMAIN s.work : FormedDuty(s.contract, s.work[o])
      BY <2>2, <1>2, <1>3
  <2>4. \E S : s.lineage \in Seq(S)
      BY <2>1
  <2>5. /\ s.support = [h \in Hypotheses(s.contract) |-> s.support[h]]
        /\ s.against = [h \in Hypotheses(s.contract) |-> s.against[h]]
        /\ s.work = [o \in DOMAIN s.work |-> s.work[o]]
      BY <1>2
  <2>6. /\ s = [contract |-> s.contract, lineage |-> s.lineage, cost |-> s.cost,
                work |-> s.work, support |-> s.support, against |-> s.against,
                depth |-> s.depth, edges |-> s.edges, limit |-> s.limit]
        /\ s.contract \in Contracts /\ s.cost \in Nat /\ s.limit \in LimitsMet \union {None}
      BY <1>1, <1>2
  <2> QED BY <2>2, <2>3, <2>4, <2>5, <2>6 DEF Formed
<1>5. Applied(s) = {}
    BY <1>2 DEF Applied, Revision
<1>6. Witnessed(s)
  <2>1. \A o \in DOMAIN s.work : s.work[o].status = "open" /\ s.work[o].witnesses = {}
      BY <1>2, <1>3
  <2>2. \A h \in Hypotheses(s.contract) : s.support[h] = {} /\ s.against[h] = {}
      BY <1>2
  <2> QED BY <2>1, <2>2, <1>5 DEF Witnessed
<1>7. Linked(s)
  <2>1. roots \subseteq Nodes
      BY <1>1, ContractFacts
  <2>2. s.depth \in [DOMAIN s.depth -> Nat] /\ DOMAIN s.depth = roots
      BY <1>2
  <2>3. Cardinality(DOMAIN s.depth) <= Budget(s).nodes /\ DependenciesIndexed(s)
      BY <1>1 DEF ValidState, WithinBudget
  <2>4. \A o \in DOMAIN s.work : \A n \in Nodes : o = Duty[n] => s.work[o].node = n
      BY <1>1, <1>2, <1>3, ContractFacts
  <2>5. \A n \in DOMAIN s.depth : \E o \in DOMAIN s.work : s.work[o].node = n
    <3> SUFFICES ASSUME NEW n \in roots PROVE \E o \in DOMAIN s.work : s.work[o].node = n
        BY <2>2
    <3>1. PICK o \in DOMAIN duties : duties[o].node = n
        OBVIOUS
    <3>2. o \in DOMAIN s.work /\ s.work[o] = Declared(c, o)
        BY <1>2
    <3> QED BY <3>1, <3>2, <1>3
  <2>6. s.edges = {}
      BY <1>2
  <2> QED BY <2>1, <2>2, <2>3, <2>4, <2>5, <2>6 DEF Linked
<1>8. Followed(s)
    BY <1>5 DEF Followed
<1> QED BY <1>1, <1>4, <1>6, <1>7, <1>8 DEF Sound, s

-----------------------------------------------------------------------------
(* The lineage.                                                              *)

\* What a worker holds was loaded from disk, may be issued for what it loaded, and
\* once it is persisted has its successor on disk.
WorkerOK(w) ==
    /\ at[w] \in {"idle", "loaded", "holding", "persisted"}
    /\ expected[w] \in states \union {None}
    /\ held[w] \in receipts \union {None}
    /\ at[w] # "idle" => expected[w] \in states
    /\ at[w] \in {"holding", "persisted"} =>
           /\ Terminal(expected[w]) = None
           /\ held[w] \in receipts /\ held[w] \in Receipts(expected[w])
    /\ at[w] = "persisted" => Successor(w) \in states

KInv ==
    /\ head \in states \union {Absent}
    /\ at = [w \in Workers |-> at[w]]
    /\ expected = [w \in Workers |-> expected[w]]
    /\ held = [w \in Workers |-> held[w]]
    /\ acked \subseteq receipts
    /\ crashes \in 0 .. MaxCrashes
    /\ \A s \in states : Sound(s)
    /\ \A w \in Workers : WorkerOK(w)
    /\ \A r \in acked : head # Absent /\ Applies(r, head)

LEMMA Present == \A s : Sound(s) => s # Absent
BY NodeFacts DEF Sound, Formed, Absent

LEMMA WorkerKeeps ==
    ASSUME NEW v \in Workers, WorkerOK(v),
           at'[v] = at[v], expected'[v] = expected[v], held'[v] = held[v],
           states \subseteq states', receipts \subseteq receipts'
    PROVE  WorkerOK(v)'
<1>1. Successor(v)' = Successor(v)
    BY DEF Successor
<1> QED BY <1>1 DEF WorkerOK

\* One worker moves and the others stay: what there is to show.
LEMMA OneMoves ==
    ASSUME KInv, NEW w \in Workers,
           at' = [at EXCEPT ![w] = at'[w]],
           expected' = [expected EXCEPT ![w] = expected'[w]],
           held' = [held EXCEPT ![w] = held'[w]],
           states \subseteq states', receipts \subseteq receipts', WorkerOK(w)'
    PROVE  /\ at' = [v \in Workers |-> at'[v]]
           /\ expected' = [v \in Workers |-> expected'[v]]
           /\ held' = [v \in Workers |-> held'[v]]
           /\ \A v \in Workers : WorkerOK(v)'
<1>1. /\ at = [v \in Workers |-> at[v]] /\ expected = [v \in Workers |-> expected[v]]
      /\ held = [v \in Workers |-> held[v]] /\ \A v \in Workers : WorkerOK(v)
    BY DEF KInv
<1>2. /\ at' = [v \in Workers |-> at'[v]] /\ expected' = [v \in Workers |-> expected'[v]]
      /\ held' = [v \in Workers |-> held'[v]]
    BY <1>1
<1>3. ASSUME NEW v \in Workers, v # w PROVE WorkerOK(v)'
  <2>1. at'[v] = at[v] /\ expected'[v] = expected[v] /\ held'[v] = held[v]
      BY <1>1, <1>3
  <2> QED BY <2>1, <1>1, WorkerKeeps
<1> QED BY <1>2, <1>3

LEMMA NoneMoves ==
    ASSUME KInv, UNCHANGED local, states \subseteq states', receipts \subseteq receipts'
    PROVE  /\ at' = [v \in Workers |-> at'[v]]
           /\ expected' = [v \in Workers |-> expected'[v]]
           /\ held' = [v \in Workers |-> held'[v]]
           /\ \A v \in Workers : WorkerOK(v)'
<1>1. at' = at /\ expected' = expected /\ held' = held
    BY DEF local
<1>2. \A v \in Workers : WorkerOK(v)'
    BY <1>1, WorkerKeeps DEF KInv
<1> QED BY <1>1, <1>2 DEF KInv

LEMMA IdleMoves ==
    ASSUME KInv, NEW w \in Workers, Idle(w)
    PROVE  /\ WorkerOK(w)'
           /\ at' = [at EXCEPT ![w] = at'[w]]
           /\ expected' = [expected EXCEPT ![w] = expected'[w]]
           /\ held' = [held EXCEPT ![w] = held'[w]]
<1>1. at = [v \in Workers |-> at[v]] /\ expected = [v \in Workers |-> expected[v]] /\ held = [v \in Workers |-> held[v]]
    BY DEF KInv
<1>2. at'[w] = "idle" /\ expected'[w] = None /\ held'[w] = None
    BY <1>1 DEF Idle
<1> QED BY <1>1, <1>2 DEF Idle, WorkerOK

\* The successor of what a worker loaded is sound, and has one receipt more.
LEMMA SuccessorFacts ==
    ASSUME KInv, NEW w \in Workers, at[w] \in {"holding", "persisted"}
    PROVE  /\ Sound(Successor(w)) /\ expected[w] \in states
           /\ held[w] \in receipts /\ Terminal(expected[w]) = None
           /\ Applies(held[w], Successor(w))
           /\ \A r : Applies(r, expected[w]) => Applies(r, Successor(w))
<1> DEFINE s == expected[w]
           r == held[w]
<1>1. /\ WorkerOK(w) /\ s \in states /\ Terminal(s) = None /\ r \in Receipts(s)
      /\ r \in receipts
    BY DEF KInv, WorkerOK
<1>2. Issued(s, r)
    BY <1>1 DEF KInv, Issued
<1>3. Successor(w) = Advance(s, r)
    BY DEF Successor
<1> HIDE DEF s, r
<1>4. Sound(Successor(w))
    BY <1>2, <1>3, AdvanceSound
<1>5. GrownBy(s, Successor(w), r)
  <2>1. Advance(s, r).lineage = Append(s.lineage, r)
      BY <1>2, AdvanceExtends
  <2>2. Formed(s)
      BY <1>2, IssuedFacts
  <2> QED BY <2>1, <2>2, <1>3, LineageGrows
<1>6. Applies(r, Successor(w)) /\ \A x : Applies(x, s) => Applies(x, Successor(w))
    BY <1>5 DEF GrownBy, Applies
<1> QED BY <1>1, <1>4, <1>6 DEF s, r

LEMMA GenesisSteps ==
    ASSUME KInv, NEW c \in Contracts, PersistGenesis(c) \/ EstablishGenesis(c)
    PROVE  KInv'
<1>1. CASE PersistGenesis(c)
  <2>1. /\ c \in Initializable /\ states' = states \union {Genesis(c)}
        /\ head' = head /\ receipts' = receipts /\ acked' = acked /\ crashes' = crashes
        /\ UNCHANGED local
      BY <1>1 DEF PersistGenesis, local
  <2>2. \A s \in states' : Sound(s)
      BY <2>1, GenesisSound DEF KInv
  <2>3. /\ at' = [v \in Workers |-> at'[v]] /\ expected' = [v \in Workers |-> expected'[v]]
        /\ held' = [v \in Workers |-> held'[v]] /\ \A v \in Workers : WorkerOK(v)'
      BY <2>1, NoneMoves
  <2> QED BY <2>1, <2>2, <2>3 DEF KInv, Applies, Applied, Revision
<1>2. CASE EstablishGenesis(c)
  <2>1. /\ Genesis(c) \in states /\ head = Absent /\ head' = Genesis(c) /\ states' = states
        /\ receipts' = receipts /\ acked' = acked /\ crashes' = crashes
        /\ UNCHANGED local
      BY <1>2 DEF EstablishGenesis, local
  <2>2. acked = {}
      BY <2>1 DEF KInv
  <2>3. /\ at' = [v \in Workers |-> at'[v]] /\ expected' = [v \in Workers |-> expected'[v]]
        /\ held' = [v \in Workers |-> held'[v]] /\ \A v \in Workers : WorkerOK(v)'
      BY <2>1, NoneMoves
  <2> QED BY <2>1, <2>2, <2>3 DEF KInv
<1> QED BY <1>1, <1>2

LEMMA LoadStep ==
    ASSUME KInv, NEW w \in Workers, Load(w) PROVE KInv'
<1>1. /\ head # Absent /\ expected' = [expected EXCEPT ![w] = head]
      /\ at' = [at EXCEPT ![w] = "loaded"] /\ held' = held
      /\ head' = head /\ states' = states /\ receipts' = receipts
      /\ acked' = acked /\ crashes' = crashes
    BY DEF Load, disk
<1>2. /\ at = [v \in Workers |-> at[v]] /\ expected = [v \in Workers |-> expected[v]]
      /\ held = [v \in Workers |-> held[v]] /\ WorkerOK(w) /\ head \in states
    BY <1>1 DEF KInv
<1>3. /\ at'[w] = "loaded" /\ expected'[w] = head /\ held'[w] = held[w]
      /\ at' = [at EXCEPT ![w] = at'[w]] /\ expected' = [expected EXCEPT ![w] = expected'[w]]
      /\ held' = [held EXCEPT ![w] = held'[w]]
    BY <1>1, <1>2
<1>4. WorkerOK(w)'
    BY <1>1, <1>2, <1>3 DEF WorkerOK
<1>5. /\ at' = [v \in Workers |-> at'[v]] /\ expected' = [v \in Workers |-> expected'[v]]
      /\ held' = [v \in Workers |-> held'[v]] /\ \A v \in Workers : WorkerOK(v)'
    BY <1>1, <1>3, <1>4, OneMoves
<1> QED BY <1>1, <1>5 DEF KInv, Applies, Applied, Revision

LEMMA HoldStep ==
    ASSUME KInv, NEW w \in Workers, Execute(w) \/ Resume(w) PROVE KInv'
<1>1. /\ at[w] = "loaded" /\ Terminal(expected[w]) = None
      /\ at' = [at EXCEPT ![w] = "holding"] /\ expected' = expected
      /\ head' = head /\ states' = states /\ acked' = acked /\ crashes' = crashes
    BY DEF Execute, Resume, disk
<1>2. PICK r \in Receipts(expected[w]) :
          /\ held' = [held EXCEPT ![w] = r] /\ receipts \subseteq receipts' /\ r \in receipts'
    BY DEF Execute, Resume, disk
<1>3. /\ at = [v \in Workers |-> at[v]] /\ expected = [v \in Workers |-> expected[v]]
      /\ held = [v \in Workers |-> held[v]] /\ WorkerOK(w)
    BY DEF KInv
<1>4. /\ at'[w] = "holding" /\ expected'[w] = expected[w] /\ held'[w] = r
      /\ at' = [at EXCEPT ![w] = at'[w]] /\ expected' = [expected EXCEPT ![w] = expected'[w]]
      /\ held' = [held EXCEPT ![w] = held'[w]]
    BY <1>1, <1>2, <1>3
<1>5. WorkerOK(w)'
    BY <1>1, <1>2, <1>3, <1>4 DEF WorkerOK
<1>6. /\ at' = [v \in Workers |-> at'[v]] /\ expected' = [v \in Workers |-> expected'[v]]
      /\ held' = [v \in Workers |-> held'[v]] /\ \A v \in Workers : WorkerOK(v)'
    BY <1>1, <1>2, <1>4, <1>5, OneMoves
<1> QED BY <1>1, <1>2, <1>6 DEF KInv, Applies, Applied, Revision

LEMMA PersistStep ==
    ASSUME KInv, NEW w \in Workers, PersistAdvance(w) PROVE KInv'
<1>1. /\ at[w] = "holding" /\ states' = states \union {Successor(w)}
      /\ at' = [at EXCEPT ![w] = "persisted"] /\ expected' = expected /\ held' = held
      /\ head' = head /\ receipts' = receipts /\ acked' = acked /\ crashes' = crashes
    BY DEF PersistAdvance
<1>2. /\ at = [v \in Workers |-> at[v]] /\ expected = [v \in Workers |-> expected[v]]
      /\ held = [v \in Workers |-> held[v]] /\ WorkerOK(w)
    BY DEF KInv
<1>3. /\ at'[w] = "persisted" /\ expected'[w] = expected[w] /\ held'[w] = held[w]
      /\ at' = [at EXCEPT ![w] = at'[w]] /\ expected' = [expected EXCEPT ![w] = expected'[w]]
      /\ held' = [held EXCEPT ![w] = held'[w]]
    BY <1>1, <1>2
<1>4. Successor(w)' = Successor(w)
    BY <1>3 DEF Successor
<1>5. WorkerOK(w)'
    BY <1>1, <1>2, <1>3, <1>4 DEF WorkerOK
<1>6. /\ at' = [v \in Workers |-> at'[v]] /\ expected' = [v \in Workers |-> expected'[v]]
      /\ held' = [v \in Workers |-> held'[v]] /\ \A v \in Workers : WorkerOK(v)'
    BY <1>1, <1>3, <1>5, OneMoves
<1>7. \A s \in states' : Sound(s)
    BY <1>1, SuccessorFacts DEF KInv
<1> QED BY <1>1, <1>6, <1>7 DEF KInv, Applies, Applied, Revision

\* Under the lock the head moves to the successor of the head.
LEMMA SwapMoves ==
    ASSUME KInv, NEW w \in Workers, Swap(w)
    PROVE  /\ head' = Successor(w) /\ head' \in states' /\ head' # Absent
           /\ head = expected[w] /\ held[w] \in receipts
           /\ states' = states /\ receipts' = receipts
           /\ Terminal(head) = None
           /\ Applies(held[w], head')
           /\ \A r \in acked : Applies(r, head')
<1>1. /\ at[w] = "persisted" /\ head = expected[w] /\ head' = Successor(w)
      /\ states' = states /\ receipts' = receipts
    BY DEF Swap, Swappable
<1>2. /\ Sound(Successor(w)) /\ held[w] \in receipts /\ Terminal(expected[w]) = None
      /\ Applies(held[w], Successor(w))
      /\ \A r : Applies(r, expected[w]) => Applies(r, Successor(w))
    BY <1>1, SuccessorFacts
<1>3. Successor(w) \in states
    BY <1>1 DEF KInv, WorkerOK
<1>4. Successor(w) # Absent
    BY <1>2, Present
<1>5. \A r \in acked : Applies(r, head)
    BY DEF KInv
<1> QED BY <1>1, <1>2, <1>3, <1>4, <1>5

LEMMA CommitSteps ==
    ASSUME KInv, NEW w \in Workers,
           CommitAdvance(w) \/ CommitUnreported(w) \/ CommitRepeated(w)
    PROVE  KInv'
<1>1. CASE CommitAdvance(w)
  <2>1. Swap(w) /\ acked' = acked \union {held[w]} /\ Idle(w) /\ crashes' = crashes
      BY <1>1 DEF CommitAdvance
  <2>2. /\ head' \in states' /\ head' # Absent /\ held[w] \in receipts
        /\ states' = states /\ receipts' = receipts
        /\ Applies(held[w], head') /\ \A r \in acked : Applies(r, head')
      BY <2>1, SwapMoves
  <2>3. /\ at' = [v \in Workers |-> at'[v]] /\ expected' = [v \in Workers |-> expected'[v]]
        /\ held' = [v \in Workers |-> held'[v]] /\ \A v \in Workers : WorkerOK(v)'
      BY <2>1, <2>2, IdleMoves, OneMoves
  <2>4. \A r \in acked' : head' # Absent /\ Applies(r, head')
      BY <2>1, <2>2
  <2> QED BY <2>1, <2>2, <2>3, <2>4 DEF KInv, Applies, Applied, Revision
<1>2. CASE CommitUnreported(w)
  <2>1. /\ crashes < MaxCrashes /\ Swap(w) /\ crashes' = crashes + 1 /\ UNCHANGED local
        /\ acked' = acked
      BY <1>2 DEF CommitUnreported, local
  <2>2. /\ head' \in states' /\ head' # Absent
        /\ states' = states /\ receipts' = receipts /\ \A r \in acked : Applies(r, head')
      BY <2>1, SwapMoves
  <2>3. /\ at' = [v \in Workers |-> at'[v]] /\ expected' = [v \in Workers |-> expected'[v]]
        /\ held' = [v \in Workers |-> held'[v]] /\ \A v \in Workers : WorkerOK(v)'
      BY <2>1, <2>2, NoneMoves
  <2>4. crashes' \in 0 .. MaxCrashes
      BY <2>1, BoundsAssumption DEF KInv
  <2>5. \A r \in acked' : head' # Absent /\ Applies(r, head')
      BY <2>1, <2>2
  <2> QED BY <2>1, <2>2, <2>3, <2>4, <2>5 DEF KInv, Applies, Applied, Revision
<1>3. CASE CommitRepeated(w)
  <2>1. /\ at[w] = "persisted" /\ head = Successor(w) /\ acked' = acked \union {held[w]}
        /\ Idle(w) /\ head' = head /\ states' = states /\ receipts' = receipts
        /\ crashes' = crashes
      BY <1>3 DEF CommitRepeated, disk
  <2>2. /\ Sound(Successor(w)) /\ held[w] \in receipts /\ Applies(held[w], Successor(w))
      BY <2>1, SuccessorFacts
  <2>3. /\ at' = [v \in Workers |-> at'[v]] /\ expected' = [v \in Workers |-> expected'[v]]
        /\ held' = [v \in Workers |-> held'[v]] /\ \A v \in Workers : WorkerOK(v)'
      BY <2>1, IdleMoves, OneMoves
  <2>4. head # Absent /\ \A r \in acked' : Applies(r, head)
      BY <2>1, <2>2, Present DEF KInv
  <2>5. \A r \in acked' : head' # Absent /\ Applies(r, head')
      BY <2>1, <2>4 DEF Applies, Applied, Revision
  <2> QED BY <2>1, <2>2, <2>3, <2>5 DEF KInv, Applies, Applied, Revision
<1> QED BY <1>1, <1>2, <1>3

LEMMA IdleSteps ==
    ASSUME KInv, NEW w \in Workers, Finish(w) \/ CommitConflict(w) \/ Crash(w)
    PROVE  KInv'
<1>1. /\ Idle(w) /\ head' = head /\ states' = states /\ receipts' = receipts /\ acked' = acked
      /\ crashes' = crashes \/ (crashes < MaxCrashes /\ crashes' = crashes + 1)
    BY DEF Finish, CommitConflict, Crash, disk
<1>2. /\ at' = [v \in Workers |-> at'[v]] /\ expected' = [v \in Workers |-> expected'[v]]
      /\ held' = [v \in Workers |-> held'[v]] /\ \A v \in Workers : WorkerOK(v)'
    BY <1>1, IdleMoves, OneMoves
<1>3. crashes' \in 0 .. MaxCrashes
    BY <1>1, BoundsAssumption DEF KInv
<1> QED BY <1>1, <1>2, <1>3 DEF KInv, Applies, Applied, Revision

LEMMA KInvInit ==
    ASSUME Init PROVE KInv
<1>1. /\ at = [w \in Workers |-> at[w]] /\ expected = [w \in Workers |-> expected[w]]
      /\ held = [w \in Workers |-> held[w]] /\ \A w \in Workers : WorkerOK(w)
    BY DEF Init, WorkerOK
<1> QED BY <1>1, BoundsAssumption DEF Init, KInv

LEMMA KInvStutters ==
    ASSUME KInv, UNCHANGED vars PROVE KInv'
<1>1. /\ head' = head /\ states' = states /\ receipts' = receipts /\ acked' = acked
      /\ crashes' = crashes /\ UNCHANGED local
    BY DEF vars, disk, local
<1>2. /\ at' = [v \in Workers |-> at'[v]] /\ expected' = [v \in Workers |-> expected'[v]]
      /\ held' = [v \in Workers |-> held'[v]] /\ \A v \in Workers : WorkerOK(v)'
    BY <1>1, NoneMoves
<1> QED BY <1>1, <1>2 DEF KInv, Applies, Applied, Revision

\* A step of the composition is a step of the engine or none.
LEMMA PartsStep ==
    ASSUME [PartsNext]_parts
    PROVE  \/ UNCHANGED vars
           \/ \E c \in Contracts : PersistGenesis(c) \/ EstablishGenesis(c)
           \/ \E w \in Workers : Step(w) \/ CommitUnreported(w) \/ Crash(w)
<1>1. CASE Call(PersistGenesis) \/ Call(EstablishGenesis)
    BY <1>1 DEF Call
<1>2. CASE Work
    BY <1>2 DEF Work
<1>3. CASE Allocate
    BY <1>3 DEF Allocate
<1>4. CASE UNCHANGED parts
    BY <1>4 DEF parts
<1> QED BY <1>1, <1>2, <1>3, <1>4 DEF PartsNext

LEMMA KInvStep ==
    ASSUME KInv, [PartsNext]_parts PROVE KInv'
<1>1. CASE UNCHANGED vars
    BY <1>1, KInvStutters
<1>2. CASE \E c \in Contracts : PersistGenesis(c) \/ EstablishGenesis(c)
    BY <1>2, GenesisSteps
<1>3. ASSUME NEW w \in Workers, Step(w) \/ CommitUnreported(w) \/ Crash(w) PROVE KInv'
  <2>1. \/ Load(w) \/ Execute(w) \/ Resume(w) \/ Finish(w) \/ PersistAdvance(w)
        \/ CommitAdvance(w) \/ CommitRepeated(w) \/ CommitConflict(w)
        \/ CommitUnreported(w) \/ Crash(w)
      BY <1>3 DEF Step
  <2> QED BY <2>1, LoadStep, HoldStep, PersistStep, CommitSteps, IdleSteps
<1> QED BY <1>1, <1>2, <1>3, PartsStep

LEMMA KInvHolds == PartsSpec => []KInv
<1>1. PartsInit => KInv
    BY KInvInit DEF PartsInit
<1>2. KInv /\ [PartsNext]_parts => KInv'
    BY KInvStep
<1> QED BY <1>1, <1>2, PTL DEF PartsSpec

-----------------------------------------------------------------------------
(* What the engine claims.                                                   *)

\* Each duty of a complete state was met by what an execution saw.
LEMMA CompleteDuties ==
    ASSUME NEW s, Sound(s), Terminal(s) = "complete", NEW o \in DOMAIN s.work
    PROVE  \E i \in Applied(s) :
               /\ s.lineage[i].action.duty = o
               /\ Seen(s, i).kind = "completed"
               /\ Seen(s, i).seen \in s.work[o].meets
<1>1. s.work[o].status = "satisfied"
    BY OverComplete DEF Complete, AllSatisfied, WithStatus
<1> QED BY <1>1 DEF Sound, Witnessed, DutyOfReceipt

\* Of a family the supported hypothesis has nothing against it and each of its
\* rivals has.
LEMMA AssessmentFacts ==
    ASSUME NEW s, NEW h
    PROVE  /\ Assessment(s, h) = "supported" => s.against[h] = {}
           /\ Assessment(s, h) = "refuted" => s.against[h] # {}
BY DEF Assessment

LEMMA CompleteFamilies ==
    ASSUME NEW s, Sound(s), Terminal(s) = "complete",
           NEW family \in Content[s.contract].families
    PROVE  \E h \in family : \A g \in family :
               (\A i \in Applied(s) :
                    LET duty == s.work[s.lineage[i].action.duty]
                    IN  DOMAIN duty.predicts = family
                            /\ Seen(s, i).kind = "completed" =>
                        Seen(s, i).seen \in duty.predicts[g])
               <=> g = h
<1>1. FamiliesResolved(s)
    BY OverComplete DEF Complete
<1>2. PICK h \in family :
          /\ Assessment(s, h) = "supported"
          /\ \A rival \in family \ {h} : Assessment(s, rival) = "refuted"
    BY <1>1 DEF FamiliesResolved
<1>3. s.against[h] = {} /\ \A rival \in family \ {h} : s.against[rival] # {}
    BY <1>2, AssessmentFacts
<1>4. \A g \in family : g \in Hypotheses(s.contract)
    BY DEF Hypotheses
<1>5. Formed(s) /\ Witnessed(s) /\ s.contract \in Contracts
    BY DEF Sound, Formed
<1>6. \A g \in family : s.against[g] = {i \in Applied(s) : SpeaksAgainst(s, i, g)}
    BY <1>4, <1>5 DEF Witnessed
<1>7. ASSUME NEW i \in Applied(s), NEW g \in family
      PROVE  SpeaksAgainst(s, i, g) <=>
                 /\ DOMAIN s.work[s.lineage[i].action.duty].predicts = family
                 /\ Seen(s, i).kind = "completed"
                 /\ Seen(s, i).seen \notin s.work[s.lineage[i].action.duty].predicts[g]
  <2> DEFINE duty == s.work[s.lineage[i].action.duty]
  <2>1. DOMAIN duty.predicts \in Content[s.contract].families \union {{}}
    <3>1. s.lineage[i].action.duty \in DOMAIN s.work
        BY <1>5 DEF Witnessed, DutyOfReceipt
    <3> QED BY <3>1, <1>5 DEF Formed, FormedDuty
  <2>2. g \in DOMAIN duty.predicts <=> DOMAIN duty.predicts = family
      BY <2>1, <1>5, ContractFacts
  <2> QED BY <2>2 DEF SpeaksAgainst, DutyOfReceipt
<1>8. ASSUME NEW g \in family
      PROVE  (\A i \in Applied(s) :
                  LET duty == s.work[s.lineage[i].action.duty]
                  IN  DOMAIN duty.predicts = family
                          /\ Seen(s, i).kind = "completed" =>
                      Seen(s, i).seen \in duty.predicts[g])
             <=> g = h
  <2>1. (\A i \in Applied(s) : ~SpeaksAgainst(s, i, g)) <=> g = h
      BY <1>3, <1>6
  <2>2. \A i \in Applied(s) :
            ~SpeaksAgainst(s, i, g) <=>
                (/\ DOMAIN s.work[s.lineage[i].action.duty].predicts = family
                 /\ Seen(s, i).kind = "completed"
                 => Seen(s, i).seen \in s.work[s.lineage[i].action.duty].predicts[g])
      BY <1>7
  <2> HIDE DEF SpeaksAgainst
  <2> QED BY <2>1, <2>2
<1> QED BY <1>8

LEMMA CompleteClosures ==
    ASSUME NEW s, Sound(s), Terminal(s) = "complete",
           NEW i \in Applied(s), Seen(s, i).kind = "completed", NEW n \in Seen(s, i).to
    PROVE  \E o \in DOMAIN s.work : s.work[o].node = n
<1>1. s.limit = None /\ NoCycle(s)
    BY OverComplete DEF Blocked, NoCycle
<1>2. n \in DOMAIN s.depth
    BY <1>1 DEF Sound, Followed
<1> QED BY <1>2 DEF Sound, Linked

\* The knowledge engine (plan, execute, advance, commit_canonical_advance): a
\* confirmed commit stays in the canonical lineage whoever else races for it,
\* advance accepts every receipt that execute issued, and a complete inquiry has
\* met every duty, has one rival left that agrees with everything observed, and
\* has followed every edge it was shown, for any contracts, observations, nodes
\* and workers.
THEOREM ClaimsAreSound == PartsSpec => []ClaimsHoldUp
<1>1. ASSUME KInv PROVE ClaimsHoldUp
  <2> USE <1>1
  <2>1. TypeOK
      BY DEF KInv, TypeOK, WorkerOK
  <2>2. ConfirmedStays
      BY DEF KInv, ConfirmedStays
  <2>3. IssuedReceiptsApply
      BY SuccessorFacts DEF IssuedReceiptsApply, Sound
  <2>4. head # Absent => Sound(head)
      BY DEF KInv
  <2> HIDE DEF Sound
  <2>5. CompleteMeansObserved
      BY <2>4, CompleteDuties, CompleteFamilies DEF CompleteMeansObserved
  <2>6. CompleteMeansClosed
    <3>1. SUFFICES ASSUME head # Absent, Terminal(head) = "complete",
                          NEW i \in Applied(head), Seen(head, i).kind = "completed",
                          NEW n \in Seen(head, i).to
                   PROVE  \E o \in DOMAIN head.work : head.work[o].node = n
        BY DEF CompleteMeansClosed
    <3> QED BY <3>1, <2>4, CompleteClosures
  <2> QED BY <2>1, <2>2, <2>3, <2>5, <2>6 DEF ClaimsHoldUp
<1> QED BY <1>1, KInvHolds, PTL

\* The compare-and-swap under the lock of the inquiry: the canonical head only
\* ever moves from a state that is not terminal to the state that one receipt
\* makes of it, so that the lineage grows and never forks.
THEOREM LineageOnlyGrows == PartsSpec => HistoryOnlyGrows
<1>1. ASSUME KInv, [PartsNext]_parts, head # Absent, head' # head
      PROVE  (\E r \in receipts : head' = Advance(head, r)) /\ Terminal(head) = None
  <2>1. ASSUME NEW w \in Workers, Swap(w)
        PROVE  (\E r \in receipts : head' = Advance(head, r)) /\ Terminal(head) = None
      BY <1>1, <2>1, SwapMoves DEF Successor
  <2>2. CASE UNCHANGED vars
      BY <2>2, <1>1 DEF vars, disk
  <2>3. CASE \E c \in Contracts : PersistGenesis(c) \/ EstablishGenesis(c)
      BY <2>3, <1>1 DEF PersistGenesis, EstablishGenesis
  <2>4. ASSUME NEW w \in Workers, Step(w) \/ CommitUnreported(w) \/ Crash(w)
        PROVE  (\E r \in receipts : head' = Advance(head, r)) /\ Terminal(head) = None
    <3>1. CASE CommitAdvance(w) \/ CommitUnreported(w)
        BY <3>1, <2>1 DEF CommitAdvance, CommitUnreported
    <3>2. CASE ~(CommitAdvance(w) \/ CommitUnreported(w))
        BY <3>2, <2>4, <1>1 DEF Step, Load, Execute, Resume, Finish, PersistAdvance,
                                CommitRepeated, CommitConflict, Crash, disk
    <3> QED BY <3>1, <3>2
  <2> QED BY <1>1, <2>2, <2>3, <2>4, PartsStep
<1>2. KInv /\ [PartsNext]_parts =>
          [head # Absent =>
               /\ \E r \in receipts : head' = Advance(head, r)
               /\ Terminal(head) = None]_head
    BY <1>1
<1> QED BY <1>2, KInvHolds, PTL DEF PartsSpec, HistoryOnlyGrows

=============================================================================
