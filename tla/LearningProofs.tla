---------------------------- MODULE LearningProofs ----------------------------
(***************************************************************************)
(* Proofs about learning and what it hands over: that a session can be read  *)
(* back wherever a process died and never goes back, that what was handed     *)
(* over stays what the engine makes again, and that a decision that places a  *)
(* capability stands.                                                        *)
(***************************************************************************)
EXTENDS MCLearning, FiniteSetTheorems, WellFoundedInduction, TLAPS

-----------------------------------------------------------------------------
(* Numbers.                                                                  *)

\* A set of numbers has a least one: the finite subsets of Nat are well
\* founded under inclusion.
LEMMA LeastNumber ==
    ASSUME NEW S \in SUBSET Nat, S # {}
    PROVE  \E n \in S : \A k \in S : n <= k
<1> DEFINE T == {0 .. n : n \in S}
           R0 == StrictSubsetOrdering(Nat)
<1>1. T \subseteq FiniteSubsetsOf(Nat) /\ T # {}
  <2>1. ASSUME NEW n \in S PROVE 0 .. n \in FiniteSubsetsOf(Nat)
    <3>1. IsFiniteSet(0 .. n) /\ 0 .. n \in SUBSET Nat
        BY FS_Interval
    <3> QED BY <3>1 DEF FiniteSubsetsOf
  <2> QED BY <2>1
<1>2. IsWellFoundedOn(R0, FiniteSubsetsOf(Nat))
    BY FS_StrictSubsetOrderingWellFounded
<1> HIDE DEF R0
<1>3. PICK x \in T : \A y \in T : <<y, x>> \notin R0
  <2> HIDE DEF T
  <2> QED BY <1>1, <1>2, WFMin
<1>4. PICK n \in S : x = 0 .. n
    BY <1>3
<1>5. ASSUME NEW k \in S, k < n PROVE FALSE
  <2>1. 0 .. k \subseteq 0 .. n /\ n \in 0 .. n /\ n \notin 0 .. k
      BY <1>5
  <2>2. 0 .. k \in SUBSET Nat /\ 0 .. n \in SUBSET Nat
      OBVIOUS
  <2>3. <<0 .. k, 0 .. n>> \in R0
      BY <2>1, <2>2 DEF R0, StrictSubsetOrdering
  <2> QED BY <2>3, <1>3, <1>4
<1> QED BY <1>5

\* So what holds of 0, and of n + 1 where it holds of n, holds of all numbers
\* of a set that has no gap.
LEMMA NoLeastGap ==
    ASSUME NEW N \in Nat, NEW Good \in SUBSET (0 .. N),
           0 \in Good, \A n \in 0 .. N : n + 1 \in 0 .. N /\ n \in Good => n + 1 \in Good
    PROVE  Good = 0 .. N
<1> SUFFICES ASSUME (0 .. N) \ Good # {} PROVE FALSE
    OBVIOUS
<1>1. PICK n \in (0 .. N) \ Good : \A k \in (0 .. N) \ Good : n <= k
  <2> DEFINE Rest == (0 .. N) \ Good
  <2>1. Rest \in SUBSET Nat /\ Rest # {}
      OBVIOUS
  <2> HIDE DEF Rest
  <2>2. \E n \in Rest : \A k \in Rest : n <= k
      BY <2>1, LeastNumber
  <2> QED BY <2>2 DEF Rest
<1>2. n # 0 /\ n - 1 \in 0 .. N /\ n - 1 \notin (0 .. N) \ Good
    BY <1>1
<1> QED BY <1>1, <1>2

\* A function takes a greatest value on a finite set.
LEMMA GreatestValue ==
    ASSUME NEW S, IsFiniteSet(S), S # {}, NEW f \in [S -> Int]
    PROVE  \E a \in S : \A b \in S : f[b] <= f[a]
<1> DEFINE Peak(X) == \E a \in X : \A b \in X : f[b] <= f[a]
           T == {X \in SUBSET S : X # {} /\ ~Peak(X)}
           R0 == StrictSubsetOrdering(S)
<1> SUFFICES ASSUME ~Peak(S) PROVE FALSE
    OBVIOUS
<1>1. T \subseteq FiniteSubsetsOf(S) /\ T # {}
  <2>1. ASSUME NEW X \in SUBSET S PROVE X \in FiniteSubsetsOf(S)
      BY FS_Subset DEF FiniteSubsetsOf
  <2>2. S \in T
      OBVIOUS
  <2> HIDE DEF Peak
  <2> QED BY <2>1, <2>2
<1>2. IsWellFoundedOn(R0, FiniteSubsetsOf(S))
    BY FS_StrictSubsetOrderingWellFounded
<1> HIDE DEF R0
<1>3. PICK X \in T : \A Y \in T : <<Y, X>> \notin R0
  <2> HIDE DEF T
  <2> QED BY <1>1, <1>2, WFMin
<1>4. X \in SUBSET S /\ X # {} /\ ~Peak(X)
    BY <1>3
<1>5. PICK x \in X : TRUE
    BY <1>4
<1> DEFINE Y == X \ {x}
<1>6. Y # {}
  <2> SUFFICES ASSUME X = {x} PROVE FALSE
      BY <1>5
  <2>1. f[x] \in Int
      BY <1>4
  <2> QED BY <1>4, <2>1
<1>7. Peak(Y)
  <2>1. Y \in SUBSET S /\ Y \subseteq X /\ x \notin Y
      BY <1>4
  <2>2. <<Y, X>> \in R0
      BY <2>1, <1>4, <1>5 DEF R0, StrictSubsetOrdering
  <2> HIDE DEF Y, Peak
  <2> QED BY <1>3, <1>6, <2>1, <2>2
<1>8. PICK y \in Y : \A b \in Y : f[b] <= f[y]
    BY <1>7
<1>9. f[x] \in Int /\ f[y] \in Int /\ \A b \in X : f[b] \in Int
    BY <1>4, <1>5, <1>8
<1>10. CASE f[x] <= f[y]
    BY <1>4, <1>8, <1>9, <1>10
<1>11. CASE f[y] <= f[x]
  <2>1. \A b \in X : f[b] <= f[x]
      BY <1>8, <1>9, <1>11
  <2> QED BY <1>4, <1>5, <2>1
<1> QED BY <1>9, <1>10, <1>11

-----------------------------------------------------------------------------
(* Sequences.                                                                *)

LEMMA AppendTells ==
    ASSUME NEW S, NEW s \in Seq(S), NEW e \in S
    PROVE  /\ Append(s, e) \in Seq(S) /\ Len(Append(s, e)) = Len(s) + 1
           /\ Last(Append(s, e)) = e
           /\ ToSet(Append(s, e)) = ToSet(s) \union {e}
           /\ \A i \in DOMAIN s : Append(s, e)[i] = s[i]
           /\ DOMAIN Append(s, e) = 1 .. Len(s) + 1
<1>1. /\ Append(s, e) \in Seq(S) /\ Len(Append(s, e)) = Len(s) + 1
      /\ \A i \in DOMAIN s : Append(s, e)[i] = s[i]
      /\ DOMAIN Append(s, e) = 1 .. Len(s) + 1 /\ DOMAIN s = 1 .. Len(s)
      /\ Append(s, e)[Len(s) + 1] = e /\ Len(s) \in Nat
    OBVIOUS
<1>2. ToSet(Append(s, e)) = ToSet(s) \union {e}
  <2> DEFINE t == Append(s, e)
  <2>1. \A i \in DOMAIN t : i \in DOMAIN s \/ i = Len(s) + 1
      BY <1>1
  <2>2. DOMAIN s \subseteq DOMAIN t /\ Len(s) + 1 \in DOMAIN t
      BY <1>1
  <2>3. \A i \in DOMAIN s : t[i] = s[i]
      BY <1>1
  <2>4. t[Len(s) + 1] = e
      BY <1>1
  <2> HIDE DEF t
  <2>5. {t[i] : i \in DOMAIN t} = {s[i] : i \in DOMAIN s} \union {e}
      BY <2>1, <2>2, <2>3, <2>4
  <2> USE DEF t
  <2> QED BY <2>5 DEF ToSet
<1>3. Last(Append(s, e)) = e
    BY <1>1 DEF Last
<1> QED BY <1>1, <1>2, <1>3

LEMMA AppendKeepsApart ==
    ASSUME NEW S, NEW s \in Seq(S), NEW e \in S, e \notin ToSet(s), IsInjective(s)
    PROVE  IsInjective(Append(s, e))
<1>1. /\ \A i \in DOMAIN s : Append(s, e)[i] = s[i] /\ s[i] # e
      /\ DOMAIN Append(s, e) = 1 .. Len(s) + 1 /\ DOMAIN s = 1 .. Len(s) /\ Len(s) \in Nat
      /\ Append(s, e)[Len(s) + 1] = e
    BY DEF ToSet
<1>2. \A i, j \in DOMAIN s : s[i] = s[j] => i = j
    BY DEF IsInjective
<1>3. \A i, j \in DOMAIN Append(s, e) : Append(s, e)[i] = Append(s, e)[j] => i = j
  <2> DEFINE t == Append(s, e)
  <2> HIDE DEF t
  <2>1. \A i, j \in DOMAIN t : t[i] = t[j] => i = j
      BY <1>1, <1>2 DEF t
  <2> QED BY <2>1 DEF t
<1> QED BY <1>3 DEF IsInjective

-----------------------------------------------------------------------------
(* The plan.                                                                 *)

LEMMA PastTells ==
    ASSUME NEW t \in Targets, NEW done \in Seq(Envelopes), Len(done) <= PlanSteps,
           NEW a \in Apertures
    PROVE  Objective(t, a, Past(done)) \in Int
<1>1. done \in [1 .. Len(done) -> Envelopes] /\ Len(done) \in 0 .. PlanSteps
    BY Instances DEF StepsAssumption
<1> QED BY <1>1, Instances DEF StepsAssumption

\* The next aperture is one of the plan's, or there is none.
LEMMA CanonicalIsPending ==
    ASSUME NEW t \in Targets, NEW done \in Seq(Envelopes), Len(done) <= PlanSteps
    PROVE  Canonical(t, done) \in Pending
<1> DEFINE R == Remaining(done)
           f == [a \in R |-> Objective(t, a, Past(done))]
           best == {a \in R : \A b \in R :
                       Objective(t, b, Past(done)) <= Objective(t, a, Past(done))}
<1> SUFFICES ASSUME ~(Len(done) >= PlanSteps), R # {} PROVE Canonical(t, done) \in Apertures
    BY DEF Canonical, Pending
<1>1. R \subseteq Apertures /\ IsFiniteSet(R) /\ R \subseteq Nat
    BY Instances, FS_Subset DEF Remaining, StepsAssumption
<1>2. f \in [R -> Int]
    BY <1>1, PastTells
<1>3. best # {}
  <2>1. PICK a \in R : \A b \in R : f[b] <= f[a]
    <3> HIDE DEF R, f
    <3> QED BY <1>1, <1>2, GreatestValue
  <2> QED BY <2>1
<1>4. \E a \in best : \A b \in best : a <= b
  <2>1. best \in SUBSET Nat
      BY <1>1
  <2> HIDE DEF best
  <2> QED BY <1>3, <2>1, LeastNumber
<1>5. Canonical(t, done) = CHOOSE a \in best : \A b \in best : a <= b
    BY DEF Canonical
<1>6. best \subseteq Apertures
    BY <1>1
<1> HIDE DEF best
<1> QED BY <1>4, <1>5, <1>6

-----------------------------------------------------------------------------
(* Ancestors.                                                                *)

\* The walk back from a receipt: one receipt for each generation.
Walk(r, f) ==
    f = [g \in 0 .. r.generation |-> IF g = r.generation THEN r ELSE f[g + 1].prior]

LEMMA WalkExists ==
    ASSUME NEW r, r.generation \in Nat
    PROVE  \E f : Walk(r, f)
<1> DEFINE N == r.generation
           From(n, f) == f = [g \in N - n .. N |-> IF g = N THEN r ELSE f[g + 1].prior]
           Good == {n \in 0 .. N : \E f : From(n, f)}
<1>1. 0 \in Good
  <2> DEFINE f == [g \in N .. N |-> r]
  <2>1. N - 0 = N /\ \A g \in N .. N : g = N
      OBVIOUS
  <2>2. f = [g \in N .. N |-> IF g = N THEN r ELSE f[g + 1].prior]
      BY <2>1
  <2> HIDE DEF f
  <2>3. From(0, f)
      BY <2>1, <2>2
  <2>4. 0 \in 0 .. N
      OBVIOUS
  <2> QED BY <2>3, <2>4
<1>2. ASSUME NEW n \in 0 .. N, n + 1 \in 0 .. N, n \in Good PROVE n + 1 \in Good
  <2>1. PICK f : From(n, f)
      BY <1>2
  <2> DEFINE h == [g \in N - (n + 1) .. N |->
                      IF g = N - (n + 1) THEN f[g + 1].prior ELSE f[g]]
  <2>2. \A g \in N - n .. N : f[g] = IF g = N THEN r ELSE f[g + 1].prior
      BY <2>1
  <2>3. \A g \in N - n .. N : h[g] = f[g]
      BY <1>2
  <2>4. h[N - (n + 1)] = f[N - n].prior /\ N - (n + 1) # N
      BY <1>2
  <2>5. \A g \in N - (n + 1) .. N : h[g] = IF g = N THEN r ELSE h[g + 1].prior
    <3> TAKE g \in N - (n + 1) .. N
    <3>1. CASE g = N - (n + 1)
        BY <1>2, <2>3, <2>4, <3>1
    <3>2. CASE g # N - (n + 1)
      <4>1. g \in N - n .. N /\ (g # N => g + 1 \in N - n .. N)
          BY <3>2
      <4> HIDE DEF h
      <4> QED BY <4>1, <2>2, <2>3
    <3> QED BY <3>1, <3>2
  <2>6. h = [g \in N - (n + 1) .. N |-> h[g]]
      OBVIOUS
  <2> HIDE DEF h
  <2>7. From(n + 1, h)
      BY <2>5, <2>6
  <2> QED BY <1>2, <2>7
<1>3. Good = 0 .. N
  <2> HIDE DEF Good
  <2>1. Good \in SUBSET (0 .. N)
      BY DEF Good
  <2> QED BY <1>1, <1>2, <2>1, NoLeastGap
<1>4. PICK f : From(N, f)
  <2>1. N \in 0 .. N
      OBVIOUS
  <2>2. N \in Good
      BY <1>3, <2>1
  <2> QED BY <2>2
<1>5. N - N = 0
    OBVIOUS
<1> QED BY <1>4, <1>5 DEF Walk

LEMMA AncestryIsWalk ==
    ASSUME NEW r, r.generation \in Nat
    PROVE  \E f : /\ Ancestry(r) = {f[g] : g \in 0 .. r.generation}
                  /\ f[r.generation] = r
                  /\ \A g \in 0 .. r.generation : g # r.generation => f[g] = f[g + 1].prior
<1> DEFINE f == CHOOSE f : Walk(r, f)
<1>1. Walk(r, f)
    BY WalkExists
<1>2. Ancestry(r) = {f[g] : g \in 0 .. r.generation}
    BY DEF Ancestry, Walk
<1> HIDE DEF f
<1>3. /\ f[r.generation] = r
      /\ \A g \in 0 .. r.generation : g # r.generation => f[g] = f[g + 1].prior
    BY <1>1 DEF Walk
<1> QED BY <1>2, <1>3

\* The first receipt is its only ancestor.
LEMMA AncestryOfFirst ==
    ASSUME NEW r, r.generation = 0
    PROVE  Ancestry(r) = {r}
<1>1. PICK f : Ancestry(r) = {f[g] : g \in 0 .. r.generation} /\ f[r.generation] = r
    BY AncestryIsWalk
<1>2. 0 .. r.generation = {0}
    OBVIOUS
<1> QED BY <1>1, <1>2

\* The ancestors of a receipt are itself and those of its predecessor.
LEMMA AncestryOfNext ==
    ASSUME NEW r, r.prior.generation \in Nat, r.generation = r.prior.generation + 1
    PROVE  Ancestry(r) = Ancestry(r.prior) \union {r}
<1> DEFINE N == r.prior.generation
<1>1. PICK f : /\ Ancestry(r) = {f[g] : g \in 0 .. r.generation}
               /\ f[r.generation] = r
               /\ \A g \in 0 .. r.generation : g # r.generation => f[g] = f[g + 1].prior
    BY AncestryIsWalk
<1>2. PICK b : /\ Ancestry(r.prior) = {b[g] : g \in 0 .. N}
               /\ b[N] = r.prior
               /\ \A g \in 0 .. N : g # N => b[g] = b[g + 1].prior
    BY AncestryIsWalk
<1> DEFINE Good == {n \in 0 .. N : f[N - n] = b[N - n]}
<1>3. 0 \in Good
  <2>1. N \in 0 .. r.generation /\ N # r.generation /\ N + 1 = r.generation /\ N - 0 = N
      OBVIOUS
  <2> QED BY <1>1, <1>2, <2>1
<1>4. ASSUME NEW n \in 0 .. N, n + 1 \in 0 .. N, n \in Good PROVE n + 1 \in Good
  <2>1. /\ N - (n + 1) \in 0 .. N /\ N - (n + 1) # N /\ (N - (n + 1)) + 1 = N - n
        /\ N - (n + 1) \in 0 .. r.generation /\ N - (n + 1) # r.generation
      BY <1>4
  <2> QED BY <1>1, <1>2, <1>4, <2>1
<1>5. Good = 0 .. N
  <2> HIDE DEF Good
  <2>1. Good \in SUBSET (0 .. N)
      BY DEF Good
  <2> QED BY <1>3, <1>4, <2>1, NoLeastGap
<1>6. ASSUME NEW g \in 0 .. N PROVE f[g] = b[g]
  <2>1. N - g \in 0 .. N /\ N - (N - g) = g
      BY <1>6
  <2>2. N - g \in Good
      BY <1>5, <2>1
  <2> QED BY <2>1, <2>2
<1>7. 0 .. r.generation = (0 .. N) \union {r.generation}
    OBVIOUS
<1> HIDE DEF Good, N
<1> QED BY <1>1, <1>2, <1>6, <1>7 DEF N

\* In a set that holds the predecessors of its receipts, the ancestors of
\* a receipt are in that set.
LEMMA AncestryStays ==
    ASSUME NEW S, NEW r \in S,
           \A x \in S : /\ x.generation \in Nat
                        /\ x.generation # 0 => /\ x.prior \in S
                                               /\ x.generation = x.prior.generation + 1
    PROVE  /\ Ancestry(r) \subseteq S
           /\ r \in Ancestry(r)
           /\ \A x \in Ancestry(r) : x.generation <= r.generation
<1> DEFINE N == r.generation
<1>1. PICK f : /\ Ancestry(r) = {f[g] : g \in 0 .. N}
               /\ f[N] = r
               /\ \A g \in 0 .. N : g # N => f[g] = f[g + 1].prior
    BY AncestryIsWalk
<1> DEFINE Good == {n \in 0 .. N : f[N - n] \in S /\ f[N - n].generation = N - n}
<1>2. N \in Nat
    OBVIOUS
<1> HIDE DEF N
<1>3. 0 \in Good
  <2>1. N - 0 = N
      BY <1>2
  <2> QED BY <1>1, <1>2, <2>1 DEF N
<1>4. ASSUME NEW n \in 0 .. N, n + 1 \in 0 .. N, n \in Good PROVE n + 1 \in Good
  <2>1. /\ N - (n + 1) \in 0 .. N /\ N - (n + 1) # N /\ (N - (n + 1)) + 1 = N - n
        /\ N - n # 0
      BY <1>2, <1>4
  <2>2. f[N - n] \in S /\ f[N - n].generation = N - n
      BY <1>4
  <2>3. f[N - (n + 1)] = f[N - n].prior
      BY <1>1, <2>1
  <2>4. f[N - n].prior \in S /\ f[N - n].prior.generation \in Nat
        /\ N - n = f[N - n].prior.generation + 1
      BY <2>1, <2>2
  <2>5. f[N - n].prior.generation = N - (n + 1)
      BY <1>2, <2>4
  <2> QED BY <1>4, <2>3, <2>4, <2>5
<1>5. Good = 0 .. N
  <2> HIDE DEF Good
  <2>1. Good \in SUBSET (0 .. N)
      BY DEF Good
  <2> QED BY <1>2, <1>3, <1>4, <2>1, NoLeastGap
<1>6. ASSUME NEW g \in 0 .. N PROVE f[g] \in S /\ f[g].generation = g
  <2>1. N - g \in 0 .. N /\ N - (N - g) = g
      BY <1>2, <1>6
  <2>2. N - g \in Good
      BY <1>5, <2>1
  <2> QED BY <2>1, <2>2
<1>7. N \in 0 .. N
    BY <1>2
<1> HIDE DEF Good
<1> QED BY <1>1, <1>2, <1>6, <1>7 DEF N
-----------------------------------------------------------------------------
(* The session: its inductive invariant.                                     *)

Entered == ToSet(ledger)
Chain == IF pointer = Absent THEN {} ELSE Ancestry(pointer)

\* A receipt that makes its step again, from one that was entered.
Stands(r) ==
    /\ IsReceipt(r) /\ Follows(r)
    /\ r.generation # 0 => /\ r.prior \in Entered
                           /\ r.generation = r.prior.generation + 1
    /\ IsInjective(r.done) /\ ToSet(r.done) \subseteq stored

Phases == {"idle", "called", "locked", "write", "append", "point", "reload"}
IsTask(t) ==
    /\ DOMAIN t = {"op", "phase", "target", "receipt"}
    /\ t.op \in {"none", "start", "issue", "assimilate"} /\ t.phase \in Phases
    /\ t.op = "start" => t.target \in Targets

\* The receipt that a process is about to make the current one.
Succeeds(r) ==
    /\ Stands(r)
    /\ IF pointer = Absent THEN marker \in Targets /\ r = Started(marker)
       ELSE r.generation # 0 /\ r.prior = pointer

Bears(p) == task[p].phase \in {"write", "append", "point"}

TaskFits(p) ==
    /\ IsTask(task[p])
    /\ lock = p <=> task[p].phase \notin {"idle", "called"}
    /\ Bears(p) => Succeeds(task[p].receipt)
    /\ task[p].phase = "append" => task[p].receipt \in receipts \ Entered
    /\ task[p].phase = "point" => task[p].receipt \in Entered

FilesInv ==
    /\ marker \in Targets \union {None}
    /\ stored \subseteq Envelopes
    /\ observed \in [Observations -> Versions]
    /\ offered \in Envelopes \union {None}
    /\ failures \in Nat
    /\ \A r \in receipts : Stands(r)
    /\ ledger \in Seq(receipts) /\ IsInjective(ledger)
    /\ pointer # Absent => pointer \in Entered

TasksInv ==
    /\ lock \in Procs \union {None}
    /\ task = [p \in Procs |-> task[p]]
    /\ \A p \in Procs : TaskFits(p)

\* Without a failure, what is there is the chain, and what the holder of the
\* lock has made of its successor.
Between == \A p \in Procs : lock = p => task[p].phase \in {"locked", "reload"}

TidyInv ==
    failures = 0 =>
        /\ Between => /\ marker = None <=> pointer = Absent
                      /\ receipts = Chain /\ Entered = Chain
        /\ \A p \in Procs : Bears(p) =>
               /\ marker # None
               /\ receipts = IF task[p].phase = "write" THEN Chain
                             ELSE Chain \union {task[p].receipt}
               /\ Entered = IF task[p].phase = "point" THEN receipts ELSE Chain

SessionInv == FilesInv /\ TasksInv /\ TidyInv

LEMMA KindsDiffer ==
    ASSUME NEW r, IsReceipt(r)
    PROVE  r # Absent /\ r.generation \in Nat
<1>1. Absent.kind = "none"
    BY DEF Absent, Receipt
<1>2. Len(r.done) \in Nat
    BY DEF IsReceipt
<1>3. r.generation = 2 * Len(r.done) + (IF r.pending = None THEN 0 ELSE 1)
    BY DEF IsReceipt
<1>4. r.kind # "none"
    BY DEF IsReceipt
<1>5. r.generation \in Nat
  <2> DEFINE n == Len(r.done)
             last == IF r.pending = None THEN 0 ELSE 1
  <2>1. last \in Nat /\ n \in Nat
      BY <1>2
  <2> HIDE DEF n, last
  <2>2. 2 * n + last \in Nat
      BY <2>1
  <2> QED BY <1>3, <2>2 DEF n, last
<1> QED BY <1>1, <1>4, <1>5

\* What stands goes on standing as more is entered and stored.
LEMMA StandsStays ==
    ASSUME NEW r, Stands(r), Entered \subseteq Entered', stored \subseteq stored'
    PROVE  Stands(r)'
<1>1. /\ IsReceipt(r) /\ Follows(r) /\ IsInjective(r.done)
      /\ ToSet(r.done) \subseteq stored'
      /\ r.generation # 0 => /\ r.prior \in Entered'
                             /\ r.generation = r.prior.generation + 1
    BY DEF Stands
<1> QED BY <1>1 DEF Stands

LEMMA FirstStands ==
    ASSUME NEW t \in Targets
    PROVE  /\ Stands(Started(t)) /\ Started(t).generation = 0
           /\ CycleIsSound(Started(t)) /\ Started(t).target = t
<1> DEFINE r == Started(t)
<1>1. /\ r.kind = "started" /\ r.generation = 0 /\ r.target = t /\ r.pending = None
      /\ r.done = <<>>
    BY DEF Started, Receipt
<1>2. <<>> \in Seq(Envelopes) /\ Len(<<>>) = 0 /\ DOMAIN <<>> = {}
    OBVIOUS
<1>3. IsReceipt(r)
    BY <1>1, <1>2, Instances DEF IsReceipt, Pending, StepsAssumption
<1>4. Follows(r)
    BY <1>1 DEF Follows
<1>5. IsInjective(r.done) /\ ToSet(r.done) = {}
    BY <1>1, <1>2 DEF IsInjective, ToSet
<1>6. CycleIsSound(r)
    BY <1>1, <1>2 DEF CycleIsSound
<1> HIDE DEF r
<1>7. Stands(r)
    BY <1>1, <1>3, <1>4, <1>5 DEF Stands
<1> USE DEF r
<1> QED BY <1>1, <1>6, <1>7

LEMMA IssuedStands ==
    ASSUME FilesInv, pointer # Absent, pointer.pending = None,
           Canonical(pointer.target, pointer.done) # None
    PROVE  /\ Stands(Issued(pointer)) /\ Issued(pointer).generation # 0
           /\ Issued(pointer).prior = pointer
<1>1. Stands(pointer) /\ pointer \in Entered
    BY DEF FilesInv, Entered, ToSet
<1> SUFFICES ASSUME NEW x, x = pointer, NEW r, r = Issued(x)
             PROVE  Stands(r) /\ r.generation # 0 /\ r.prior = x
    BY Zenon
<1>2. /\ r.kind = "issued" /\ r.generation = x.generation + 1 /\ r.target = x.target
      /\ r.pending = Canonical(x.target, x.done) /\ r.done = x.done /\ r.prior = x
    BY DEF Issued, Receipt
<1>3. /\ IsReceipt(x) /\ x.pending = None /\ x.generation \in Nat
      /\ IsInjective(x.done) /\ ToSet(x.done) \subseteq stored
      /\ Canonical(x.target, x.done) # None
    BY <1>1, KindsDiffer DEF Stands
<1>4. /\ r.pending \in Pending /\ r.pending # None
      /\ Len(x.done) \in Nat /\ PlanSteps \in Nat /\ Len(x.done) < PlanSteps
  <2>1. /\ x.target \in Targets /\ x.done \in Seq(Envelopes) /\ Len(x.done) <= PlanSteps
        /\ Len(x.done) \in Nat /\ PlanSteps \in Nat
      BY <1>3, Instances DEF IsReceipt, StepsAssumption
  <2>2. ~(Len(x.done) >= PlanSteps)
      BY <1>3 DEF Canonical
  <2> QED BY <1>2, <1>3, <2>1, <2>2, CanonicalIsPending
<1>5. IsReceipt(r)
    BY <1>2, <1>3, <1>4 DEF IsReceipt
<1>6. Follows(r)
    BY <1>2, <1>3 DEF Follows
<1>7. Stands(r)
    BY <1>1, <1>2, <1>3, <1>5, <1>6 DEF Stands
<1> QED BY <1>2, <1>3, <1>7

LEMMA AssimilatedStands ==
    ASSUME FilesInv, MayAssimilate(offered), stored' = stored \union {offered},
           UNCHANGED ledger, NEW r, r = Assimilated(pointer, offered)
    PROVE  Stands(r)' /\ r.generation # 0 /\ r.prior = pointer
<1>1. /\ Stands(pointer) /\ pointer \in Entered /\ pointer # Absent
      /\ pointer.pending # None /\ offered \in Envelopes /\ offered \notin ToSet(pointer.done)
      /\ Fits(offered, pointer.target, pointer.pending)
    BY DEF FilesInv, Entered, ToSet, MayAssimilate, Loads
<1>2. /\ pointer \in Entered' /\ ToSet(pointer.done) \subseteq stored' /\ offered \in stored'
    BY <1>1 DEF Stands, Entered
<1>3. /\ IsReceipt(pointer) /\ pointer.generation \in Nat /\ IsInjective(pointer.done)
    BY <1>1, KindsDiffer DEF Stands
<1>5. ASSUME NEW x, x = pointer, NEW e, e = offered
      PROVE  Stands(r)' /\ r.generation # 0 /\ r.prior = x
  <2>2. /\ r.kind = "assimilated" /\ r.generation = x.generation + 1
        /\ r.target = x.target /\ r.pending = None /\ r.done = Append(x.done, e) /\ r.prior = x
      BY <1>5 DEF Assimilated, Receipt
  <2>3. /\ x.done \in Seq(Envelopes) /\ Len(x.done) < PlanSteps /\ Len(x.done) \in Nat
        /\ PlanSteps \in Nat /\ x.generation = 2 * Len(x.done) + 1
        /\ e \in Envelopes /\ e \notin ToSet(x.done)
      BY <1>1, <1>3, <1>5, Instances DEF IsReceipt, StepsAssumption
  <2>4. /\ r.done \in Seq(Envelopes) /\ Len(r.done) = Len(x.done) + 1
        /\ Last(r.done) = e /\ ToSet(r.done) = ToSet(x.done) \union {e}
      BY <2>2, <2>3, AppendTells
  <2>5. IsInjective(r.done)
      BY <1>3, <1>5, <2>2, <2>3, AppendKeepsApart
  <2>6. IsReceipt(r)
    <3>1. r.generation = 2 * Len(r.done) + 0 /\ Len(r.done) <= PlanSteps
        BY <2>2, <2>3, <2>4
    <3>2. r.target \in Targets /\ r.pending \in Pending
        BY <1>3, <1>5, <2>2 DEF IsReceipt, Pending
    <3> QED BY <2>2, <2>4, <3>1, <3>2 DEF IsReceipt
  <2>7. Follows(r)
    <3>1. Fits(Last(r.done), r.target, r.prior.pending) /\ r.prior.pending # None
        BY <1>1, <1>5, <2>2, <2>4
    <3> QED BY <1>5, <2>2, <2>4, <3>1 DEF Follows
  <2>8. /\ r.prior \in Entered' /\ ToSet(r.done) \subseteq stored'
      BY <1>2, <1>5, <2>2, <2>4
  <2>9. Stands(r)'
      BY <2>2, <2>5, <2>6, <2>7, <2>8 DEF Stands
  <2> QED BY <1>3, <1>5, <2>2, <2>9
<1> QED BY <1>5

-----------------------------------------------------------------------------
(* The session: its steps.                                                   *)

LEMMA TaskIs ==
    ASSUME NEW op \in {"none", "start", "issue", "assimilate"}, NEW phase \in Phases,
           NEW target, NEW r, op = "start" => target \in Targets
    PROVE  /\ IsTask(Task(op, phase, target, r))
           /\ Task(op, phase, target, r).phase = phase
           /\ Task(op, phase, target, r).receipt = r
BY DEF IsTask, Task

LEMMA PhaseMoves ==
    ASSUME NEW t, IsTask(t), NEW phase \in Phases
    PROVE  /\ IsTask([t EXCEPT !.phase = phase])
           /\ [t EXCEPT !.phase = phase].phase = phase
           /\ [t EXCEPT !.phase = phase].receipt = t.receipt
BY DEF IsTask

LEMMA TaskMoves ==
    ASSUME TasksInv, NEW p \in Procs, NEW t, task' = [task EXCEPT ![p] = t]
    PROVE  /\ task' = [q \in Procs |-> task'[q]] /\ task'[p] = t
           /\ \A q \in Procs \ {p} : task'[q] = task[q]
<1>1. DOMAIN task = Procs
    BY DEF TasksInv
<1> QED BY <1>1

\* The others wait while one holds the lock.
LEMMA HolderAlone ==
    ASSUME TasksInv, NEW p \in Procs, task[p].phase \notin {"idle", "called"}
    PROVE  /\ lock = p /\ IsTask(task[p]) /\ TaskFits(p)
           /\ \A q \in Procs \ {p} : task[q].phase \in {"idle", "called"} /\ ~Bears(q)
<1>1. TaskFits(p) /\ \A q \in Procs : lock = q <=> task[q].phase \notin {"idle", "called"}
    BY DEF TasksInv, TaskFits
<1>2. lock = p
    BY <1>1
<1>3. \A q \in Procs \ {p} : task[q].phase \in {"idle", "called"}
    BY <1>1, <1>2
<1> QED BY <1>1, <1>2, <1>3 DEF TaskFits, Bears

LEMMA OthersFit ==
    ASSUME TasksInv, NEW p \in Procs, task[p].phase \notin {"idle", "called"},
           lock' \in {lock, None},
           NEW q \in Procs \ {p}, task'[q] = task[q]
    PROVE  TaskFits(q)' /\ ~Bears(q)' /\ lock' # q
<1>1. /\ lock = p /\ task[q].phase \in {"idle", "called"} /\ ~Bears(q) /\ IsTask(task[q])
    BY HolderAlone DEF TasksInv, TaskFits
<1>2. lock' # q
    BY <1>1, Instances DEF StepsAssumption
<1> QED BY <1>1, <1>2 DEF TaskFits, Bears

\* A step of the holder of the lock: what has to be shown of it.
LEMMA HolderSteps ==
    ASSUME TasksInv, NEW p \in Procs, task[p].phase \notin {"idle", "called"},
           NEW t, task' = [task EXCEPT ![p] = t], lock' \in {lock, None},
           IsTask(t), lock' = p <=> t.phase \notin {"idle", "called"},
           t.phase \in {"write", "append", "point"} =>
               \A r : r = t.receipt => /\ Succeeds(r)'
                                       /\ t.phase = "append" => r \in receipts' \ Entered'
                                       /\ t.phase = "point" => r \in Entered'
    PROVE  TasksInv' /\ task'[p] = t /\ \A q \in Procs \ {p} : ~Bears(q)' /\ lock' # q
<1>1. /\ task' = [q \in Procs |-> task'[q]] /\ task'[p] = t
      /\ \A q \in Procs \ {p} : task'[q] = task[q]
    BY TaskMoves
<1>2. \A q \in Procs \ {p} : TaskFits(q)' /\ ~Bears(q)' /\ lock' # q
    BY <1>1, OthersFit
<1>3. TaskFits(p)'
  <2>1. IsTask(task'[p]) /\ (lock' = p <=> task'[p].phase \notin {"idle", "called"})
      BY <1>1
  <2>2. ASSUME Bears(p)' PROVE Succeeds(task[p].receipt)'
    <3>1. \A r : r = t.receipt => Succeeds(r)'
        BY <1>1, <2>2 DEF Bears
    <3> SUFFICES ASSUME NEW r, r = task'[p].receipt PROVE Succeeds(r)'
        BY DEF Succeeds
    <3> QED BY <1>1, <3>1
  <2>3. /\ task'[p].phase = "append" => task'[p].receipt \in receipts' \ Entered'
        /\ task'[p].phase = "point" => task'[p].receipt \in Entered'
      BY <1>1
  <2> QED BY <2>1, <2>2, <2>3 DEF TaskFits
<1>4. lock' \in Procs \union {None}
    BY DEF TasksInv
<1> QED BY <1>1, <1>2, <1>3, <1>4 DEF TasksInv

LEMMA Leaving ==
    ASSUME TasksInv, NEW p \in Procs, task[p].phase \notin {"idle", "called"}, Leave(p)
    PROVE  TasksInv' /\ Between' /\ \A q \in Procs : ~Bears(q)'
<1>1. IsTask(Idle) /\ Idle.phase = "idle"
    BY TaskIs DEF Idle, Phases
<1>2. task' = [task EXCEPT ![p] = Idle] /\ lock' = None /\ None \notin Procs
    BY Instances DEF Leave, StepsAssumption
<1>3. TasksInv' /\ task'[p] = Idle /\ \A q \in Procs \ {p} : ~Bears(q)' /\ lock' # q
    BY <1>1, <1>2, HolderSteps
<1> QED BY <1>1, <1>2, <1>3 DEF Between, Bears

\* What the session files tell, for a step that leaves them alone.
LEMMA FilesStay ==
    ASSUME FilesInv, UNCHANGED files, observed' \in [Observations -> Versions],
           offered' \in Envelopes \union {None}, failures' \in Nat
    PROVE  FilesInv' /\ Entered' = Entered /\ Chain' = Chain
<1>1. Entered' = Entered /\ Chain' = Chain /\ stored' = stored
    BY DEF files, Entered, Chain
<1>2. \A r \in receipts' : Stands(r)'
    BY <1>1, StandsStays DEF FilesInv, files
<1> QED BY <1>1, <1>2 DEF FilesInv, files

LEMMA CallKeeps ==
    ASSUME SessionInv, NEW p \in Procs, NEW op \in {"start", "issue", "assimilate"},
           NEW target, op = "start" => target \in Targets, Call(p, op, target)
    PROVE  SessionInv'
<1> DEFINE t == Task(op, "called", target, Absent)
<1>1. /\ task[p].phase = "idle" /\ task' = [task EXCEPT ![p] = t]
      /\ UNCHANGED <<files, outside, lock, failures>>
    BY DEF Call
<1>2. IsTask(t) /\ t.phase = "called"
    BY TaskIs DEF Phases
<1> HIDE DEF t
<1>3. FilesInv' /\ Entered' = Entered /\ Chain' = Chain
    BY <1>1, FilesStay DEF SessionInv, FilesInv, outside
<1>4. /\ TasksInv /\ task' = [q \in Procs |-> task'[q]] /\ task'[p] = t
      /\ \A q \in Procs \ {p} : task'[q] = task[q]
    BY <1>1, TaskMoves DEF SessionInv
<1>5. lock # p
    BY <1>1, <1>4 DEF TasksInv, TaskFits
<1>6. TasksInv'
  <2>1. TaskFits(p)'
      BY <1>1, <1>2, <1>4, <1>5 DEF TaskFits, Bears
  <2>2. ASSUME NEW q \in Procs \ {p} PROVE TaskFits(q)'
    <3>1. TaskFits(q) /\ task'[q] = task[q]
        BY <1>4 DEF TasksInv
    <3> QED BY <1>1, <1>3, <3>1
         DEF TaskFits, Bears, Succeeds, Stands, files
  <2> QED BY <1>1, <1>4, <2>1, <2>2 DEF TasksInv
<1>7. TidyInv'
  <2> SUFFICES ASSUME failures = 0 PROVE TidyInv'
      BY <1>1 DEF TidyInv
  <2>1. Between' <=> Between
      BY <1>1, <1>4, <1>5 DEF Between
  <2>2. ~Bears(p)'
      BY <1>2, <1>4 DEF Bears
  <2>3. \A q \in Procs : Bears(q)' => Bears(q) /\ task'[q] = task[q]
      BY <1>4, <2>2 DEF Bears
  <2>4. TidyInv
      BY DEF SessionInv
  <2> QED BY <1>1, <1>3, <2>1, <2>3, <2>4 DEF TidyInv, files
<1> QED BY <1>3, <1>6, <1>7 DEF SessionInv

LEMMA TakeLockKeeps ==
    ASSUME SessionInv, NEW p \in Procs, TakeLock(p)
    PROVE  SessionInv'
<1> DEFINE t == [task[p] EXCEPT !.phase = "locked"]
<1>1. /\ task[p].phase = "called" /\ lock = None /\ lock' = p
      /\ task' = [task EXCEPT ![p] = t]
      /\ UNCHANGED <<files, outside, failures>>
    BY DEF TakeLock, Persisting
<1>2. TasksInv /\ TaskFits(p) /\ IsTask(task[p])
    BY DEF SessionInv, TasksInv, TaskFits
<1>3. IsTask(t) /\ t.phase = "locked"
    BY <1>2, PhaseMoves DEF Phases
<1> HIDE DEF t
<1>4. FilesInv' /\ Entered' = Entered /\ Chain' = Chain
    BY <1>1, FilesStay DEF SessionInv, FilesInv, outside
<1>5. /\ task' = [q \in Procs |-> task'[q]] /\ task'[p] = t
      /\ \A q \in Procs \ {p} : task'[q] = task[q]
    BY <1>1, <1>2, TaskMoves
<1>6. \A q \in Procs : lock # q /\ task[q].phase \in {"idle", "called"}
    BY <1>1, <1>2, Instances DEF TasksInv, TaskFits, StepsAssumption
<1>7. \A q \in Procs : ~Bears(q) /\ ~Bears(q)'
    BY <1>3, <1>5, <1>6 DEF Bears
<1>8. TasksInv'
  <2>1. TaskFits(p)'
      BY <1>1, <1>3, <1>5, <1>7 DEF TaskFits
  <2>2. ASSUME NEW q \in Procs \ {p} PROVE TaskFits(q)'
      BY <1>1, <1>2, <1>5, <1>6, <1>7 DEF TaskFits, TasksInv
  <2> QED BY <1>1, <1>5, <2>1, <2>2 DEF TasksInv
<1>9. TidyInv'
    BY <1>1, <1>4, <1>6, <1>7 DEF SessionInv, TidyInv, Between, files
<1> QED BY <1>4, <1>8, <1>9 DEF SessionInv

\* A call that gives up before it has written anything.
LEMMA LeavingKeeps ==
    ASSUME SessionInv, NEW p \in Procs, task[p].phase \in {"locked", "reload"}, Leave(p),
           UNCHANGED <<files, outside, failures>>
    PROVE  SessionInv'
<1>1. TasksInv /\ task[p].phase \notin {"idle", "called"}
    BY DEF SessionInv
<1>2. TasksInv' /\ Between' /\ \A q \in Procs : ~Bears(q)'
    BY <1>1, Leaving
<1>3. FilesInv' /\ Entered' = Entered /\ Chain' = Chain
    BY FilesStay DEF SessionInv, FilesInv, outside
<1>4. Between
    BY <1>1, HolderAlone DEF Between
<1> QED BY <1>2, <1>3, <1>4 DEF SessionInv, TidyInv, files

\* A call that goes on to write a receipt.
LEMMA PersistKeeps ==
    ASSUME SessionInv, NEW p \in Procs, task[p].phase = "locked", NEW r, Persist(p, r),
           Succeeds(r)', FilesInv', UNCHANGED <<pointer, receipts, ledger, failures>>,
           failures = 0 => marker' # None
    PROVE  SessionInv'
<1> DEFINE t == [task[p] EXCEPT !.phase = "write", !.receipt = r]
<1>1. /\ task' = [task EXCEPT ![p] = t] /\ lock' = lock
      /\ TasksInv /\ task[p].phase \notin {"idle", "called"}
    BY DEF Persist, SessionInv
<1>2. IsTask(task[p]) /\ lock = p
    BY <1>1, HolderAlone
<1>3. IsTask(t) /\ t.phase = "write" /\ t.receipt = r
    BY <1>2 DEF IsTask, Phases
<1> HIDE DEF t
<1>4. TasksInv' /\ task'[p] = t /\ \A q \in Procs \ {p} : ~Bears(q)' /\ lock' # q
    BY <1>1, <1>2, <1>3, HolderSteps
<1>5. Chain' = Chain /\ Entered' = Entered
    BY DEF Chain, Entered
<1>6. TidyInv'
  <2> SUFFICES ASSUME failures = 0 PROVE TidyInv'
      BY DEF TidyInv
  <2>1. Between
      BY <1>1, <1>2 DEF Between, TasksInv
  <2>2. ~Between'
      BY <1>1, <1>2, <1>3, <1>4 DEF Between
  <2>3. receipts = Chain /\ Entered = Chain
      BY <2>1 DEF SessionInv, TidyInv
  <2> QED BY <1>3, <1>4, <1>5, <2>2, <2>3 DEF TidyInv
<1> QED BY <1>4, <1>6 DEF SessionInv

LEMMA ReserveKeeps ==
    ASSUME SessionInv, NEW p \in Procs, Reserve(p)
    PROVE  SessionInv'
<1>1. /\ task[p].phase = "locked" /\ task[p].op = "start"
      /\ UNCHANGED <<pointer, receipts, stored, ledger, outside, failures>>
    BY DEF Reserve, Doing
<1>2. CASE pointer # Absent \/ marker # None
    BY <1>1, <1>2, LeavingKeeps DEF Reserve, files
<1>3. CASE ~(pointer # Absent \/ marker # None)
  <2>1. marker' = task[p].target /\ Persist(p, Started(task[p].target))
      BY <1>3 DEF Reserve
  <2>2. task[p].target \in Targets
      BY <1>1 DEF SessionInv, TasksInv, TaskFits, IsTask
  <2>3. marker' \in Targets /\ marker' # None /\ Started(task[p].target) = Started(marker')
      BY <2>1, <2>2, Instances DEF StepsAssumption
  <2>4. FilesInv'
    <3>1. \A r \in receipts' : Stands(r)'
        BY <1>1, StandsStays DEF SessionInv, FilesInv, Entered
    <3> QED BY <1>1, <2>3, <3>1 DEF SessionInv, FilesInv, Entered, outside
  <2>5. ASSUME NEW r, r = Started(marker') PROVE Succeeds(r)'
    <3>1. Stands(r)
        BY <2>3, <2>5, FirstStands
    <3>2. Stands(r)'
        BY <1>1, <3>1, StandsStays DEF Entered
    <3> QED BY <1>1, <1>3, <2>3, <2>5, <3>2 DEF Succeeds
  <2> QED BY <1>1, <2>1, <2>3, <2>4, <2>5, PersistKeeps
<1> QED BY <1>2, <1>3

LEMMA ProposeKeeps ==
    ASSUME SessionInv, NEW p \in Procs, Propose(p)
    PROVE  SessionInv'
<1>1. /\ task[p].phase = "locked" /\ UNCHANGED <<files, outside, failures>>
    BY DEF Propose, Doing
<1>2. CASE ~MayIssue
    BY <1>1, <1>2, LeavingKeeps DEF Propose
<1>3. CASE MayIssue
  <2>1. /\ pointer # Absent /\ pointer.pending = None /\ Persist(p, Issued(pointer))
        /\ Canonical(pointer.target, pointer.done) # None
      BY <1>3 DEF Propose, MayIssue, Loads
  <2>2. FilesInv' /\ Entered' = Entered /\ FilesInv
      BY <1>1, FilesStay DEF SessionInv, FilesInv, outside
  <2>3. ASSUME NEW r, r = Issued(pointer) PROVE Succeeds(r)'
    <3>1. Stands(r) /\ r.generation # 0 /\ r.prior = pointer
        BY <2>1, <2>2, <2>3, IssuedStands
    <3>2. Stands(r)'
        BY <1>1, <2>2, <3>1, StandsStays DEF files
    <3> QED BY <1>1, <2>1, <3>1, <3>2 DEF Succeeds, files
  <2>4. failures = 0 => marker # None
    <3>1. lock = p /\ Between
        BY <1>1, HolderAlone DEF SessionInv, Between
    <3> QED BY <2>1, <3>1 DEF SessionInv, TidyInv
  <2> QED BY <1>1, <2>1, <2>2, <2>3, <2>4, PersistKeeps DEF files
<1> QED BY <1>2, <1>3

LEMMA AcceptKeeps ==
    ASSUME SessionInv, NEW p \in Procs, Accept(p)
    PROVE  SessionInv'
<1>1. /\ task[p].phase = "locked"
      /\ UNCHANGED <<marker, pointer, receipts, ledger, outside, failures>>
    BY DEF Accept, Doing
<1>2. CASE ~MayAssimilate(offered)
    BY <1>1, <1>2, LeavingKeeps DEF Accept, files
<1>3. CASE MayAssimilate(offered)
  <2>1. /\ pointer # Absent /\ offered \in Envelopes /\ stored' = stored \union {offered}
        /\ Persist(p, Assimilated(pointer, offered)) /\ FilesInv
      BY <1>3 DEF Accept, MayAssimilate, Loads, SessionInv, FilesInv
  <2>2. FilesInv'
    <3>1. \A r \in receipts' : Stands(r)'
        BY <1>1, <2>1, StandsStays DEF FilesInv, Entered
    <3> QED BY <1>1, <2>1, <3>1 DEF FilesInv, Entered, outside
  <2>3. ASSUME NEW r, r = Assimilated(pointer, offered) PROVE Succeeds(r)'
    <3>1. Stands(r)' /\ r.generation # 0 /\ r.prior = pointer
        BY <1>1, <1>3, <2>1, <2>3, AssimilatedStands
    <3> QED BY <1>1, <2>1, <3>1 DEF Succeeds
  <2>4. failures = 0 => marker # None
    <3>1. lock = p /\ Between
        BY <1>1, HolderAlone DEF SessionInv, Between
    <3> QED BY <2>1, <3>1 DEF SessionInv, TidyInv
  <2> QED BY <1>1, <2>1, <2>2, <2>3, <2>4, PersistKeeps
<1> QED BY <1>2, <1>3

LEMMA WriteReceiptKeeps ==
    ASSUME SessionInv, NEW p \in Procs, WriteReceipt(p)
    PROVE  SessionInv'
<1> SUFFICES ASSUME NEW r, r = task[p].receipt PROVE SessionInv'
    OBVIOUS
<1>1. /\ task[p].phase = "write"
      /\ UNCHANGED <<marker, pointer, stored, ledger, outside, failures>>
      /\ FilesInv /\ TasksInv /\ Bears(p)
    BY DEF WriteReceipt, Persisting, SessionInv, Bears
<1>2. /\ lock = p /\ IsTask(task[p]) /\ Succeeds(r)
    BY <1>1, HolderAlone DEF TasksInv, TaskFits
<1>3. Chain' = Chain /\ Entered' = Entered
    BY <1>1 DEF Chain, Entered
<1>4. failures = 0 => marker # None /\ receipts = Chain /\ Entered = Chain
    BY <1>1 DEF SessionInv, TidyInv
<1>5. CASE CycleIsSound(r) /\ r \notin receipts
  <2> DEFINE t == [task[p] EXCEPT !.phase = "append"]
  <2>1. receipts' = receipts \union {r} /\ task' = [task EXCEPT ![p] = t] /\ lock' = lock
      BY <1>5 DEF WriteReceipt
  <2>2. IsTask(t) /\ t.phase = "append" /\ t.receipt = r
      BY <1>2, PhaseMoves DEF Phases
  <2> HIDE DEF t
  <2>3. FilesInv'
    <3>1. \A x \in receipts' : Stands(x)
        BY <1>1, <1>2, <2>1 DEF FilesInv, Succeeds
    <3>2. \A x \in receipts' : Stands(x)'
        BY <1>1, <1>3, <3>1, StandsStays
    <3>3. ledger' \in Seq(receipts')
        BY <1>1, <2>1 DEF FilesInv
    <3> QED BY <1>1, <1>3, <3>2, <3>3 DEF FilesInv, outside
  <2>4. Succeeds(r)' /\ r \in receipts' \ Entered'
    <3>1. r \notin Entered
        BY <1>1, <1>5 DEF FilesInv, Entered, ToSet
    <3>2. Stands(r)'
        BY <1>1, <1>2, <1>3, StandsStays DEF Succeeds
    <3> QED BY <1>1, <1>2, <1>3, <2>1, <3>1, <3>2 DEF Succeeds
  <2>5. TasksInv' /\ task'[p] = t /\ \A q \in Procs \ {p} : ~Bears(q)' /\ lock' # q
      BY <1>1, <1>2, <2>1, <2>2, <2>4, HolderSteps
  <2>6. TidyInv'
      BY <1>1, <1>2, <1>3, <1>4, <2>1, <2>2, <2>5 DEF TidyInv, Between
  <2> QED BY <2>3, <2>5, <2>6 DEF SessionInv
<1>6. CASE ~(CycleIsSound(r) /\ r \notin receipts)
  <2>1. Leave(p) /\ receipts' = receipts
      BY <1>6 DEF WriteReceipt
  <2>2. TasksInv' /\ Between' /\ \A q \in Procs : ~Bears(q)'
      BY <1>1, <2>1, Leaving
  <2>3. FilesInv'
      BY <1>1, <2>1, FilesStay DEF files, outside, FilesInv
  <2>4. failures = 0 => pointer # Absent
    <3> SUFFICES ASSUME failures = 0, pointer = Absent PROVE FALSE
        OBVIOUS
    <3>1. marker \in Targets /\ r = Started(marker)
        BY <1>2 DEF Succeeds
    <3>2. receipts = {}
        BY <1>4 DEF Chain
    <3> QED BY <1>6, <3>1, <3>2, FirstStands
  <2>5. TidyInv'
      BY <1>1, <1>3, <1>4, <2>1, <2>2, <2>4 DEF TidyInv
  <2> QED BY <2>2, <2>3, <2>5 DEF SessionInv
<1> QED BY <1>5, <1>6

LEMMA AppendEventKeeps ==
    ASSUME SessionInv, NEW p \in Procs, AppendEvent(p)
    PROVE  SessionInv'
<1> SUFFICES ASSUME NEW r, r = task[p].receipt PROVE SessionInv'
    OBVIOUS
<1> DEFINE t == [task[p] EXCEPT !.phase = "point"]
<1>1. /\ task[p].phase = "append" /\ ledger' = Append(ledger, r)
      /\ task' = [task EXCEPT ![p] = t]
      /\ UNCHANGED <<marker, pointer, receipts, stored, outside, lock, failures>>
      /\ FilesInv /\ TasksInv /\ Bears(p)
    BY DEF AppendEvent, Persisting, SessionInv, Bears
<1>2. /\ lock = p /\ IsTask(task[p]) /\ Succeeds(r) /\ r \in receipts \ Entered
    BY <1>1, HolderAlone DEF TasksInv, TaskFits
<1>3. IsTask(t) /\ t.phase = "point" /\ t.receipt = r
    BY <1>2, PhaseMoves DEF Phases
<1> HIDE DEF t
<1>4. /\ ledger' \in Seq(receipts') /\ IsInjective(ledger')
      /\ Entered' = Entered \union {r} /\ Chain' = Chain
  <2>1. ledger \in Seq(receipts) /\ IsInjective(ledger) /\ r \in receipts
        /\ r \notin ToSet(ledger)
      BY <1>1, <1>2 DEF FilesInv, Entered
  <2>2. ledger' \in Seq(receipts) /\ ToSet(ledger') = ToSet(ledger) \union {r}
      BY <1>1, <2>1, AppendTells
  <2>3. IsInjective(ledger')
      BY <1>1, <2>1, AppendKeepsApart
  <2> QED BY <1>1, <2>2, <2>3 DEF Entered, Chain
<1>5. FilesInv'
  <2>1. \A x \in receipts' : Stands(x)'
      BY <1>1, <1>4, StandsStays DEF FilesInv
  <2> QED BY <1>1, <1>4, <2>1 DEF FilesInv, outside
<1>6. Succeeds(r)' /\ r \in Entered'
  <2>1. Stands(r)'
      BY <1>1, <1>2, <1>4, StandsStays DEF Succeeds
  <2> QED BY <1>1, <1>2, <1>4, <2>1 DEF Succeeds
<1>7. TasksInv' /\ task'[p] = t /\ \A q \in Procs \ {p} : ~Bears(q)' /\ lock' # q
    BY <1>1, <1>2, <1>3, <1>6, HolderSteps
<1>8. TidyInv'
  <2>1. failures = 0 => /\ marker # None /\ receipts = Chain \union {r} /\ Entered = Chain
      BY <1>1 DEF SessionInv, TidyInv
  <2> QED BY <1>1, <1>2, <1>3, <1>4, <1>7, <2>1 DEF TidyInv, Between
<1> QED BY <1>5, <1>7, <1>8 DEF SessionInv

\* The successor's ancestors are those of the pointer, and itself.
LEMMA ChainGrows ==
    ASSUME FilesInv, NEW r, Succeeds(r)
    PROVE  Ancestry(r) = Chain \union {r} /\ r # Absent
<1>1. r # Absent /\ r.generation \in Nat
    BY KindsDiffer DEF Succeeds, Stands
<1>2. CASE pointer = Absent
  <2>1. r.generation = 0
      BY <1>2, FirstStands DEF Succeeds
  <2> QED BY <1>1, <1>2, <2>1, AncestryOfFirst DEF Chain
<1>3. CASE pointer # Absent
  <2>1. /\ r.prior = pointer /\ r.generation = r.prior.generation + 1
      BY <1>3 DEF Succeeds, Stands
  <2>2. r.prior.generation \in Nat
    <3>1. Stands(pointer)
        BY <1>3 DEF FilesInv, Entered, ToSet
    <3> QED BY <2>1, <3>1, KindsDiffer DEF Stands
  <2> QED BY <1>1, <1>3, <2>1, <2>2, AncestryOfNext DEF Chain
<1> QED BY <1>2, <1>3

LEMMA MovePointerKeeps ==
    ASSUME SessionInv, NEW p \in Procs, MovePointer(p)
    PROVE  SessionInv'
<1> SUFFICES ASSUME NEW r, r = task[p].receipt PROVE SessionInv'
    OBVIOUS
<1> DEFINE t == [task[p] EXCEPT !.phase = "reload"]
<1>1. /\ task[p].phase = "point" /\ pointer' = r
      /\ task' = [task EXCEPT ![p] = t]
      /\ UNCHANGED <<marker, receipts, stored, ledger, outside, lock, failures>>
      /\ FilesInv /\ TasksInv /\ Bears(p)
    BY DEF MovePointer, Persisting, SessionInv, Bears
<1>2. /\ lock = p /\ IsTask(task[p]) /\ Succeeds(r) /\ r \in Entered
    BY <1>1, HolderAlone DEF TasksInv, TaskFits
<1>3. IsTask(t) /\ t.phase = "reload" /\ t.receipt = r
    BY <1>2, PhaseMoves DEF Phases
<1> HIDE DEF t
<1>4. Entered' = Entered /\ Chain' = Chain \union {r} /\ r # Absent
  <2>1. Ancestry(r) = Chain \union {r} /\ r # Absent
      BY <1>1, <1>2, ChainGrows
  <2>2. Chain' = Ancestry(r)
      BY <1>1, <2>1 DEF Chain
  <2> QED BY <1>1, <2>1, <2>2 DEF Entered
<1>5. FilesInv'
  <2>1. \A x \in receipts' : Stands(x)'
      BY <1>1, <1>4, StandsStays DEF FilesInv
  <2> QED BY <1>1, <1>2, <1>4, <2>1 DEF FilesInv, outside
<1>6. TasksInv' /\ task'[p] = t /\ \A q \in Procs \ {p} : ~Bears(q)' /\ lock' # q
    BY <1>1, <1>2, <1>3, HolderSteps
<1>7. TidyInv'
  <2>1. failures = 0 => /\ marker # None /\ receipts = Chain \union {r}
                        /\ Entered = receipts
      BY <1>1 DEF SessionInv, TidyInv
  <2>2. \A q \in Procs : ~Bears(q)'
      BY <1>3, <1>6 DEF Bears
  <2> QED BY <1>1, <1>4, <2>1, <2>2 DEF TidyInv
<1> QED BY <1>5, <1>6, <1>7 DEF SessionInv

\* After a failure nothing is claimed of what was left behind.
LEMMA FailureKeeps ==
    ASSUME SessionInv, NEW p \in Procs, failures' = failures + 1,
           UNCHANGED <<files, outside>>, TasksInv'
    PROVE  SessionInv'
<1>1. FilesInv'
    BY FilesStay DEF SessionInv, FilesInv, outside
<1>2. failures' # 0
    BY DEF SessionInv, FilesInv
<1> QED BY <1>1, <1>2 DEF SessionInv, TidyInv

LEMMA DieKeeps ==
    ASSUME SessionInv, NEW p \in Procs, Die(p)
    PROVE  SessionInv'
<1>1. /\ task[p].phase # "idle" /\ failures' = failures + 1 /\ UNCHANGED <<files, outside>>
      /\ task' = [task EXCEPT ![p] = Idle] /\ lock' = (IF lock = p THEN None ELSE lock)
      /\ TasksInv
    BY DEF Die, SessionInv
<1>2. IsTask(Idle) /\ Idle.phase = "idle"
    BY TaskIs DEF Idle, Phases
<1>3. None \notin Procs
    BY Instances DEF StepsAssumption
<1>4. TasksInv'
  <2>1. CASE task[p].phase \notin {"idle", "called"}
    <3>1. lock = p
        BY <1>1, <2>1, HolderAlone
    <3>2. lock' \in {lock, None} /\ (lock' = p <=> Idle.phase \notin {"idle", "called"})
        BY <1>1, <1>2, <1>3, <3>1
    <3>3. ~(Idle.phase \in {"write", "append", "point"})
        BY <1>2
    <3> HIDE DEF Idle
    <3> QED BY <1>1, <1>2, <2>1, <3>2, <3>3, HolderSteps
  <2>2. CASE task[p].phase = "called"
    <3>1. /\ task' = [q \in Procs |-> task'[q]] /\ task'[p] = Idle
          /\ \A q \in Procs \ {p} : task'[q] = task[q]
        BY <1>1, TaskMoves
    <3>2. lock # p /\ lock' = lock
        BY <1>1, <2>2 DEF TasksInv, TaskFits
    <3>3. TaskFits(p)'
        BY <1>2, <3>1, <3>2 DEF TaskFits, Bears
    <3>4. ASSUME NEW q \in Procs \ {p} PROVE TaskFits(q)'
        BY <1>1, <3>1, <3>2 DEF TasksInv, TaskFits, Bears, Succeeds, Stands, files, Entered
    <3> QED BY <1>1, <3>1, <3>2, <3>3, <3>4 DEF TasksInv
  <2> QED BY <1>1, <2>1, <2>2 DEF TasksInv, TaskFits, IsTask, Phases
<1> QED BY <1>1, <1>4, FailureKeeps

LEMMA OutsideKeeps ==
    ASSUME SessionInv,
           \/ \E o \in Observations, v \in Versions : Rewrite(o, v)
           \/ \E e \in Envelopes : Offer(e)
    PROVE  SessionInv'
<1>1. /\ UNCHANGED <<files, lock, task, failures>>
      /\ observed' \in [Observations -> Versions]
      /\ offered' \in Envelopes \union {None}
    BY DEF SessionInv, FilesInv, Rewrite, Offer
<1>2. FilesInv' /\ Entered' = Entered /\ Chain' = Chain
    BY <1>1, FilesStay DEF SessionInv, FilesInv
<1>3. TasksInv'
  <2>1. ASSUME NEW q \in Procs PROVE TaskFits(q)'
      BY <1>1, <1>2 DEF SessionInv, TasksInv, TaskFits, Bears, Succeeds, Stands, files
  <2> QED BY <1>1, <2>1 DEF SessionInv, TasksInv
<1>4. TidyInv'
    BY <1>1, <1>2 DEF SessionInv, TidyInv, Between, Bears, files
<1> QED BY <1>2, <1>3, <1>4 DEF SessionInv

LEMMA SessionStep ==
    ASSUME SessionInv, SessionNext
    PROVE  SessionInv'
<1>1. ASSUME NEW p \in Procs, Work(p) PROVE SessionInv'
  <2>1. CASE AppendFails(p)
    <3>1. TasksInv'
        BY <2>1, Leaving DEF AppendFails, Persisting, SessionInv
    <3> QED BY <2>1, <3>1, FailureKeeps DEF AppendFails
  <2>2. CASE Answer(p)
      BY <2>2, LeavingKeeps DEF Answer, Persisting
  <2> QED BY <1>1, <2>1, <2>2, TakeLockKeeps, ReserveKeeps, ProposeKeeps, AcceptKeeps,
             WriteReceiptKeeps, AppendEventKeeps, MovePointerKeeps, DieKeeps DEF Work
<1>2. ASSUME NEW p \in Procs, NEW t \in Targets, Start(p, t) PROVE SessionInv'
    BY <1>2, CallKeeps DEF Start
<1>3. ASSUME NEW p \in Procs, IssueNext(p) \/ Assimilate(p) PROVE SessionInv'
    BY <1>3, CallKeeps DEF IssueNext, Assimilate
<1> QED BY <1>1, <1>2, <1>3, OutsideKeeps DEF SessionNext

LEMMA SessionStays ==
    ASSUME SessionInv, UNCHANGED sessionVars
    PROVE  SessionInv'
<1>1. /\ UNCHANGED <<files, lock, task, failures>>
      /\ observed' \in [Observations -> Versions]
      /\ offered' \in Envelopes \union {None}
    BY DEF SessionInv, FilesInv, sessionVars, outside
<1>2. FilesInv' /\ Entered' = Entered /\ Chain' = Chain
    BY <1>1, FilesStay DEF SessionInv, FilesInv
<1>3. TasksInv'
  <2>1. ASSUME NEW q \in Procs PROVE TaskFits(q)'
      BY <1>1, <1>2 DEF SessionInv, TasksInv, TaskFits, Bears, Succeeds, Stands, files
  <2> QED BY <1>1, <2>1 DEF SessionInv, TasksInv
<1>4. TidyInv'
    BY <1>1, <1>2 DEF SessionInv, TidyInv, Between, Bears, files
<1> QED BY <1>2, <1>3, <1>4 DEF SessionInv

LEMMA SessionStarts == SessionInit => SessionInv
<1> SUFFICES ASSUME SessionInit PROVE SessionInv
    OBVIOUS
<1>1. /\ marker = None /\ pointer = Absent /\ receipts = {} /\ stored = {}
      /\ ledger = <<>> /\ observed \in [Observations -> Versions] /\ offered = None
      /\ lock = None /\ task = [p \in Procs |-> Idle] /\ failures = 0
      /\ None \notin Procs
    BY Instances DEF SessionInit, StepsAssumption
<1>2. Entered = {} /\ Chain = {}
    BY <1>1 DEF Entered, ToSet, Chain
<1>3. IsTask(Idle) /\ Idle.phase = "idle"
    BY TaskIs DEF Idle, Phases
<1>4. FilesInv
  <2>1. ledger \in Seq(receipts) /\ IsInjective(ledger)
      BY <1>1 DEF IsInjective
  <2> QED BY <1>1, <2>1 DEF FilesInv
<1>5. \A p \in Procs : task[p] = Idle /\ ~Bears(p)
  <2> HIDE DEF Idle
  <2> QED BY <1>1, <1>3 DEF Bears
<1>6. TasksInv
  <2> HIDE DEF Idle
  <2> QED BY <1>1, <1>3, <1>5 DEF TasksInv, TaskFits
<1>7. TidyInv
    BY <1>1, <1>2, <1>5 DEF TidyInv
<1> QED BY <1>4, <1>6, <1>7 DEF SessionInv

\* The five receipts before the last experiment is in.
LEMMA BegunIs ==
    /\ Len(Begun) = 5 /\ DOMAIN Begun = 1 .. 5
    /\ Begun[1] = Started("t1") /\ Begun[2] = First /\ Begun[3] = Assimilated(First, "e1")
    /\ Begun[4] = Second /\ Begun[5] = Whole
    /\ First.prior = Started("t1") /\ Assimilated(First, "e1").prior = First
    /\ Second.prior = Assimilated(First, "e1") /\ Whole.prior = Second
    /\ Started("t1").generation = 0 /\ First.generation = 1
    /\ Assimilated(First, "e1").generation = 2 /\ Second.generation = 3
    /\ Whole.generation = 4
    /\ Started("t1").done = <<>> /\ First.done = <<>>
    /\ Assimilated(First, "e1").done = <<"e1">>
    /\ Second.done = <<"e1">> /\ Whole.done = Append(<<"e1">>, "e2")
<1>1. Started("t1").generation = 0 /\ Started("t1").done = <<>>
    BY DEF Started, Receipt
<1>2. First.prior = Started("t1") /\ First.generation = 1 /\ First.done = <<>>
    BY <1>1 DEF First, Issued, Receipt
<1>3. ASSUME NEW f, f = First, NEW x, x = Assimilated(f, "e1")
      PROVE  x.prior = f /\ x.generation = 2 /\ x.done = <<"e1">>
    BY <1>2, <1>3 DEF Assimilated, Receipt
<1>4. ASSUME NEW x, x = Assimilated(First, "e1"), NEW y, y = Issued(x)
      PROVE  y.prior = x /\ y.generation = 3 /\ y.done = <<"e1">>
    BY <1>3, <1>4 DEF Issued, Receipt
<1>5. ASSUME NEW y, y = Second, NEW z, z = Assimilated(y, "e2")
      PROVE  z.prior = y /\ z.generation = 4 /\ z.done = Append(<<"e1">>, "e2")
  <2>1. y.generation = 3 /\ y.done = <<"e1">>
      BY <1>4, <1>5 DEF Second
  <2>2. z.prior = y /\ z.generation = y.generation + 1 /\ z.done = Append(y.done, "e2")
      BY <1>5 DEF Assimilated, Receipt
  <2> QED BY <2>1, <2>2
<1>6. /\ Second.prior = Assimilated(First, "e1") /\ Second.generation = 3
      /\ Second.done = <<"e1">>
    BY <1>4 DEF Second
<1>7. Whole.prior = Second /\ Whole.generation = 4 /\ Whole.done = Append(<<"e1">>, "e2")
    BY <1>5 DEF Whole
<1>8. /\ Assimilated(First, "e1").prior = First /\ Assimilated(First, "e1").generation = 2
      /\ Assimilated(First, "e1").done = <<"e1">>
    BY <1>3
<1> HIDE DEF First, Second, Whole, Started, Assimilated
<1>9. /\ Len(Begun) = 5 /\ DOMAIN Begun = 1 .. 5
      /\ Begun[1] = Started("t1") /\ Begun[2] = First /\ Begun[3] = Assimilated(First, "e1")
      /\ Begun[4] = Second /\ Begun[5] = Whole
    BY DEF Begun
<1> QED BY <1>1, <1>2, <1>6, <1>7, <1>8, <1>9

LEMMA BegunChains ==
    /\ Begun \in Seq(ToSet(Begun)) /\ IsInjective(Begun)
    /\ ToSet(Begun) = {Begun[1], Begun[2], Begun[3], Begun[4], Begun[5]}
    /\ Ancestry(Second) = {Begun[1], Begun[2], Begun[3], Begun[4]}
    /\ \A r \in ToSet(Begun) :
           r.generation # 0 => /\ r.prior \in ToSet(Begun)
                               /\ r.generation = r.prior.generation + 1
<1>1. ToSet(Begun) = {Begun[1], Begun[2], Begun[3], Begun[4], Begun[5]}
  <2>1. DOMAIN Begun = {1, 2, 3, 4, 5}
      BY BegunIs
  <2> QED BY <2>1 DEF ToSet
<1>2. \A i \in 1 .. 5 : Begun[i].generation = i - 1
  <2> SUFFICES ASSUME NEW i \in 1 .. 5 PROVE Begun[i].generation = i - 1
      OBVIOUS
  <2>1. i = 1 \/ i = 2 \/ i = 3 \/ i = 4 \/ i = 5
      OBVIOUS
  <2> QED BY <2>1, BegunIs
<1>3. IsInjective(Begun)
  <2>1. \A i, j \in 1 .. 5 : Begun[i] = Begun[j] => i = j
      BY <1>2
  <2> QED BY <2>1, BegunIs DEF IsInjective
<1>4. Begun \in Seq(ToSet(Begun))
  <2>1. \A i \in 1 .. 5 : Begun[i] \in ToSet(Begun)
      BY BegunIs DEF ToSet
  <2>2. Begun = <<Begun[1], Begun[2], Begun[3], Begun[4], Begun[5]>>
      BY BegunIs DEF Begun
  <2>3. /\ Begun[1] \in ToSet(Begun) /\ Begun[2] \in ToSet(Begun) /\ Begun[3] \in ToSet(Begun)
        /\ Begun[4] \in ToSet(Begun) /\ Begun[5] \in ToSet(Begun)
      BY <2>1
  <2>4. <<Begun[1], Begun[2], Begun[3], Begun[4], Begun[5]>> \in Seq(ToSet(Begun))
      BY <2>3
  <2> QED BY <2>2, <2>4
<1>5. Ancestry(Second) = {Begun[1], Begun[2], Begun[3], Begun[4]}
  <2>1. Ancestry(Started("t1")) = {Begun[1]}
      BY BegunIs, AncestryOfFirst
  <2>2. Ancestry(First) = Ancestry(Started("t1")) \union {First}
    <3>1. First.prior.generation = 0 /\ First.generation = 1
        BY BegunIs
    <3>2. Ancestry(First) = Ancestry(First.prior) \union {First}
        BY <3>1, AncestryOfNext
    <3> QED BY <3>2, BegunIs
  <2>3. ASSUME NEW x, x = Assimilated(First, "e1")
        PROVE  Ancestry(x) = Ancestry(First) \union {x}
    <3>1. x.prior.generation = 1 /\ x.generation = 2 /\ x.prior = First
        BY <2>3, BegunIs
    <3>2. Ancestry(x) = Ancestry(x.prior) \union {x}
        BY <3>1, AncestryOfNext
    <3> QED BY <3>1, <3>2
  <2>4. Ancestry(Second) = Ancestry(Assimilated(First, "e1")) \union {Second}
    <3>1. Second.prior.generation = 2 /\ Second.generation = 3
        BY BegunIs
    <3>2. Ancestry(Second) = Ancestry(Second.prior) \union {Second}
        BY <3>1, AncestryOfNext
    <3> QED BY <3>2, BegunIs
  <2>5. Ancestry(Assimilated(First, "e1")) = Ancestry(First) \union {Begun[3]}
      BY <2>3, BegunIs
  <2> QED BY <2>1, <2>2, <2>4, <2>5, BegunIs
<1>6. ASSUME NEW r \in ToSet(Begun), r.generation # 0
      PROVE  r.prior \in ToSet(Begun) /\ r.generation = r.prior.generation + 1
  <2>1. r = Begun[2] \/ r = Begun[3] \/ r = Begun[4] \/ r = Begun[5]
      BY <1>1, <1>6, BegunIs
  <2>2. CASE r = Begun[2]
      BY <1>1, <2>2, BegunIs
  <2>3. CASE r = Begun[3]
      BY <1>1, <2>3, BegunIs
  <2>4. CASE r = Begun[4]
      BY <1>1, <2>4, BegunIs
  <2>5. CASE r = Begun[5]
      BY <1>1, <2>5, BegunIs
  <2> QED BY <2>1, <2>2, <2>3, <2>4, <2>5
<1> QED BY <1>1, <1>3, <1>4, <1>5, <1>6

LEMMA BeforeTheLastHolds == BeforeTheLast => SessionInv
<1> SUFFICES ASSUME BeforeTheLast PROVE SessionInv
    OBVIOUS
<1>1. PICK p \in Procs :
          /\ lock = p
          /\ task = [x \in Procs |-> IF x = p THEN Task("assimilate", "point", None, Whole)
                                     ELSE Idle]
    BY DEF BeforeTheLast
<1>2. /\ marker = "t1" /\ pointer = Second /\ receipts = ToSet(Begun)
      /\ stored = {"e1", "e2"} /\ ledger = Begun /\ observed = AsMeasured /\ offered = "e2"
      /\ failures = 0
    BY DEF BeforeTheLast
<1>3. /\ "t1" \in Targets /\ "e1" \in Envelopes /\ "e2" \in Envelopes
      /\ None \notin Targets /\ None \notin Procs
      /\ AsMeasured \in [Observations -> Versions]
      /\ \A i \in DOMAIN Begun : IsReceipt(Begun[i]) /\ Follows(Begun[i])
    BY Instances DEF BegunAssumption, StepsAssumption
<1>4. Entered = ToSet(Begun)
    BY <1>2 DEF Entered
<1>5. \A r \in receipts : Stands(r)
  <2> SUFFICES ASSUME NEW i \in 1 .. 5 PROVE Stands(Begun[i])
      BY <1>2, BegunIs DEF ToSet
  <2>1. Begun[i] \in ToSet(Begun)
      BY BegunIs DEF ToSet
  <2>2. IsInjective(Begun[i].done) /\ ToSet(Begun[i].done) \subseteq stored
    <3>1. i = 1 \/ i = 2 \/ i = 3 \/ i = 4 \/ i = 5
        OBVIOUS
    <3>2. Begun[i].done = <<>> \/ Begun[i].done = <<"e1">> \/ Begun[i].done = Append(<<"e1">>, "e2")
        BY <3>1, BegunIs
    <3>3. /\ IsInjective(<<>>) /\ ToSet(<<>>) = {}
          /\ IsInjective(<<"e1">>) /\ ToSet(<<"e1">>) = {"e1"}
        BY DEF IsInjective, ToSet
    <3>4. /\ IsInjective(Append(<<"e1">>, "e2"))
          /\ ToSet(Append(<<"e1">>, "e2")) = {"e1", "e2"}
      <4>1. <<"e1">> \in Seq({"e1", "e2"}) /\ "e2" \in {"e1", "e2"} /\ "e2" \notin ToSet(<<"e1">>)
          BY <3>3
      <4>2. ToSet(Append(<<"e1">>, "e2")) = ToSet(<<"e1">>) \union {"e2"}
          BY <4>1, AppendTells
      <4> QED BY <3>3, <4>1, <4>2, AppendKeepsApart
    <3> QED BY <1>2, <3>2, <3>3, <3>4
  <2>3. IsReceipt(Begun[i]) /\ Follows(Begun[i])
      BY <1>3, BegunIs
  <2> QED BY <1>4, <2>1, <2>2, <2>3, BegunChains DEF Stands
<1>6. pointer \in Entered /\ Whole \in Entered /\ pointer # Absent
      /\ Chain = {Begun[1], Begun[2], Begun[3], Begun[4]}
  <2>1. pointer \in Entered /\ Whole \in Entered
      BY <1>2, <1>4, BegunIs, BegunChains
  <2>2. pointer # Absent
      BY <1>2, <1>4, <1>5, <2>1, KindsDiffer DEF Stands
  <2> QED BY <1>2, <2>1, <2>2, BegunChains DEF Chain
<1>7. FilesInv
    BY <1>2, <1>3, <1>5, <1>6, BegunChains DEF FilesInv
<1>8. Succeeds(Whole)
  <2>1. Stands(Whole)
      BY <1>2, <1>4, <1>5, <1>6
  <2> QED BY <1>2, <1>6, <2>1, BegunIs DEF Succeeds
<1>9. /\ task[p] = Task("assimilate", "point", None, Whole)
      /\ \A q \in Procs \ {p} : task[q] = Idle
      /\ task = [q \in Procs |-> task[q]]
    BY <1>1
<1>10. /\ IsTask(task[p]) /\ task[p].phase = "point" /\ task[p].receipt = Whole
       /\ \A q \in Procs \ {p} : IsTask(task[q]) /\ task[q].phase = "idle"
  <2>1. IsTask(Idle) /\ Idle.phase = "idle"
      BY TaskIs DEF Idle, Phases
  <2>2. /\ IsTask(Task("assimilate", "point", None, Whole))
        /\ Task("assimilate", "point", None, Whole).phase = "point"
        /\ Task("assimilate", "point", None, Whole).receipt = Whole
      BY DEF Task, IsTask, Phases
  <2> HIDE DEF Task, Idle
  <2> QED BY <1>9, <2>1, <2>2
<1>11. TasksInv
  <2>1. ASSUME NEW q \in Procs PROVE TaskFits(q)
      BY <1>1, <1>3, <1>6, <1>8, <1>10 DEF TaskFits, Bears
  <2> QED BY <1>1, <1>9, <2>1 DEF TasksInv
<1>12. TidyInv
  <2>1. receipts = Chain \union {Whole}
      BY <1>2, <1>6, BegunIs, BegunChains
  <2>2. ~Between /\ \A q \in Procs : Bears(q) => q = p
      BY <1>1, <1>10 DEF Between, Bears
  <2> QED BY <1>2, <1>3, <1>4, <1>10, <2>1, <2>2 DEF TidyInv
<1> QED BY <1>7, <1>11, <1>12 DEF SessionInv

\* What the invariant was for.
LEMMA SessionTells == SessionInv => SessionSound
<1> SUFFICES ASSUME SessionInv PROVE SessionSound
    OBVIOUS
<1>1. FilesInv /\ TasksInv /\ TidyInv
    BY DEF SessionInv
<1>2. Entered \subseteq receipts /\ \A r \in receipts : IsReceipt(r) /\ Stands(r)
    BY <1>1 DEF FilesInv, Entered, ToSet, Stands
<1>3. SessionTypeOK
  <2>1. \A i \in DOMAIN ledger : ledger[i] \in receipts
      BY <1>1 DEF FilesInv
  <2>2. pointer = Absent \/ IsReceipt(pointer)
      BY <1>1, <1>2 DEF FilesInv
  <2> QED BY <1>1, <1>2, <2>1, <2>2 DEF SessionTypeOK, FilesInv, TasksInv, TaskFits
<1>4. PointerReplays
  <2> SUFFICES ASSUME pointer # Absent
               PROVE  /\ \A r \in Ancestry(pointer) : Bound(r) /\ Follows(r)
                      /\ \A i \in DOMAIN pointer.done : pointer.done[i] \in stored
                      /\ IsInjective(pointer.done)
      BY DEF PointerReplays
  <2>1. pointer \in Entered /\ Stands(pointer)
      BY <1>1, <1>2 DEF FilesInv
  <2>2. \A x \in Entered : /\ x.generation \in Nat
                           /\ x.generation # 0 => /\ x.prior \in Entered
                                                  /\ x.generation = x.prior.generation + 1
      BY <1>2, KindsDiffer DEF Stands
  <2>3. Ancestry(pointer) \subseteq Entered
      BY <2>1, <2>2, AncestryStays
  <2>4. ASSUME NEW r \in Entered PROVE Bound(r) /\ Follows(r)
    <3>1. PICK i \in DOMAIN ledger : ledger[i] = r
        BY DEF Entered, ToSet
    <3>2. EventsOf(r) = {i}
        BY <1>1, <3>1 DEF EventsOf, FilesInv, IsInjective
    <3>3. Cardinality(EventsOf(r)) = 1
        BY <3>2, FS_Singleton
    <3> QED BY <1>2, <3>3 DEF Bound, Stands
  <2> QED BY <2>1, <2>3, <2>4 DEF Stands, ToSet
<1>5. NothingStranded
  <2> SUFFICES ASSUME lock = None, failures = 0
               PROVE  /\ marker = None <=> pointer = Absent
                      /\ receipts = Chain /\ Entered = Chain
      BY DEF NothingStranded, Chain, Entered
  <2>1. Between
      BY Instances DEF Between, StepsAssumption
  <2> QED BY <1>1, <2>1 DEF TidyInv
<1> QED BY <1>3, <1>4, <1>5 DEF SessionSound

\* The pointer moves with the lock, to the receipt its holder bears.
LEMMA SessionAdvances ==
    ASSUME SessionInv, SessionNext
    PROVE  PointerAdvances
<1> SUFFICES ASSUME pointer' # pointer
             PROVE  IF pointer = Absent THEN pointer' = Started(marker)
                    ELSE pointer'.prior = pointer
    BY DEF PointerAdvances
<1>1. PICK p \in Procs : MovePointer(p)
    BY DEF SessionNext, Start, IssueNext, Assimilate, Call, Work, TakeLock, Reserve, Propose,
           Accept, WriteReceipt, AppendEvent, AppendFails, Answer, Die, Rewrite, Offer, files
<1>2. pointer' = task[p].receipt /\ Bears(p)
    BY <1>1 DEF MovePointer, Persisting, Bears
<1>3. Succeeds(task[p].receipt)
    BY <1>2 DEF SessionInv, TasksInv, TaskFits
<1> QED BY <1>2, <1>3 DEF Succeeds

\* A complete session has no successor: nothing is pending in it, and to issue
\* more would be a step the plan has no room for.
LEMMA CompleteIsLast ==
    ASSUME FilesInv, Complete(pointer), NEW r, Succeeds(r)
    PROVE  FALSE
<1>1. pointer # Absent
    BY DEF Complete, Absent, Receipt
<1>2. /\ Stands(pointer) /\ Stands(r) /\ r.generation # 0
      /\ r.prior = pointer /\ r.generation = pointer.generation + 1
    BY <1>1 DEF FilesInv, Entered, ToSet, Succeeds, Stands
<1>3. pointer.kind = "assimilated" /\ Len(pointer.done) = PlanSteps
    BY DEF Complete
<1> SUFFICES ASSUME NEW x, x = pointer PROVE FALSE
    OBVIOUS
<1>4. x.pending = None
  <2>1. x # Started(x.target) /\ x.kind # "issued"
      BY <1>3 DEF Started, Receipt
  <2>2. x = Assimilated(x.prior, Last(x.done))
      BY <1>2, <2>1 DEF Stands, Follows
  <2> QED BY <2>2 DEF Assimilated, Receipt
<1>5. PlanSteps \in Nat /\ x.generation = 2 * PlanSteps
    BY <1>2, <1>3, <1>4, Instances DEF Stands, IsReceipt, StepsAssumption
<1>6. r # Started(r.target) /\ r.kind # "assimilated"
    BY <1>2, <1>4 DEF Stands, Follows, Started, Receipt
<1>7. r = Issued(x)
    BY <1>2, <1>6 DEF Stands, Follows
<1>8. r.done = x.done /\ r.pending = Canonical(x.target, x.done)
    BY <1>7 DEF Issued, Receipt
<1>9. r.pending = None
    BY <1>3, <1>5, <1>8 DEF Canonical
<1>10. r.generation = 2 * PlanSteps
    BY <1>2, <1>3, <1>5, <1>8, <1>9 DEF Stands, IsReceipt
<1> QED BY <1>2, <1>5, <1>10

LEMMA CompleteStays ==
    ASSUME SessionInv, SessionNext, Complete(pointer)
    PROVE  pointer' = pointer
<1> SUFFICES ASSUME pointer' # pointer PROVE FALSE
    OBVIOUS
<1>1. PICK p \in Procs : MovePointer(p)
    BY DEF SessionNext, Start, IssueNext, Assimilate, Call, Work, TakeLock, Reserve, Propose,
           Accept, WriteReceipt, AppendEvent, AppendFails, Answer, Die, Rewrite, Offer, files
<1>2. Bears(p)
    BY <1>1 DEF MovePointer, Persisting, Bears
<1>3. Succeeds(task[p].receipt)
    BY <1>2 DEF SessionInv, TasksInv, TaskFits
<1> QED BY <1>3, CompleteIsLast DEF SessionInv

-----------------------------------------------------------------------------
(* What is handed over.                                                      *)

\* The records of a request, all installed.
AllInstalled(q) == \A x \in ToSet(Installs[q]) : installed[x.destination] = RecordOf(q, x)

RecorderFits(r) ==
    recorder[r] # None =>
        LET q == recorder[r].request
        IN  /\ recorder[r].phase = "install" => recorder[r].next \in 1 .. Len(Installs[q])
            /\ recorder[r].phase = "append" => q \in together \/ EventsFor(q) = {}
            /\ recorder[r].phase = "file" =>
                   /\ recorder[r].event \in EventsFor(q)
                   /\ q \in together \/ EventsFor(q) = {recorder[r].event}

Appending(r, q) ==
    recorder[r] # None /\ recorder[r].phase = "append" /\ recorder[r].request = q

RecordsInv ==
    /\ installed \in [Destinations -> {None} \union Records]
    /\ \A d \in Destinations : installed[d] # None =>
           \E q \in Requests : \E x \in ToSet(Installs[q]) :
               x.destination = d /\ installed[d] = RecordOf(q, x)
    /\ events \in Seq(Requests)
    /\ filed \in [Requests -> {None} \union Nat]
    /\ recorder \in [Recorders -> {None} \union RecorderStates]

OnceInv ==
    /\ \A q \in Requests : filed[q] # None =>
           /\ filed[q] \in EventsFor(q)
           /\ q \in together \/ EventsFor(q) = {filed[q]}
    /\ \A r \in Recorders : RecorderFits(r)
    /\ \A q \in Requests \ together :
           /\ \A i, j \in EventsFor(q) : i = j
           /\ \A r, s \in Recorders : Appending(r, q) /\ Appending(s, q) => r = s
           /\ q \in answered => ReceiptVerifies(q)

InputIs(input) ==
    /\ Complete(pointer) /\ input.request \in Requests
    /\ input = [session |-> pointer, request |-> input.request]

InputsInv ==
    /\ \A c \in Preparers : preparer[c] # None => InputIs(preparer[c])
    /\ \A input \in inputs :
           /\ InputIs(input) /\ AllInstalled(input.request)
           /\ Matches(input.session, input.request)

HandoffInv == RecordsInv /\ OnceInv /\ InputsInv

LEMMA HandoffStarts == HandoffInit => HandoffInv
<1> SUFFICES ASSUME HandoffInit PROVE HandoffInv
    OBVIOUS
<1>1. /\ \A q \in Requests : EventsFor(q) = {} /\ filed[q] = None
      /\ \A r \in Recorders : recorder[r] = None
      /\ \A c \in Preparers : preparer[c] = None
      /\ \A d \in Destinations : installed[d] = None
    BY DEF HandoffInit, EventsFor
<1>2. RecordsInv
    BY <1>1 DEF HandoffInit, RecordsInv
<1>3. OnceInv
    BY <1>1 DEF HandoffInit, OnceInv, RecorderFits, Appending
<1>4. InputsInv
    BY <1>1 DEF HandoffInit, InputsInv
<1> QED BY <1>2, <1>3, <1>4 DEF HandoffInv

LEMMA RecordIs ==
    ASSUME NEW q \in Requests, NEW x \in ToSet(Installs[q])
    PROVE  RecordOf(q, x) \in Records /\ RecordOf(q, x) # None /\ x.destination \in Destinations
<1>1. Installs[q] \in Seq([observation : Observations, version : Versions,
                           destination : Destinations])
    BY Instances DEF RequestsAssumption
<1>2. x \in [observation : Observations, version : Versions, destination : Destinations]
  <2> DEFINE T == [observation : Observations, version : Versions,
                   destination : Destinations]
  <2>1. PICK i \in DOMAIN Installs[q] : x = Installs[q][i]
      BY DEF ToSet
  <2>2. Installs[q] \in Seq(T)
      BY <1>1
  <2> HIDE DEF T
  <2>3. x \in T
      BY <2>1, <2>2
  <2> QED BY <2>3 DEF T
<1>3. RecordOf(q, x) \in Records
    BY <1>2 DEF RecordOf, Records
<1> QED BY <1>2, <1>3, Instances DEF RequestsAssumption

\* What does not concern a recorder or its request leaves the rest of it alone.
LEMMA BecomesTells ==
    ASSUME RecordsInv, NEW r \in Recorders, NEW state \in {None} \union RecorderStates,
           Become(r, state)
    PROVE  /\ recorder' \in [Recorders -> {None} \union RecorderStates]
           /\ recorder'[r] = state /\ \A s \in Recorders \ {r} : recorder'[s] = recorder[s]
BY DEF RecordsInv, Become

LEMMA RecorderTyped ==
    ASSUME RecordsInv, NEW r \in Recorders, recorder[r] # None
    PROVE  /\ recorder[r] \in RecorderStates /\ recorder[r].request \in Requests
           /\ recorder[r].next \in Nat /\ recorder[r].event \in Nat \union {None}
BY DEF RecordsInv, RecorderStates

\* A session moves under what is handed over.
LEMMA SessionLeavesHandoff ==
    ASSUME SessionInv, HandoffInv, SessionNext, UNCHANGED <<recording, preparing>>
    PROVE  HandoffInv'
<1>1. Complete(pointer) => pointer' = pointer
    BY CompleteStays
<1>2. RecordsInv' /\ OnceInv'
    BY DEF HandoffInv, RecordsInv, OnceInv, recording, RecorderFits, Appending, EventsFor,
           ReceiptVerifies
<1>3. InputsInv'
  <2>1. /\ preparer' = preparer /\ inputs' = inputs /\ installed' = installed
        /\ InputsInv
      BY DEF preparing, recording, HandoffInv
  <2>2. \A x : InputIs(x) => InputIs(x)'
      BY <1>1 DEF InputIs
  <2> QED BY <2>1, <2>2 DEF InputsInv, AllInstalled
<1> QED BY <1>2, <1>3 DEF HandoffInv

LEMMA RecordingIs ==
    ASSUME NEW q \in Requests, NEW next \in Nat, NEW event \in Nat \union {None},
           NEW phase \in {"install", "find", "append", "file", "verify"},
           NEW s, s = Recording(q, phase, next, event)
    PROVE  /\ s \in RecorderStates /\ s # None
           /\ s.request = q /\ s.next = next /\ s.phase = phase /\ s.event = event
<1>1. s \in RecorderStates
    BY DEF Recording, RecorderStates
<1> QED BY <1>1, Instances DEF Recording, RequestsAssumption

LEMMA BeginRecordKeeps ==
    ASSUME HandoffInv, NEW r \in Recorders, NEW q \in Requests, BeginRecord(r, q)
    PROVE  HandoffInv' /\ RecordsStay
<1> DEFINE state == Recording(q, IF filed[q] # None THEN "verify" ELSE "install", 1, None)
<1>1. /\ Become(r, state) /\ RecordsInv /\ OnceInv /\ InputsInv
      /\ UNCHANGED <<sessionVars, preparing, installed, events, filed, answered,
                     together, deaths>>
    BY DEF BeginRecord, HandoffInv
<1>2. /\ state \in RecorderStates /\ state.phase \in {"install", "verify"}
      /\ state.request = q /\ state.next = 1
    BY DEF RecorderStates, Recording
<1> HIDE DEF state
<1>3. /\ recorder' \in [Recorders -> {None} \union RecorderStates]
      /\ recorder'[r] = state /\ \A s \in Recorders \ {r} : recorder'[s] = recorder[s]
    BY <1>1, <1>2, BecomesTells
<1>4. RecordsInv'
    BY <1>1, <1>3 DEF RecordsInv
<1>5. RecorderFits(r)'
  <2>1. 1 \in 1 .. Len(Installs[q])
      BY Instances DEF RequestsAssumption
  <2> QED BY <1>2, <1>3, <2>1 DEF RecorderFits
<1>6. OnceInv'
  <2>1. \A s \in Recorders \ {r} : RecorderFits(s)'
      BY <1>1, <1>3 DEF OnceInv, RecorderFits, EventsFor
  <2>2. \A s \in Recorders, p \in Requests : Appending(s, p)' => Appending(s, p)
      BY <1>2, <1>3 DEF Appending
  <2> QED BY <1>1, <1>5, <2>1, <2>2 DEF OnceInv, EventsFor, ReceiptVerifies
<1>7. InputsInv' /\ RecordsStay
    BY <1>1 DEF InputsInv, RecordsStay, preparing, sessionVars, files, InputIs, AllInstalled
<1> QED BY <1>4, <1>6, <1>7 DEF HandoffInv

\* A recorder that gives up, or dies.
LEMMA RecorderLeaves ==
    ASSUME HandoffInv, NEW r \in Recorders, Become(r, None), recorder[r] # None,
           UNCHANGED <<sessionVars, preparing, installed, events, filed>>,
           together \subseteq together',
           answered' \ answered \subseteq {q \in Requests : ReceiptVerifies(q)}
    PROVE  HandoffInv' /\ RecordsStay
<1>1. RecordsInv /\ OnceInv /\ InputsInv
    BY DEF HandoffInv
<1>2. /\ recorder' \in [Recorders -> {None} \union RecorderStates]
      /\ recorder'[r] = None /\ \A s \in Recorders \ {r} : recorder'[s] = recorder[s]
    BY <1>1, BecomesTells
<1>3. RecordsInv'
    BY <1>1, <1>2 DEF RecordsInv
<1>4. OnceInv'
  <2>1. \A s \in Recorders : RecorderFits(s)'
      BY <1>1, <1>2 DEF OnceInv, RecorderFits, EventsFor
  <2>2. \A s \in Recorders, p \in Requests : Appending(s, p)' => Appending(s, p)
      BY <1>2 DEF Appending
  <2>3. \A q \in Requests : ReceiptVerifies(q)' <=> ReceiptVerifies(q)
      BY DEF ReceiptVerifies, EventsFor
  <2>4. \A q \in Requests : EventsFor(q)' = EventsFor(q)
      BY DEF EventsFor
  <2>5. \A q \in Requests \ together' : q \in answered' => ReceiptVerifies(q)'
      BY <1>1, <2>3 DEF OnceInv
  <2> QED BY <1>1, <2>1, <2>2, <2>4, <2>5 DEF OnceInv
<1>5. InputsInv' /\ RecordsStay
    BY <1>1 DEF InputsInv, RecordsStay, preparing, sessionVars, files, InputIs, AllInstalled
<1> QED BY <1>3, <1>4, <1>5 DEF HandoffInv

LEMMA InstallKeeps ==
    ASSUME HandoffInv, NEW r \in Recorders, Install(r)
    PROVE  HandoffInv' /\ RecordsStay
<1> SUFFICES ASSUME NEW q, q = recorder[r].request,
                    NEW x, x = Installs[q][recorder[r].next]
             PROVE  HandoffInv' /\ RecordsStay
    OBVIOUS
<1>1. /\ recorder[r] # None /\ recorder[r].phase = "install"
      /\ RecordsInv /\ OnceInv /\ InputsInv
      /\ UNCHANGED <<sessionVars, preparing, events, filed, answered, together, deaths>>
    BY DEF Install, At, HandoffInv
<1>2. /\ recorder[r] \in RecorderStates /\ q \in Requests /\ recorder[r].next \in Nat
      /\ recorder[r].event \in Nat \union {None}
    BY <1>1, RecorderTyped
<1>3. recorder[r].next \in 1 .. Len(Installs[q]) /\ x \in ToSet(Installs[q])
  <2>1. recorder[r].next \in 1 .. Len(Installs[q])
      BY <1>1 DEF OnceInv, RecorderFits
  <2>2. DOMAIN Installs[q] = 1 .. Len(Installs[q])
      BY <1>2, Instances DEF RequestsAssumption
  <2> QED BY <2>1, <2>2 DEF ToSet
<1>4. CASE ~(/\ observed[x.observation] = x.version
             /\ installed[x.destination] \in {None, RecordOf(q, x)})
  <2>1. Become(r, None) /\ UNCHANGED installed
      BY <1>4 DEF Install
  <2> QED BY <1>1, <2>1, RecorderLeaves
<1>5. CASE /\ observed[x.observation] = x.version
           /\ installed[x.destination] \in {None, RecordOf(q, x)}
  <2> DEFINE n == recorder[r].next
             state == IF n = Len(Installs[q]) THEN Recording(q, "find", 1, None)
                      ELSE Recording(q, "install", n + 1, None)
  <2>1. /\ installed' = [installed EXCEPT ![x.destination] = RecordOf(q, x)]
        /\ Become(r, state)
      BY <1>5 DEF Install
  <2>2. /\ state \in RecorderStates /\ state.request = q
        /\ state.phase \in {"install", "find"}
        /\ state.phase = "install" => state.next \in 1 .. Len(Installs[q])
    <3>1. /\ n \in Nat /\ n + 1 \in Nat /\ 1 \in Nat /\ None \in Nat \union {None}
          /\ n # Len(Installs[q]) => n + 1 \in 1 .. Len(Installs[q])
        BY <1>2, <1>3
    <3> HIDE DEF n
    <3>2. CASE n = Len(Installs[q])
      <4>1. state = Recording(q, "find", 1, None)
          BY <3>2
      <4> HIDE DEF state
      <4> QED BY <1>2, <3>1, <4>1 DEF Recording, RecorderStates
    <3>3. CASE n # Len(Installs[q])
      <4>1. state = Recording(q, "install", n + 1, None)
          BY <3>3
      <4> HIDE DEF state
      <4> QED BY <1>2, <3>1, <3>3, <4>1 DEF Recording, RecorderStates
    <3> QED BY <3>2, <3>3
  <2> HIDE DEF state
  <2>3. /\ recorder' \in [Recorders -> {None} \union RecorderStates]
        /\ recorder'[r] = state /\ \A s \in Recorders \ {r} : recorder'[s] = recorder[s]
      BY <1>1, <2>1, <2>2, BecomesTells
  <2>4. /\ RecordOf(q, x) \in Records /\ RecordOf(q, x) # None
        /\ x.destination \in Destinations
      BY <1>2, <1>3, RecordIs
  <2>5. /\ installed' \in [Destinations -> {None} \union Records]
        /\ installed'[x.destination] = RecordOf(q, x)
        /\ \A d \in Destinations \ {x.destination} : installed'[d] = installed[d]
      BY <1>1, <2>1, <2>4 DEF RecordsInv
  <2>6. \A d \in Destinations : installed[d] # None => installed'[d] = installed[d]
      BY <1>5, <2>4, <2>5
  <2>7. \A p \in Requests : \A y \in ToSet(Installs[p]) :
            installed[y.destination] = RecordOf(p, y) =>
                installed'[y.destination] = RecordOf(p, y)
      BY <2>6, RecordIs
  <2>8. RecordsInv'
    <3>1. ASSUME NEW d \in Destinations, installed'[d] # None
          PROVE  \E p \in Requests : \E y \in ToSet(Installs[p]) :
                     y.destination = d /\ installed'[d] = RecordOf(p, y)
      <4>1. CASE d = x.destination
          BY <1>2, <1>3, <2>5, <4>1
      <4>2. CASE d # x.destination
          BY <1>1, <2>5, <3>1, <4>2 DEF RecordsInv
      <4> QED BY <4>1, <4>2
    <3> QED BY <1>1, <2>3, <2>5, <3>1 DEF RecordsInv
  <2>9. OnceInv'
    <3>1. RecorderFits(r)'
        BY <2>2, <2>3 DEF RecorderFits
    <3>2. \A s \in Recorders \ {r} : RecorderFits(s)'
        BY <1>1, <2>3 DEF OnceInv, RecorderFits, EventsFor
    <3>3. \A s \in Recorders, p \in Requests : Appending(s, p)' => Appending(s, p)
        BY <2>2, <2>3 DEF Appending
    <3>4. \A p \in Requests : ReceiptVerifies(p) => ReceiptVerifies(p)'
        BY <1>1, <2>7 DEF ReceiptVerifies, EventsFor
    <3> QED BY <1>1, <3>1, <3>2, <3>3, <3>4 DEF OnceInv, EventsFor
  <2>10. InputsInv'
    <3>1. \A p \in Requests : AllInstalled(p) => AllInstalled(p)'
        BY <2>7 DEF AllInstalled
    <3>2. /\ pointer' = pointer /\ preparer' = preparer /\ inputs' = inputs
        BY <1>1 DEF preparing, sessionVars, files
    <3> QED BY <1>1, <3>1, <3>2 DEF InputsInv, InputIs
  <2> QED BY <2>6, <2>8, <2>9, <2>10 DEF HandoffInv, RecordsStay
<1> QED BY <1>4, <1>5

\* A recorder takes a step of its own: what the others rest on stays.
OthersStand(r) ==
    /\ \A s \in Recorders \ {r} : RecorderFits(s)'
    /\ \A s \in Recorders \ {r}, p \in Requests : Appending(s, p)' <=> Appending(s, p)

LEMMA OtherRecorders ==
    ASSUME HandoffInv, NEW r \in Recorders, NEW state \in {None} \union RecorderStates,
           Become(r, state), events' = events, together \subseteq together'
    PROVE  /\ recorder' \in [Recorders -> {None} \union RecorderStates]
           /\ recorder'[r] = state /\ OthersStand(r)
<1>1. RecordsInv /\ OnceInv
    BY DEF HandoffInv
<1>2. /\ recorder' \in [Recorders -> {None} \union RecorderStates]
      /\ recorder'[r] = state /\ \A s \in Recorders \ {r} : recorder'[s] = recorder[s]
    BY <1>1, BecomesTells
<1>3. \A q : EventsFor(q)' = EventsFor(q)
    BY DEF EventsFor
<1>4. ASSUME NEW s \in Recorders \ {r} PROVE RecorderFits(s)'
    BY <1>1, <1>2, <1>3 DEF OnceInv, RecorderFits
<1> QED BY <1>2, <1>4 DEF Appending, OthersStand

LEMMA FindEventKeeps ==
    ASSUME HandoffInv, NEW r \in Recorders, FindEvent(r)
    PROVE  HandoffInv' /\ RecordsStay
<1> SUFFICES ASSUME NEW q, q = recorder[r].request
             PROVE  HandoffInv' /\ RecordsStay
    OBVIOUS
<1>1. /\ recorder[r] # None /\ recorder[r].phase = "find"
      /\ RecordsInv /\ OnceInv /\ InputsInv
      /\ UNCHANGED <<sessionVars, preparing, installed, events, filed, answered, deaths>>
      /\ together' = IF AtLedger(q) # {r} THEN together \union {q} ELSE together
    BY DEF FindEvent, At, HandoffInv
<1>2. recorder[r] \in RecorderStates /\ q \in Requests
    BY <1>1, RecorderTyped
<1>3. PICK state :
          /\ Become(r, state) /\ state \in {None} \union RecorderStates
          /\ state # None =>
                 /\ state.request = q
                 /\ \/ state.phase = "append" /\ EventsFor(q) = {}
                    \/ /\ state.phase = "file" /\ state.event \in EventsFor(q)
                       /\ Cardinality(EventsFor(q)) = 1
  <2>1. CASE EventsFor(q) = {}
    <3> DEFINE s == Recording(q, "append", 1, None)
    <3>1. Become(r, s)
      <4>1. EventsFor(recorder[r].request) = {} /\ Cardinality({}) = 0
          BY <2>1, FS_EmptySet
      <4>2. Become(r, Recording(recorder[r].request, "append", 1, None))
          BY <4>1 DEF FindEvent
      <4> QED BY <4>2
    <3>2. s \in RecorderStates /\ s.request = q /\ s.phase = "append"
      <4>1. None \in Nat \union {None}
          OBVIOUS
      <4> QED BY <1>2, <4>1 DEF Recording, RecorderStates
    <3> HIDE DEF s
    <3> QED BY <2>1, <3>1, <3>2
  <2>2. CASE EventsFor(q) # {} /\ Cardinality(EventsFor(q)) = 1
    <3> DEFINE e == SoleEvent(q)
    <3> DEFINE s == Recording(q, "file", 1, e)
    <3>1. Become(r, s)
        BY <2>2 DEF FindEvent
    <3>2. e \in EventsFor(q)
        BY <2>2 DEF SoleEvent
    <3>3. e \in Nat
        BY <1>1, <3>2 DEF EventsFor, RecordsInv
    <3> HIDE DEF e
    <3>4. s \in RecorderStates /\ s.request = q /\ s.phase = "file" /\ s.event = e
        BY <1>2, <3>3 DEF Recording, RecorderStates
    <3> HIDE DEF s
    <3> QED BY <2>2, <3>1, <3>2, <3>4
  <2>3. CASE EventsFor(q) # {} /\ Cardinality(EventsFor(q)) # 1
    <3>1. Become(r, None)
        BY <2>3 DEF FindEvent
    <3> QED BY <3>1
  <2> QED BY <2>1, <2>2, <2>3
<1>4. /\ recorder' \in [Recorders -> {None} \union RecorderStates]
      /\ recorder'[r] = state /\ OthersStand(r)
  <2>1. events' = events /\ together \subseteq together'
      BY <1>1
  <2>2. Become(r, state) /\ state \in {None} \union RecorderStates
      BY <1>3
  <2> QED BY <2>1, <2>2, OtherRecorders
<1>5. \A p : EventsFor(p)' = EventsFor(p)
    BY <1>1 DEF EventsFor
<1>6. RecordsInv'
    BY <1>1, <1>4 DEF RecordsInv
<1>7. RecorderFits(r)'
  <2>1. CASE state = None
      BY <1>4, <2>1 DEF RecorderFits
  <2>2. CASE state # None /\ state.phase = "append" /\ EventsFor(q) = {}
      BY <1>3, <1>4, <1>5, <2>2 DEF RecorderFits
  <2>3. CASE /\ state # None /\ state.phase = "file" /\ state.event \in EventsFor(q)
             /\ Cardinality(EventsFor(q)) = 1
    <3>1. EventsFor(q) = {state.event}
      <4>1. IsFiniteSet(EventsFor(q))
        <5>1. IsFiniteSet(DOMAIN events)
            BY <1>1, FS_Interval DEF RecordsInv
        <5> QED BY <5>1, FS_Subset DEF EventsFor
      <4>2. \E x : EventsFor(q) = {x}
          BY <2>3, <4>1, FS_Singleton
      <4> QED BY <2>3, <4>2
    <3> QED BY <1>3, <1>4, <1>5, <2>3, <3>1 DEF RecorderFits
  <2> QED BY <1>3, <2>1, <2>2, <2>3
<1>8. OnceInv'
  <2>1. ASSUME NEW p \in Requests \ together', NEW s \in Recorders, NEW t \in Recorders,
               Appending(s, p)', Appending(t, p)'
        PROVE  s = t
    <3>1. CASE s # r /\ t # r
        BY <1>1, <1>4, <2>1, <3>1 DEF OnceInv, OthersStand
    <3>2. ASSUME NEW u \in Recorders \ {r}, Appending(u, p)', Appending(r, p)' PROVE FALSE
      <4>1. p = q
          BY <1>3, <1>4, <3>2 DEF Appending
      <4>2. u \in AtLedger(q)
          BY <1>4, <3>2, <4>1 DEF Appending, AtLedger, OthersStand
      <4>3. q \in together'
          BY <1>1, <4>2
      <4> QED BY <2>1, <4>1, <4>3
    <3> QED BY <2>1, <3>1, <3>2
  <2>2. /\ together \subseteq together' /\ filed' = filed /\ answered' = answered
        /\ \A p : ReceiptVerifies(p)' <=> ReceiptVerifies(p)
      BY <1>1 DEF ReceiptVerifies, EventsFor
  <2> QED BY <1>1, <1>4, <1>5, <1>7, <2>1, <2>2 DEF OnceInv, OthersStand
<1>9. InputsInv' /\ RecordsStay
    BY <1>1 DEF InputsInv, RecordsStay, preparing, sessionVars, files, InputIs, AllInstalled
<1> QED BY <1>6, <1>8, <1>9 DEF HandoffInv

LEMMA AppendRecordedKeeps ==
    ASSUME HandoffInv, NEW r \in Recorders, AppendRecorded(r)
    PROVE  HandoffInv' /\ RecordsStay
<1> SUFFICES ASSUME NEW q, q = recorder[r].request
             PROVE  HandoffInv' /\ RecordsStay
    OBVIOUS
<1> DEFINE n == Len(events) + 1
<1> DEFINE state == Recording(q, "file", 1, n)
<1>1. /\ recorder[r] # None /\ recorder[r].phase = "append"
      /\ RecordsInv /\ OnceInv /\ InputsInv
      /\ Become(r, state) /\ events' = Append(events, q)
      /\ UNCHANGED <<sessionVars, preparing, installed, filed, answered, together, deaths>>
    BY DEF AppendRecorded, At, HandoffInv
<1>2. recorder[r] \in RecorderStates /\ q \in Requests
    BY <1>1, RecorderTyped
<1>3. n \in Nat /\ events \in Seq(Requests)
    BY <1>1 DEF RecordsInv
<1>4. /\ state \in RecorderStates /\ state.request = q
      /\ state.phase = "file" /\ state.event = n
    BY <1>2, <1>3 DEF Recording, RecorderStates
<1>5. /\ events' \in Seq(Requests)
      /\ DOMAIN events' = DOMAIN events \union {n} /\ n \notin DOMAIN events
      /\ events'[n] = q /\ \A i \in DOMAIN events : events'[i] = events[i]
    BY <1>1, <1>2, <1>3
<1> HIDE DEF state, n
<1>6. /\ EventsFor(q)' = EventsFor(q) \union {n}
      /\ \A p : p # q => EventsFor(p)' = EventsFor(p)
    BY <1>5 DEF EventsFor
<1>7. /\ recorder' \in [Recorders -> {None} \union RecorderStates]
      /\ recorder'[r] = state /\ \A s \in Recorders \ {r} : recorder'[s] = recorder[s]
    BY <1>1, <1>4, BecomesTells
<1>8. RecordsInv'
    BY <1>1, <1>5, <1>7 DEF RecordsInv
<1>9. q \in together \/ (EventsFor(q) = {} /\ EventsFor(q)' = {n})
    BY <1>1, <1>6 DEF OnceInv, RecorderFits
<1>10. \A p \in Requests : filed[p] # None =>
           /\ filed[p] \in EventsFor(p)'
           /\ p \in together \/ EventsFor(p)' = {filed[p]}
  <2> TAKE p \in Requests
  <2>1. CASE p = q
      BY <1>1, <1>6, <1>9, <2>1 DEF OnceInv
  <2>2. CASE p # q
      BY <1>1, <1>6, <2>2 DEF OnceInv
  <2> QED BY <2>1, <2>2
<1>11. RecorderFits(r)'
    BY <1>1, <1>4, <1>6, <1>7, <1>9 DEF RecorderFits
<1>12. ASSUME NEW s \in Recorders \ {r} PROVE RecorderFits(s)'
  <2> SUFFICES ASSUME NEW p, p = recorder[s].request PROVE RecorderFits(s)'
      OBVIOUS
  <2>1. recorder'[s] = recorder[s] /\ RecorderFits(s) /\ together' = together
      BY <1>1, <1>7 DEF OnceInv
  <2>2. CASE recorder[s] = None
      BY <2>1, <2>2 DEF RecorderFits
  <2>3. CASE recorder[s] # None /\ p # q
    <3>1. EventsFor(p)' = EventsFor(p)
        BY <1>6, <2>3
    <3> QED BY <2>1, <2>3, <3>1 DEF RecorderFits
  <2>4. CASE recorder[s] # None /\ p = q /\ q \in together
    <3>1. EventsFor(p) \subseteq EventsFor(p)'
        BY <1>6, <2>4
    <3> QED BY <2>1, <2>4, <3>1 DEF RecorderFits
  <2>5. CASE recorder[s] # None /\ p = q /\ q \notin together
    <3>1. EventsFor(q) = {}
        BY <1>9, <2>5
    <3>2. ~Appending(s, q)
      <4>1. Appending(r, q)
          BY <1>1 DEF Appending
      <4> QED BY <1>1, <1>2, <2>5, <4>1 DEF OnceInv
    <3>3. recorder[s].phase \notin {"append", "file"}
        BY <2>1, <2>5, <3>1, <3>2 DEF RecorderFits, Appending
    <3> QED BY <2>1, <3>3 DEF RecorderFits
  <2> QED BY <2>2, <2>3, <2>4, <2>5
<1>13. OnceInv'
  <2>1. \A s \in Recorders : RecorderFits(s)'
      BY <1>11, <1>12
  <2>2. \A s \in Recorders, p \in Requests : Appending(s, p)' => Appending(s, p)
      BY <1>4, <1>7 DEF Appending
  <2>3. ASSUME NEW p \in Requests \ together
        PROVE  /\ \A i, j \in EventsFor(p)' : i = j
               /\ p \in answered => ReceiptVerifies(p)'
    <3>1. CASE p = q
      <4>1. EventsFor(q) = {} /\ EventsFor(q)' = {n}
          BY <1>9, <2>3, <3>1
      <4>2. p \notin answered
        <5>1. ReceiptVerifies(p) => EventsFor(p) # {}
            BY DEF ReceiptVerifies
        <5> QED BY <1>1, <2>3, <3>1, <4>1, <5>1 DEF OnceInv
      <4> QED BY <3>1, <4>1, <4>2
    <3>2. CASE p # q
      <4>1. EventsFor(p)' = EventsFor(p) /\ filed' = filed /\ installed' = installed
          BY <1>1, <1>6, <3>2
      <4>2. ReceiptVerifies(p)' <=> ReceiptVerifies(p)
          BY <4>1 DEF ReceiptVerifies
      <4> QED BY <1>1, <2>3, <4>1, <4>2 DEF OnceInv
    <3> QED BY <3>1, <3>2
  <2>4. together' = together /\ filed' = filed /\ answered' = answered
      BY <1>1
  <2> QED BY <1>1, <1>10, <2>1, <2>2, <2>3, <2>4 DEF OnceInv
<1>14. InputsInv' /\ RecordsStay
    BY <1>1 DEF InputsInv, RecordsStay, preparing, sessionVars, files, InputIs, AllInstalled
<1> QED BY <1>8, <1>13, <1>14 DEF HandoffInv

LEMMA FileReceiptKeeps ==
    ASSUME HandoffInv, NEW r \in Recorders, FileReceipt(r)
    PROVE  HandoffInv' /\ RecordsStay
<1> SUFFICES ASSUME NEW q, q = recorder[r].request, NEW e, e = recorder[r].event
             PROVE  HandoffInv' /\ RecordsStay
    OBVIOUS
<1>1. /\ recorder[r] # None /\ recorder[r].phase = "file"
      /\ RecordsInv /\ OnceInv /\ InputsInv
      /\ UNCHANGED <<sessionVars, preparing, installed, events, answered, together, deaths>>
    BY DEF FileReceipt, At, HandoffInv
<1>2. recorder[r] \in RecorderStates /\ q \in Requests
    BY <1>1, RecorderTyped
<1>3. e \in EventsFor(q) /\ (q \in together \/ EventsFor(q) = {e})
    BY <1>1 DEF OnceInv, RecorderFits
<1>4. e \in Nat /\ e # None
  <2>1. e \in Nat
      BY <1>1, <1>3 DEF RecordsInv, EventsFor
  <2> QED BY <2>1, Instances DEF RequestsAssumption
<1>5. CASE filed[q] \notin {None, e}
  <2>1. Become(r, None) /\ UNCHANGED filed
      BY <1>5 DEF FileReceipt
  <2> QED BY <1>1, <2>1, RecorderLeaves
<1>6. CASE filed[q] \in {None, e}
  <2> DEFINE state == Recording(q, "verify", 1, None)
  <2>1. filed' = [filed EXCEPT ![q] = e] /\ Become(r, state)
      BY <1>6 DEF FileReceipt
  <2>2. state \in RecorderStates /\ state.request = q /\ state.phase = "verify"
    <3>1. None \in Nat \union {None}
        OBVIOUS
    <3> QED BY <1>2, <3>1 DEF Recording, RecorderStates
  <2> HIDE DEF state
  <2>3. /\ recorder' \in [Recorders -> {None} \union RecorderStates]
        /\ recorder'[r] = state /\ OthersStand(r)
    <3>1. events' = events /\ together \subseteq together'
        BY <1>1
    <3> QED BY <2>1, <2>2, <3>1, OtherRecorders
  <2>4. /\ filed' \in [Requests -> {None} \union Nat] /\ filed'[q] = e
        /\ \A p \in Requests \ {q} : filed'[p] = filed[p]
      BY <1>1, <1>2, <1>4, <2>1 DEF RecordsInv
  <2>5. \A p : EventsFor(p)' = EventsFor(p)
      BY <1>1 DEF EventsFor
  <2>6. RecordsInv'
      BY <1>1, <2>3, <2>4 DEF RecordsInv
  <2>7. \A p \in Requests : filed'[p] # None =>
            /\ filed'[p] \in EventsFor(p)
            /\ p \in together \/ EventsFor(p) = {filed'[p]}
      BY <1>1, <1>3, <2>4 DEF OnceInv
  <2>8. ASSUME NEW p \in Requests \ together, p \in answered PROVE ReceiptVerifies(p)'
    <3>1. ReceiptVerifies(p)
        BY <1>1, <2>8 DEF OnceInv
    <3>2. EventsFor(p) = {filed'[p]}
      <4>1. CASE p = q
          BY <1>3, <2>4, <2>8, <4>1
      <4>2. CASE p # q
          BY <2>4, <3>1, <4>2 DEF ReceiptVerifies
      <4> QED BY <4>1, <4>2
    <3> QED BY <1>1, <2>5, <3>1, <3>2 DEF ReceiptVerifies
  <2>9. OnceInv'
    <3>1. RecorderFits(r)' /\ \A p \in Requests : ~Appending(r, p)'
        BY <2>2, <2>3 DEF RecorderFits, Appending
    <3>2. together' = together /\ answered' = answered
        BY <1>1
    <3>3. \A s \in Recorders, p \in Requests : Appending(s, p)' => Appending(s, p)
        BY <2>3, <3>1 DEF OthersStand
    <3>4. \A s \in Recorders : RecorderFits(s)'
        BY <2>3, <3>1 DEF OthersStand
    <3> QED BY <1>1, <2>5, <2>7, <2>8, <3>2, <3>3, <3>4 DEF OnceInv
  <2>10. InputsInv' /\ RecordsStay
      BY <1>1 DEF InputsInv, RecordsStay, preparing, sessionVars, files, InputIs,
                  AllInstalled
  <2> QED BY <2>6, <2>9, <2>10 DEF HandoffInv
<1> QED BY <1>5, <1>6

LEMMA RecordKeeps ==
    ASSUME HandoffInv, NEW r \in Recorders, Record(r)
    PROVE  HandoffInv' /\ RecordsStay
<1>1. CASE \E q \in Requests : BeginRecord(r, q)
    BY <1>1, BeginRecordKeeps
<1>2. CASE Install(r)
    BY <1>2, InstallKeeps
<1>3. CASE FindEvent(r)
    BY <1>3, FindEventKeeps
<1>4. CASE AppendRecorded(r)
    BY <1>4, AppendRecordedKeeps
<1>5. CASE FileReceipt(r)
    BY <1>5, FileReceiptKeeps
<1>6. CASE Verify(r)
  <2>1. recorder[r].request \in Requests
      BY <1>6, RecorderTyped DEF HandoffInv, Verify, At
  <2>2. answered' \ answered \subseteq {q \in Requests : ReceiptVerifies(q)}
      BY <1>6, <2>1 DEF Verify
  <2>3. /\ Become(r, None) /\ recorder[r] # None /\ together \subseteq together'
        /\ UNCHANGED <<sessionVars, preparing, installed, events, filed>>
      BY <1>6 DEF Verify, At
  <2> QED BY <2>2, <2>3, RecorderLeaves
<1>7. CASE RecorderDies(r)
  <2>1. /\ Become(r, None) /\ recorder[r] # None /\ together \subseteq together'
        /\ answered' \ answered \subseteq {q \in Requests : ReceiptVerifies(q)}
        /\ UNCHANGED <<sessionVars, preparing, installed, events, filed>>
      BY <1>7 DEF RecorderDies
  <2> QED BY <2>1, RecorderLeaves
<1> QED BY <1>1, <1>2, <1>3, <1>4, <1>5, <1>6, <1>7 DEF Record

LEMMA PrepareKeeps ==
    ASSUME HandoffInv, NEW c \in Preparers, Prepare(c)
    PROVE  HandoffInv' /\ RecordsStay
<1>1. RecordsInv /\ OnceInv /\ InputsInv
    BY DEF HandoffInv
<1>2. UNCHANGED <<sessionVars, recording>>
    BY DEF Prepare, Bind, ReadSession
<1>3. RecordsInv' /\ OnceInv' /\ RecordsStay
    BY <1>1, <1>2 DEF RecordsInv, OnceInv, RecordsStay, recording, RecorderFits, Appending,
                      EventsFor, ReceiptVerifies
<1>4. \A x : InputIs(x)' <=> InputIs(x)
    BY <1>2 DEF InputIs, sessionVars, files
<1>5. \A q : AllInstalled(q)' <=> AllInstalled(q)
    BY <1>2 DEF AllInstalled, recording
<1>6. CASE Bind(c)
  <2>1. \A d \in Preparers : preparer'[d] # None => preparer'[d] = preparer[d]
    <3>1. preparer' = [preparer EXCEPT ![c] = None]
        BY <1>6 DEF Bind
    <3> QED BY <3>1
  <2>2. \A d \in Preparers : preparer'[d] # None => InputIs(preparer'[d])
      BY <1>1, <2>1 DEF InputsInv
  <2>3. ASSUME NEW input \in inputs'
        PROVE  /\ InputIs(input) /\ AllInstalled(input.request)
               /\ Matches(input.session, input.request)
    <3>1. CASE input \in inputs
        BY <1>1, <3>1 DEF InputsInv
    <3>2. CASE input \notin inputs
      <4>1. /\ preparer[c] # None /\ input = preparer[c]
            /\ ReceiptLoads(preparer[c].request)
            /\ Matches(preparer[c].session, preparer[c].request)
          BY <1>6, <2>3, <3>2 DEF Bind
      <4>2. InputIs(preparer[c])
          BY <1>1, <4>1 DEF InputsInv
      <4>3. AllInstalled(preparer[c].request)
          BY <4>1 DEF ReceiptLoads, AllInstalled
      <4> QED BY <4>1, <4>2, <4>3
    <3> QED BY <3>1, <3>2
  <2>4. InputsInv'
      BY <1>4, <1>5, <2>2, <2>3 DEF InputsInv
  <2> QED BY <1>3, <2>4 DEF HandoffInv
<1>7. ASSUME NEW q \in Requests, ReadSession(c, q) PROVE HandoffInv' /\ RecordsStay
  <2> DEFINE input == [session |-> pointer, request |-> q]
  <2>1. /\ Complete(pointer) /\ preparer' = [preparer EXCEPT ![c] = input]
        /\ inputs' = inputs
      BY <1>7 DEF ReadSession
  <2>2. InputIs(input)
      BY <2>1 DEF InputIs
  <2> HIDE DEF input
  <2>3. \A d \in Preparers : preparer'[d] # None => InputIs(preparer'[d])
      BY <1>1, <2>1, <2>2 DEF InputsInv
  <2>4. InputsInv'
      BY <1>1, <1>4, <1>5, <2>1, <2>3 DEF InputsInv
  <2> QED BY <1>3, <2>4 DEF HandoffInv
<1> QED BY <1>6, <1>7 DEF Prepare

\* What was handed over is sound.
LEMMA HandoffTells == SessionInv /\ HandoffInv => HandoffSound
<1> SUFFICES ASSUME SessionInv, HandoffInv PROVE HandoffSound
    OBVIOUS
<1>1. RecordsInv /\ OnceInv /\ InputsInv
    BY DEF HandoffInv
<1>2. HandoffTypeOK
  <2>1. \A q \in Requests : filed[q] \in (DOMAIN events) \union {None}
      BY <1>1 DEF OnceInv, EventsFor
  <2>2. inputs \subseteq Inputs
    <3> SUFFICES ASSUME NEW input \in inputs PROVE input \in Inputs
        OBVIOUS
    <3>1. /\ input.request \in Requests
          /\ input = [session |-> pointer, request |-> input.request]
        BY <1>1 DEF InputsInv, InputIs
    <3> QED BY <3>1 DEF Inputs
  <2> QED BY <1>1, <2>1, <2>2 DEF HandoffTypeOK, RecordsInv
<1>3. InputsStayCanonical
  <2> SUFFICES ASSUME NEW input \in inputs
               PROVE  /\ pointer = input.session
                      /\ Loads /\ ReceiptLoads(input.request) => Canonically(input)
                      /\ \A i \in DOMAIN input.session.done :
                             LET e == Says[input.session.done[i]]
                             IN  \E x \in ToSet(Installs[input.request]) :
                                     /\ installed[x.destination] = RecordOf(input.request, x)
                                     /\ x.observation = e.observation
                                     /\ x.version = e.version
      BY DEF InputsStayCanonical
  <2>1. /\ Complete(pointer) /\ input.request \in Requests
        /\ input = [session |-> pointer, request |-> input.request]
        /\ AllInstalled(input.request) /\ Matches(input.session, input.request)
      BY <1>1 DEF InputsInv, InputIs
  <2>2. pointer = input.session
      BY <2>1
  <2>3. Loads /\ ReceiptLoads(input.request) => Canonically(input)
      BY <2>1, <2>2 DEF Canonically
  <2>4. ASSUME NEW i \in DOMAIN input.session.done,
               NEW e, e = Says[input.session.done[i]]
        PROVE  \E x \in ToSet(Installs[input.request]) :
                   /\ installed[x.destination] = RecordOf(input.request, x)
                   /\ x.observation = e.observation /\ x.version = e.version
    <3>1. <<e.observation, e.version>> \in SourcesOf(input.session)
        BY <2>4 DEF SourcesOf
    <3>2. <<e.observation, e.version>> \in InstalledSources(input.request)
        BY <2>1, <3>1 DEF Matches
    <3>3. PICK x \in ToSet(Installs[input.request]) :
              <<x.observation, x.version>> = <<e.observation, e.version>>
        BY <3>2 DEF InstalledSources
    <3>4. x.observation = e.observation /\ x.version = e.version
        BY <3>3
    <3>5. installed[x.destination] = RecordOf(input.request, x)
        BY <2>1 DEF AllInstalled
    <3> QED BY <3>4, <3>5
  <2> QED BY <2>2, <2>3, <2>4
<1>4. RecordedOnce
  <2> SUFFICES ASSUME NEW q \in Requests \ together
               PROVE  /\ Cardinality(EventsFor(q)) <= 1
                      /\ q \in answered => ReceiptVerifies(q)
      BY DEF RecordedOnce
  <2>1. \A i, j \in EventsFor(q) : i = j
      BY <1>1 DEF OnceInv
  <2>2. CASE EventsFor(q) = {}
    <3>1. Cardinality(EventsFor(q)) = 0
        BY <2>2, FS_EmptySet
    <3> QED BY <1>1, <3>1 DEF OnceInv
  <2>3. CASE EventsFor(q) # {}
    <3>1. PICK i : EventsFor(q) = {i}
        BY <2>1, <2>3
    <3>2. Cardinality(EventsFor(q)) = 1
        BY <3>1, FS_Singleton
    <3> QED BY <1>1, <3>2 DEF OnceInv
  <2> QED BY <2>2, <2>3
<1> QED BY <1>2, <1>3, <1>4 DEF HandoffSound

LEMMA HandoffStays ==
    ASSUME HandoffInv, UNCHANGED handoff
    PROVE  HandoffInv' /\ RecordsStay
<1>1. /\ pointer' = pointer /\ RecordsInv /\ OnceInv /\ InputsInv
      /\ UNCHANGED <<recording, preparing>>
    BY DEF HandoffInv, handoff, sessionVars, files
<1>2. RecordsInv' /\ RecordsStay
    BY <1>1 DEF RecordsInv, RecordsStay, recording
<1>3. OnceInv'
    BY <1>1 DEF OnceInv, recording, RecorderFits, Appending, EventsFor, ReceiptVerifies
<1>4. InputsInv'
    BY <1>1 DEF InputsInv, recording, preparing, InputIs, AllInstalled
<1> QED BY <1>2, <1>3, <1>4 DEF HandoffInv

\* A session and what it hands over, from wherever a part of it starts.
LearningInv == SessionInv /\ HandoffInv

LEMMA LearningStarts == Init => LearningInv
<1> SUFFICES ASSUME Init PROVE LearningInv
    OBVIOUS
<1>1. HandoffInv
    BY HandoffStarts DEF Init
<1>2. SessionInv
    BY SessionStarts, BeforeTheLastHolds DEF Init, SessionStart
<1> QED BY <1>1, <1>2 DEF LearningInv

LEMMA LearningStep ==
    ASSUME LearningInv, [Next]_vars
    PROVE  LearningInv' /\ PointerAdvances /\ RecordsStay
<1>1. SessionInv /\ HandoffInv
    BY DEF LearningInv
<1>2. CASE SessionNext /\ UNCHANGED <<recording, preparing>>
  <2>1. SessionInv' /\ PointerAdvances
      BY <1>1, <1>2, SessionStep, SessionAdvances
  <2>2. HandoffInv'
      BY <1>1, <1>2, SessionLeavesHandoff
  <2>3. RecordsStay
      BY <1>2 DEF RecordsStay, recording
  <2> QED BY <2>1, <2>2, <2>3 DEF LearningInv
<1>3. CASE /\ \/ \E r \in Recorders : Record(r)
              \/ \E c \in Preparers : Prepare(c)
  <2>1. UNCHANGED sessionVars
      BY <1>3 DEF Record, BeginRecord, Install, FindEvent, AppendRecorded, FileReceipt,
                  Verify, RecorderDies, Prepare, ReadSession, Bind
  <2>2. HandoffInv' /\ RecordsStay
      BY <1>1, <1>3, RecordKeeps, PrepareKeeps
  <2>3. SessionInv'
      BY <1>1, <2>1, SessionStays
  <2>4. PointerAdvances
      BY <2>1 DEF PointerAdvances, sessionVars, files
  <2> QED BY <2>2, <2>3, <2>4 DEF LearningInv
<1>4. CASE UNCHANGED handoff
  <2>1. UNCHANGED sessionVars
      BY <1>4 DEF handoff
  <2>2. SessionInv' /\ PointerAdvances
      BY <1>1, <2>1, SessionStays DEF PointerAdvances, sessionVars, files
  <2>3. HandoffInv' /\ RecordsStay
      BY <1>1, <1>4, HandoffStays
  <2> QED BY <2>2, <2>3 DEF LearningInv
<1>5. LastExperiment => SessionNext
    BY DEF LastExperiment, SessionNext, Work
<1> QED BY <1>2, <1>3, <1>4, <1>5 DEF Next, vars

\* A session can be read back wherever a process died, whatever was called at
\* once: the chain behind the pointer is stored, entered once each and follows
\* step by step, and without a death nothing is left in the way of the next
\* call (learning_orchestrator.rs).
THEOREM SessionsStandUp == Spec => []SessionSound
<1>1. Init => LearningInv
    BY LearningStarts
<1>2. LearningInv /\ [Next]_vars => LearningInv'
    BY LearningStep
<1>3. LearningInv => SessionSound
    BY SessionTells DEF LearningInv
<1> QED BY <1>1, <1>2, <1>3, PTL DEF Spec

\* An input that was handed over stays the canonical one of its session, and a
\* request has one event however often its recorder died, unless two were at
\* the ledger at once (learning_finalization.rs, representation_evidence.rs).
THEOREM HandoffsStand == Spec => []HandoffSound
<1>1. Init => LearningInv
    BY LearningStarts
<1>2. LearningInv /\ [Next]_vars => LearningInv'
    BY LearningStep
<1>3. LearningInv => HandoffSound
    BY HandoffTells DEF LearningInv
<1> QED BY <1>1, <1>2, <1>3, PTL DEF Spec

-----------------------------------------------------------------------------
(* Decisions that place a capability.                                        *)

LEMMA CandidateRanks ==
    /\ Residency!Rank("weights") = 1 /\ Residency!Rank("hybrid") = 2
    /\ Residency!Rank("software") = 3
BY DEF Residency!Rank, Residency!Candidates

LEMMA BestCandidate ==
    ASSUME NEW E \in SUBSET Residency!Classes, E # {}
    PROVE  \E c \in E : \A d \in E : Residency!Rank(c) <= Residency!Rank(d)
<1>1. CASE "weights" \in E
    BY <1>1, CandidateRanks DEF Residency!Classes
<1>2. CASE "weights" \notin E /\ "hybrid" \in E
    BY <1>2, CandidateRanks DEF Residency!Classes
<1>3. CASE "weights" \notin E /\ "hybrid" \notin E
  <2>1. \A c \in E : c = "software"
      BY <1>3 DEF Residency!Classes
  <2> QED BY <2>1, CandidateRanks
<1> QED BY <1>1, <1>2, <1>3

\* What an evaluation comes to, by what is known of the candidates.
EligibleBy(m) == {c \in Residency!Classes : Residency!Eligible(m, c)}
IncompleteBy(m) == {c \in Residency!Classes : Residency!Incomplete(m, c)}

LEMMA EvaluateTells ==
    ASSUME NEW m, NEW r, r = Residency!Evaluate(m)
    PROVE  /\ Residency!UnknownDimensions(m) # {} =>
                  r = <<"unknown", Residency!UnknownDimensions(m)>>
           /\ Residency!UnknownDimensions(m) = {} /\ EligibleBy(m) # {} =>
                  /\ r = <<r[1], {}>> /\ r[1] \in EligibleBy(m)
                  /\ \A d \in EligibleBy(m) : Residency!Rank(r[1]) <= Residency!Rank(d)
           /\ Residency!UnknownDimensions(m) = {} /\ EligibleBy(m) = {} =>
                  r = IF IncompleteBy(m) # {} THEN <<"unknown", IncompleteBy(m)>>
                      ELSE <<"blocked", {"no eligible candidate"}>>
<1> DEFINE E == EligibleBy(m)
           I == IncompleteBy(m)
<1>1. CASE Residency!UnknownDimensions(m) # {}
    BY <1>1 DEF Residency!Evaluate
<1>2. CASE Residency!UnknownDimensions(m) = {} /\ E # {}
  <2> DEFINE c == CHOOSE c \in E : \A d \in E : Residency!Rank(c) <= Residency!Rank(d)
  <2>1. r = <<c, {}>>
      BY <1>2 DEF Residency!Evaluate, EligibleBy
  <2>2. c \in E /\ \A d \in E : Residency!Rank(c) <= Residency!Rank(d)
    <3>1. E \in SUBSET Residency!Classes
        BY DEF EligibleBy
    <3> HIDE DEF E
    <3> QED BY <1>2, <3>1, BestCandidate
  <2> HIDE DEF c
  <2>3. r[1] = c /\ r = <<r[1], {}>>
      BY <2>1
  <2> QED BY <1>2, <2>2, <2>3
<1>3. CASE Residency!UnknownDimensions(m) = {} /\ E = {}
    BY <1>3 DEF Residency!Evaluate, EligibleBy, IncompleteBy
<1> QED BY <1>1, <1>2, <1>3

\* Where dimensions are all known, a floor is.
LEMMA FloorIs ==
    ASSUME NEW m, \A d \in Residency!Dimensions : m[d] \in {1, 2, 3}
    PROVE  /\ Residency!Floor(m) \in 1 .. 3
           /\ \A d \in Residency!Dimensions : m[d] <= Residency!Floor(m)
           /\ \E d \in Residency!Dimensions : m[d] = Residency!Floor(m)
<1> DEFINE P(r) == /\ \A d \in Residency!Dimensions : m[d] <= r
                   /\ \E d \in Residency!Dimensions : m[d] = r
<1>1. \E r \in 1 .. 3 : P(r)
  <2>1. <<"semantics", "effects">> \in Residency!Dimensions
      BY DEF Residency!Dimensions
  <2>2. CASE \E d \in Residency!Dimensions : m[d] = 3
    <3>1. P(3)
        BY <2>2
    <3> QED BY <3>1
  <2>3. CASE /\ \A d \in Residency!Dimensions : m[d] # 3
             /\ \E d \in Residency!Dimensions : m[d] = 2
    <3>1. P(2)
        BY <2>3
    <3> QED BY <3>1
  <2>4. CASE \A d \in Residency!Dimensions : m[d] # 3 /\ m[d] # 2
    <3>1. P(1)
        BY <2>1, <2>4
    <3> QED BY <3>1
  <2> QED BY <2>2, <2>3, <2>4
<1>2. Residency!Floor(m) \in 1 .. 3 /\ P(Residency!Floor(m))
  <2>1. Residency!Floor(m) = CHOOSE r \in 1 .. 3 : P(r)
      BY DEF Residency!Floor
  <2> QED BY <1>1, <2>1
<1> QED BY <1>2

\* A placement is made of facts that are all established.
LEMMA PlacementTells ==
    ASSUME NEW b, NEW s, NEW t, NEW r, r = Residency!Derive(b, s, t),
           r[1] \in Residency!Classes, contract \in Contracts
    PROVE  /\ Residency!Plan(s) = "complete"
           /\ \A f \in Residency!Dimensions \union {<<k, r[1]>> : k \in Residency!Kinds} :
                  s.claims[f] = "established"
           /\ contract[<<"target", r[1]>>].value = [target |-> t, compatible |-> TRUE]
           /\ \A f \in Residency!Dimensions : contract[f].value <= Residency!Rank(r[1])
<1> SUFFICES ASSUME NEW m, m = Residency!Matrix(s, t), NEW c, c = r[1]
             PROVE  /\ Residency!Plan(s) = "complete"
                    /\ \A f \in Residency!Dimensions \union {<<k, c>> : k \in Residency!Kinds} :
                           s.claims[f] = "established"
                    /\ contract[<<"target", c>>].value = [target |-> t, compatible |-> TRUE]
                    /\ \A f \in Residency!Dimensions :
                           contract[f].value <= Residency!Rank(c)
    OBVIOUS
<1>1. c \in Residency!Classes /\ c \notin {"unknown", "blocked"}
    BY DEF Residency!Classes
<1>2. /\ Bundles[b] = {} /\ Residency!Plan(s) = "complete"
      /\ Residency!MissingDimensions(m) = {} /\ r = Residency!Evaluate(m)
    BY <1>1 DEF Residency!Derive
<1>3. /\ Residency!UnknownDimensions(m) = {} /\ Residency!Eligible(m, c)
  <2>1. r = Residency!Evaluate(m)
      BY <1>2
  <2>2. Residency!UnknownDimensions(m) = {}
    <3>1. SUFFICES ASSUME Residency!UnknownDimensions(m) # {} PROVE FALSE
        OBVIOUS
    <3>2. r = <<"unknown", Residency!UnknownDimensions(m)>>
        BY <2>1, <3>1, EvaluateTells
    <3> QED BY <1>1, <3>2
  <2>3. EligibleBy(m) # {}
    <3>1. SUFFICES ASSUME EligibleBy(m) = {} PROVE FALSE
        OBVIOUS
    <3>2. \/ r = <<"unknown", IncompleteBy(m)>>
          \/ r = <<"blocked", {"no eligible candidate"}>>
        BY <2>1, <2>2, <3>1, EvaluateTells
    <3>3. r[1] \in {"unknown", "blocked"}
      <4>1. CASE r = <<"unknown", IncompleteBy(m)>>
          BY <4>1
      <4>2. CASE r = <<"blocked", {"no eligible candidate"}>>
        <5>1. PICK x : r = <<"blocked", x>>
            BY <4>2
        <5> QED BY <5>1
      <4> QED BY <3>2, <4>1, <4>2
    <3> QED BY <1>1, <3>3
  <2>4. c \in EligibleBy(m)
      BY <2>1, <2>2, <2>3, EvaluateTells
  <2> QED BY <2>2, <2>4 DEF EligibleBy
<1>4. /\ \A d \in Residency!Dimensions : m[d] # None /\ m[d] # Unknown
      /\ ~(Residency!Rank(c) < Residency!Floor(m))
      /\ None \notin Residency!EvidenceOn(m, c) /\ FALSE \notin Residency!EvidenceOn(m, c)
    BY <1>2, <1>3 DEF Residency!MissingDimensions, Residency!UnknownDimensions,
                      Residency!Eligible, Residency!Incomplete, Residency!Conclusive
<1>5. /\ \A d \in Residency!Dimensions : d \in Residency!Facts
      /\ \A k \in Residency!Kinds : <<k, c>> \in Residency!Facts
    BY <1>1 DEF Residency!Facts
<1>6. \A f \in Residency!Facts : m[f] = Residency!FactOf(s, f, t)
    BY DEF Residency!Matrix
<1>7. ASSUME NEW f \in Residency!Facts, m[f] # None
      PROVE  s.claims[f] = "established" /\ contract[f] # None
  <2>1. Residency!Gap(s, f) = "established"
      BY <1>6, <1>7 DEF Residency!FactOf
  <2> QED BY <2>1 DEF Residency!Gap
<1>8. ASSUME NEW d \in Residency!Dimensions
      PROVE  m[d] = contract[d].value /\ m[d] \in {1, 2, 3}
  <2>1. m[d] = Residency!DimensionValue(contract[d].value)
    <3>1. Residency!Gap(s, d) = "established"
        BY <1>4, <1>5, <1>6, <1>8 DEF Residency!FactOf
    <3> QED BY <1>5, <1>6, <1>8, <3>1 DEF Residency!FactOf
  <2> QED BY <1>4, <1>8, <2>1 DEF Residency!DimensionValue
<1>9. \A d \in Residency!Dimensions : m[d] <= Residency!Floor(m)
    BY <1>8, FloorIs
<1>10. Residency!Floor(m) \in 1 .. 3
    BY <1>8, FloorIs
<1>11. \A f \in Residency!Dimensions : contract[f].value <= Residency!Rank(c)
  <2>1. Residency!Rank(c) \in 1 .. 3
      BY <1>1, CandidateRanks DEF Residency!Classes
  <2> QED BY <1>4, <1>8, <1>9, <1>10, <2>1
<1>12. contract[<<"target", c>>].value = [target |-> t, compatible |-> TRUE]
  <2> DEFINE f == <<"target", c>>
             v == contract[f].value
  <2>1. f \in Residency!Facts /\ f \notin Residency!Dimensions /\ f[1] = "target"
      BY <1>5 DEF Residency!Kinds, Residency!Dimensions
  <2>2. m[f] \in Residency!EvidenceOn(m, c)
      BY DEF Residency!EvidenceOn, Residency!Kinds
  <2>3. m[f] # None /\ m[f] # FALSE
      BY <1>4, <2>2
  <2>4. contract[f] # None /\ Residency!Gap(s, f) = "established"
      BY <1>6, <1>7, <2>1, <2>3 DEF Residency!FactOf
  <2>5. m[f] = Residency!TargetValue(v, t)
      BY <1>6, <2>1, <2>4 DEF Residency!FactOf
  <2>6. v \in [target : Places, compatible : BOOLEAN]
      BY <1>1, <2>4, Instances DEF Residency!ResidencyAssumption
  <2>7. v.target = t /\ m[f] = v.compatible
      BY <2>3, <2>5 DEF Residency!TargetValue
  <2>8. v = [target |-> v.target, compatible |-> v.compatible] /\ v.compatible = TRUE
      BY <2>3, <2>6, <2>7
  <2> QED BY <2>7, <2>8
<1>13. ASSUME NEW f \in Residency!Dimensions \union {<<k, c>> : k \in Residency!Kinds}
       PROVE  s.claims[f] = "established"
  <2>1. f \in Residency!Facts /\ m[f] # None
    <3>1. CASE f \in Residency!Dimensions
        BY <1>4, <1>5, <3>1
    <3>2. CASE f \notin Residency!Dimensions
      <4>1. PICK k \in Residency!Kinds : f = <<k, c>>
          BY <1>13, <3>2
      <4>2. m[f] \in Residency!EvidenceOn(m, c)
          BY <4>1 DEF Residency!EvidenceOn
      <4> QED BY <1>4, <1>5, <4>1, <4>2
    <3> QED BY <3>1, <3>2
  <2> QED BY <1>7, <2>1
<1> QED BY <1>2, <1>11, <1>12, <1>13

LEMMA DeriveTyped ==
    ASSUME NEW b, NEW s, NEW t
    PROVE  Residency!Derive(b, s, t)[1] \in Residency!Outcomes
<1>1. \A m : Residency!Evaluate(m)[1] \in Residency!Outcomes
  <2> TAKE m
  <2> SUFFICES ASSUME NEW r, r = Residency!Evaluate(m) PROVE r[1] \in Residency!Outcomes
      OBVIOUS
  <2>1. CASE Residency!UnknownDimensions(m) # {}
    <3>1. r = <<"unknown", Residency!UnknownDimensions(m)>>
        BY <2>1, EvaluateTells
    <3> QED BY <3>1 DEF Residency!Outcomes
  <2>2. CASE Residency!UnknownDimensions(m) = {} /\ EligibleBy(m) # {}
    <3>1. r[1] \in EligibleBy(m)
        BY <2>2, EvaluateTells
    <3> QED BY <3>1 DEF EligibleBy, Residency!Outcomes, Residency!Classes
  <2>3. CASE Residency!UnknownDimensions(m) = {} /\ EligibleBy(m) = {}
    <3>1. \/ r = <<"unknown", IncompleteBy(m)>>
          \/ r = <<"blocked", {"no eligible candidate"}>>
        BY <2>3, EvaluateTells
    <3>2. CASE r = <<"unknown", IncompleteBy(m)>>
        BY <3>2 DEF Residency!Outcomes
    <3>3. CASE r = <<"blocked", {"no eligible candidate"}>>
      <4>1. PICK x : r = <<"blocked", x>>
          BY <3>3
      <4> QED BY <4>1 DEF Residency!Outcomes
    <3> QED BY <3>1, <3>2, <3>3
  <2> QED BY <2>1, <2>2, <2>3
<1> SUFFICES ASSUME NEW m, m = Residency!Matrix(s, t)
             PROVE  Residency!Derive(b, s, t)[1] \in Residency!Outcomes
    OBVIOUS
<1>2. CASE Bundles[b] # {}
  <2>1. Residency!Derive(b, s, t) = <<"blocked", Bundles[b]>>
      BY <1>2 DEF Residency!Derive
  <2> QED BY <2>1 DEF Residency!Outcomes
<1>3. CASE Bundles[b] = {} /\ Residency!Plan(s) # "complete"
  <2>1. \/ Residency!Derive(b, s, t) = <<"unknown", {"knowledge"}>>
        \/ Residency!Derive(b, s, t) = <<"blocked", {Residency!Plan(s)}>>
      BY <1>3 DEF Residency!Derive
  <2> QED BY <2>1 DEF Residency!Outcomes
<1>4. CASE Bundles[b] = {} /\ Residency!Plan(s) = "complete"
  <2>1. \/ Residency!Derive(b, s, t) = <<"blocked", Residency!MissingDimensions(m)>>
        \/ Residency!Derive(b, s, t) = Residency!Evaluate(m)
      BY <1>4 DEF Residency!Derive
  <2> QED BY <1>1, <2>1 DEF Residency!Outcomes
<1> QED BY <1>2, <1>3, <1>4

\* A decision depends on the contract and on what it is made of, on nothing else.
LEMMA DecidedStays ==
    ASSUME contract' = contract, NEW p
    PROVE  Residency!Decided(p)' = Residency!Decided(p)
<1>1. \A s, f : Residency!Gap(s, f)' = Residency!Gap(s, f)
    BY DEF Residency!Gap
<1>2. \A s, f, t : Residency!FactOf(s, f, t)' = Residency!FactOf(s, f, t)
    BY <1>1 DEF Residency!FactOf
<1>3. \A s, t : Residency!Matrix(s, t)' = Residency!Matrix(s, t)
    BY <1>2 DEF Residency!Matrix
<1>4. \A s : Residency!Plan(s)' = Residency!Plan(s)
    BY DEF Residency!Plan
<1>5. \A b, s, t : Residency!Derive(b, s, t)' = Residency!Derive(b, s, t)
    BY <1>3, <1>4 DEF Residency!Derive
<1> QED BY <1>5 DEF Residency!Decided

\* The receipts that said something of the claims so far.
Settling(s) == {D \in Deciding : \E f \in D : f \in Residency!Facts /\ s.claims[f] # "unresolved"}

HeadInv ==
    /\ contract \in Contracts
    /\ head \in [revision : Nat, exhausted : BOOLEAN,
                 claims : [Residency!Facts -> {"unresolved", "established", "contradicted"}]]
    /\ head.revision <= Cardinality(Settling(head)) + (IF head.exhausted THEN 1 ELSE 0)

LEMMA SettlingIs ==
    ASSUME NEW s
    PROVE  IsFiniteSet(Settling(s)) /\ Cardinality(Settling(s)) \in Nat
<1>1. IsFiniteSet(Deciding)
    BY Instances DEF Residency!ResidencyAssumption, Residency!IsFiniteSet, IsFiniteSet
<1>2. Settling(s) \in SUBSET Deciding
    BY DEF Settling
<1>3. IsFiniteSet(Settling(s))
    BY <1>1, <1>2, FS_Subset
<1> QED BY <1>3, FS_CardinalityType

\* A record is what its precommit is decided to be, and a placement is made on
\* the last state.
DecisionIs(d) ==
    /\ d = Residency!Decided(d.precommit)
    /\ d.precommit.state.revision \in Nat
    /\ d.precommit.state.revision <= head.revision
    /\ d.decision[1] \in Residency!Classes => d.precommit.state = head

ResidencyInv == HeadInv /\ kept \subseteq made /\ \A d \in made : DecisionIs(d)

LEMMA CountsAgree == \A S : Residency!Cardinality(S) = Cardinality(S)
BY DEF Residency!Cardinality, Cardinality

LEMMA ResidencyStarts == Residency!ResidencyInit => ResidencyInv
<1> SUFFICES ASSUME Residency!ResidencyInit PROVE ResidencyInv
    OBVIOUS
<1>1. /\ contract \in Contracts /\ made = {} /\ kept = {}
      /\ head = [revision |-> 0, claims |-> Residency!Unresolved, exhausted |-> FALSE]
    BY DEF Residency!ResidencyInit
<1>2. Residency!Unresolved \in
          [Residency!Facts -> {"unresolved", "established", "contradicted"}]
    BY DEF Residency!Unresolved
<1>3. Cardinality(Settling(head)) \in Nat
    BY SettlingIs
<1>4. HeadInv
    BY <1>1, <1>2, <1>3 DEF HeadInv
<1> QED BY <1>1, <1>4 DEF ResidencyInv

LEMMA LearnKeeps ==
    ASSUME HeadInv, NEW D \in Deciding, NEW outcome \in {"established", "contradicted"},
           Residency!Learn(D, outcome)
    PROVE  HeadInv' /\ head.revision <= head'.revision
<1> DEFINE claims == [f \in Residency!Facts |-> IF f \in D /\ contract[f] # None
                                                THEN outcome ELSE head.claims[f]]
<1>1. /\ \A f \in D : head.claims[f] = "unresolved"
      /\ Residency!Plan(head) = "invoke" /\ contract' = contract
      /\ head' = [revision |-> head.revision + 1, exhausted |-> head.exhausted,
                  claims |-> claims]
    BY DEF Residency!Learn
<1>2. /\ head.revision \in Nat /\ head.exhausted \in BOOLEAN
      /\ head.claims \in [Residency!Facts -> {"unresolved", "established", "contradicted"}]
      /\ head \in [revision : Nat, exhausted : BOOLEAN,
                   claims : [Residency!Facts -> {"unresolved", "established", "contradicted"}]]
    BY DEF HeadInv
<1>3. claims \in [Residency!Facts -> {"unresolved", "established", "contradicted"}]
    BY <1>2
<1>4. /\ head'.revision = head.revision + 1 /\ head'.exhausted = head.exhausted
      /\ head'.claims = claims
      /\ head' \in [revision : Nat, exhausted : BOOLEAN,
                    claims : [Residency!Facts -> {"unresolved", "established", "contradicted"}]]
  <2> HIDE DEF claims
  <2> QED BY <1>1, <1>2, <1>3
<1>5. Settling(head) \subseteq Settling(head')
    BY <1>1, <1>4 DEF Settling
<1>6. D \in Settling(head') /\ D \notin Settling(head)
  <2>1. PICK f \in D : f \in Residency!Facts /\ contract[f] # None
      BY Instances DEF HeadInv, Residency!ResidencyAssumption
  <2>2. head'.claims[f] = outcome
      BY <1>4, <2>1
  <2> QED BY <1>1, <2>1, <2>2 DEF Settling
<1>7. /\ Cardinality(Settling(head')) >= Cardinality(Settling(head)) + 1
      /\ Cardinality(Settling(head)) \in Nat
  <2>2. IsFiniteSet(Settling(head'))
      BY SettlingIs
  <2> DEFINE S == Settling(head)
             T == Settling(head')
  <2>3. S \subseteq T /\ D \in T /\ D \notin S /\ IsFiniteSet(T)
      BY <1>5, <1>6, <2>2
  <2> HIDE DEF S, T
  <2>4. IsFiniteSet(S) /\ Cardinality(S) <= Cardinality(T) /\ Cardinality(S) # Cardinality(T)
      BY <2>3, FS_Subset
  <2>5. Cardinality(S) \in Nat /\ Cardinality(T) \in Nat
      BY <2>3, <2>4, FS_CardinalityType
  <2>6. Cardinality(T) >= Cardinality(S) + 1
      BY <2>4, <2>5
  <2> QED BY <2>5, <2>6 DEF S, T
<1>8. Cardinality(Settling(head')) \in Nat
    BY SettlingIs
<1>9. Settling(head)' = Settling(head')
    BY DEF Settling
<1> QED BY <1>1, <1>2, <1>4, <1>7, <1>8, <1>9 DEF HeadInv

\* Once the plan is complete the inquiry has ended.
LEMMA ResidencyStep ==
    ASSUME ResidencyInv, Residency!ResidencyNext
    PROVE  ResidencyInv'
<1>1. HeadInv /\ kept \subseteq made /\ \A d \in made : DecisionIs(d)
    BY DEF ResidencyInv
<1>2. contract' = contract
    BY DEF Residency!ResidencyNext, Residency!Decide, Residency!PersistDecision,
           Residency!Learn, Residency!Exhaust
<1>3. \A p : Residency!Decided(p)' = Residency!Decided(p)
    BY <1>2, DecidedStays
<1>4. ASSUME NEW p \in Residency!Precommits, Residency!Decide(p) PROVE ResidencyInv'
  <2>1. /\ head' = head /\ kept' = kept /\ made' = made \union {Residency!Decided(p)}
        /\ p.state = head
      BY <1>4 DEF Residency!Decide, Residency!IsCurrent
  <2>2. HeadInv'
      BY <1>1, <1>2, <2>1 DEF HeadInv, Settling
  <2>3. ASSUME NEW d \in made' PROVE DecisionIs(d)'
    <3>1. CASE d \in made
        BY <1>1, <1>3, <2>1, <3>1 DEF DecisionIs
    <3>2. CASE d \notin made
      <4>1. d = Residency!Decided(p) /\ d.precommit = p
          BY <2>1, <2>3, <3>2 DEF Residency!Decided
      <4>2. /\ d.precommit.state.revision \in Nat
            /\ d.precommit.state.revision <= head.revision
          BY <1>1, <2>1, <4>1 DEF HeadInv
      <4> QED BY <1>3, <2>1, <4>1, <4>2 DEF DecisionIs
    <3> QED BY <3>1, <3>2
  <2> QED BY <1>1, <2>1, <2>2, <2>3 DEF ResidencyInv
<1>5. ASSUME NEW d \in made, Residency!PersistDecision(d) PROVE ResidencyInv'
  <2>1. head' = head /\ made' = made /\ kept' = kept \union {d}
      BY <1>5 DEF Residency!PersistDecision
  <2>2. HeadInv'
      BY <1>1, <1>2, <2>1 DEF HeadInv, Settling
  <2>3. \A e \in made : DecisionIs(e)'
      BY <1>1, <1>3, <2>1 DEF DecisionIs
  <2> QED BY <1>1, <2>1, <2>2, <2>3 DEF ResidencyInv
<1>6. ASSUME made' = made, kept' = kept, HeadInv', Residency!Plan(head) = "invoke",
             head.revision <= head'.revision
      PROVE  ResidencyInv'
  <2>1. ASSUME NEW d \in made PROVE DecisionIs(d)'
    <3>1. DecisionIs(d)
        BY <1>1
    <3>2. d.decision[1] \notin Residency!Classes
      <4>1. SUFFICES ASSUME d.decision[1] \in Residency!Classes PROVE FALSE
          OBVIOUS
      <4>2. d.precommit.state = head /\ d = Residency!Decided(d.precommit)
          BY <3>1, <4>1 DEF DecisionIs
      <4>3. d.decision = Residency!Derive(d.precommit.bundle, head, d.precommit.target)
          BY <4>2 DEF Residency!Decided
      <4>4. contract \in Contracts
          BY <1>1 DEF HeadInv
      <4> DEFINE r == d.decision
      <4> HIDE DEF r
      <4>5. r = Residency!Derive(d.precommit.bundle, head, d.precommit.target)
            /\ r[1] \in Residency!Classes
          BY <4>1, <4>3 DEF r
      <4>6. Residency!Plan(head) = "complete"
          BY <4>4, <4>5, PlacementTells
      <4> QED BY <1>6, <4>6
    <3>3. d.precommit.state.revision <= head'.revision
      <4>1. head.revision \in Nat /\ head'.revision \in Nat
          BY <1>1, <1>6 DEF HeadInv
      <4> QED BY <1>6, <3>1, <4>1 DEF DecisionIs
    <3> QED BY <1>3, <3>1, <3>2, <3>3 DEF DecisionIs
  <2> QED BY <1>1, <1>6, <2>1 DEF ResidencyInv
<1>7. ASSUME NEW D \in Deciding, NEW outcome \in {"established", "contradicted"},
             Residency!Learn(D, outcome)
      PROVE  ResidencyInv'
  <2>1. HeadInv' /\ head.revision <= head'.revision
      BY <1>1, <1>7, LearnKeeps
  <2>2. made' = made /\ kept' = kept /\ Residency!Plan(head) = "invoke"
      BY <1>7 DEF Residency!Learn
  <2> QED BY <1>6, <2>1, <2>2
<1>8. CASE Residency!Exhaust
  <2>1. /\ made' = made /\ kept' = kept /\ Residency!Plan(head) = "invoke"
        /\ head' = [revision |-> head.revision + 1, exhausted |-> TRUE,
                    claims |-> head.claims]
      BY <1>8 DEF Residency!Exhaust
  <2>2. ~head.exhausted
      BY <2>1 DEF Residency!Plan
  <2>3. Settling(head)' = Settling(head) /\ Cardinality(Settling(head)) \in Nat
      BY <2>1, SettlingIs DEF Settling
  <2>4. HeadInv' /\ head.revision <= head'.revision
      BY <1>1, <1>2, <2>1, <2>2, <2>3 DEF HeadInv
  <2> QED BY <1>6, <2>1, <2>4
<1> QED BY <1>4, <1>5, <1>7, <1>8 DEF Residency!ResidencyNext

LEMMA ResidencyStays ==
    ASSUME ResidencyInv, UNCHANGED <<contract, head, made, kept>>
    PROVE  ResidencyInv'
<1>1. \A p : Residency!Decided(p)' = Residency!Decided(p)
    BY DecidedStays
<1> QED BY <1>1 DEF ResidencyInv, HeadInv, DecisionIs, Settling

LEMMA ResidencyTells ==
    ResidencyInv => Residency!ResidencyTypeOK /\ Residency!PlacementsStand
<1> SUFFICES ASSUME ResidencyInv
             PROVE  Residency!ResidencyTypeOK /\ Residency!PlacementsStand
    OBVIOUS
<1>1. HeadInv /\ kept \subseteq made /\ \A d \in made : DecisionIs(d)
    BY DEF ResidencyInv
<1>2. Residency!ResidencyTypeOK
  <2>1. head.revision \in 0 .. Residency!Cardinality(Deciding) + 1
    <3>1. /\ Settling(head) \in SUBSET Deciding
          /\ Cardinality(Settling(head)) \in Nat
        BY SettlingIs DEF Settling
    <3>2. IsFiniteSet(Deciding)
        BY Instances DEF Residency!ResidencyAssumption, Residency!IsFiniteSet, IsFiniteSet
    <3>3. /\ Cardinality(Settling(head)) <= Cardinality(Deciding)
          /\ Cardinality(Deciding) \in Nat
        BY <3>1, <3>2, FS_Subset, FS_CardinalityType
    <3>4. /\ head.revision \in Nat /\ head.exhausted \in BOOLEAN
          /\ head.revision <= Cardinality(Settling(head)) + (IF head.exhausted THEN 1 ELSE 0)
        BY <1>1 DEF HeadInv
    <3>5. head.revision <= Cardinality(Deciding) + 1
        BY <3>1, <3>3, <3>4
    <3> QED BY <3>3, <3>4, <3>5, CountsAgree
  <2>2. ASSUME NEW d \in made \union kept
        PROVE  /\ d.precommit.state.revision <= head.revision
               /\ d.decision[1] \in Residency!Outcomes
    <3>1. DecisionIs(d)
        BY <1>1
    <3>2. d.decision = Residency!Derive(d.precommit.bundle, d.precommit.state,
                                        d.precommit.target)
      <4>1. d = Residency!Decided(d.precommit)
          BY <3>1 DEF DecisionIs
      <4> QED BY <4>1 DEF Residency!Decided
    <3> QED BY <3>1, <3>2, DeriveTyped DEF DecisionIs
  <2> QED BY <1>1, <2>1, <2>2 DEF Residency!ResidencyTypeOK
<1>3. Residency!PlacementsStand
  <2> SUFFICES ASSUME NEW d \in kept, d.decision[1] \in Residency!Classes
               PROVE  /\ Residency!Authentic(d, d.precommit.round)
                      /\ Residency!Plan(head) = "complete"
                      /\ \A f \in Residency!Dimensions
                                  \union {<<k, d.decision[1]>> : k \in Residency!Kinds} :
                             head.claims[f] = "established"
                      /\ contract[<<"target", d.decision[1]>>].value =
                             [target |-> d.precommit.target, compatible |-> TRUE]
                      /\ \A f \in Residency!Dimensions :
                             contract[f].value <= Residency!Rank(d.decision[1])
      BY DEF Residency!PlacementsStand
  <2>1. d = Residency!Decided(d.precommit) /\ d.precommit.state = head
      BY <1>1 DEF DecisionIs
  <2>2. d.decision = Residency!Derive(d.precommit.bundle, head, d.precommit.target)
      BY <2>1 DEF Residency!Decided
  <2>3. Residency!Authentic(d, d.precommit.round)
      BY <2>1 DEF Residency!Authentic, Residency!IsCurrent
  <2> DEFINE r == d.decision
  <2> HIDE DEF r
  <2>4. contract \in Contracts
      BY <1>1 DEF HeadInv
  <2> QED BY <2>2, <2>3, <2>4, PlacementTells
<1> QED BY <1>2, <1>3

\* A decision that places a capability can be authenticated ever after: it was
\* made on the last state of its inquiry, on facts that are established there,
\* about its own target and not below the floor (residency_decision.rs).
THEOREM PlacementsStandUp == Spec => []PlacementsStand
<1> DEFINE I == part = "residency" => ResidencyInv
<1>1. Init => I
    BY ResidencyStarts DEF Init
<1>2. I /\ [Next]_vars => I'
  <2> SUFFICES ASSUME I, [Next]_vars, part' = "residency" PROVE ResidencyInv'
      OBVIOUS
  <2>1. part' = part
      BY DEF Next, vars
  <2>2. ResidencyInv
      BY <2>1
  <2>3. CASE Residency!ResidencyNext
      BY <2>2, <2>3, ResidencyStep
  <2>4. CASE UNCHANGED <<contract, head, made, kept>>
      BY <2>2, <2>4, ResidencyStays
  <2> QED BY <2>1, <2>3, <2>4 DEF Next, vars, outsiders, deciding
<1>3. I => PlacementsStand
    BY ResidencyTells DEF PlacementsStand
<1> HIDE DEF I
<1> QED BY <1>1, <1>2, <1>3, PTL DEF Spec

-----------------------------------------------------------------------------
(* More evidence.                                                            *)

\* What an evaluation is worth, by what is eligible and incomplete.
LEMMA OrderIs ==
    ASSUME NEW m, NEW r, r = Residency!Evaluate(m), Residency!UnknownDimensions(m) = {}
    PROVE  /\ EligibleBy(m) # {} =>
                  /\ r = <<r[1], {}>> /\ r[1] \in EligibleBy(m)
                  /\ \A d \in EligibleBy(m) : Residency!Rank(r[1]) <= Residency!Rank(d)
                  /\ Residency!Order(r) = Residency!Rank(r[1])
                  /\ Residency!Order(r) \in 1 .. 3
           /\ EligibleBy(m) = {} /\ IncompleteBy(m) # {} =>
                  r[1] = "unknown" /\ Residency!Order(r) = 4
           /\ EligibleBy(m) = {} /\ IncompleteBy(m) = {} =>
                  r = <<"blocked", {"no eligible candidate"}>> /\ Residency!Order(r) = 5
<1>1. CASE EligibleBy(m) # {}
  <2>1. /\ r = <<r[1], {}>> /\ r[1] \in EligibleBy(m)
        /\ \A d \in EligibleBy(m) : Residency!Rank(r[1]) <= Residency!Rank(d)
      BY <1>1, EvaluateTells
  <2>2. r[1] \in Residency!Classes
      BY <2>1 DEF EligibleBy
  <2>3. Residency!Order(r) = Residency!Rank(r[1]) /\ Residency!Rank(r[1]) \in 1 .. 3
      BY <2>2, CandidateRanks DEF Residency!Order, Residency!Classes
  <2> QED BY <1>1, <2>1, <2>3
<1>2. CASE EligibleBy(m) = {} /\ IncompleteBy(m) # {}
  <2>1. r = <<"unknown", IncompleteBy(m)>>
      BY <1>2, EvaluateTells
  <2>2. r[1] = "unknown"
      BY <2>1
  <2>3. Residency!Order(r) = 4
      BY <2>2 DEF Residency!Order, Residency!Classes
  <2> QED BY <1>2, <2>2, <2>3
<1>3. CASE EligibleBy(m) = {} /\ IncompleteBy(m) = {}
  <2>1. r = <<"blocked", {"no eligible candidate"}>>
      BY <1>3, EvaluateTells
  <2>2. PICK x : r = <<"blocked", x>>
      BY <2>1
  <2>3. r[1] = "blocked"
      BY <2>2
  <2>4. Residency!Order(r) = 5
      BY <2>3 DEF Residency!Order, Residency!Classes
  <2> QED BY <1>3, <2>1, <2>4
<1> QED BY <1>1, <1>2, <1>3

LEMMA RanksDiffer ==
    ASSUME NEW c \in Residency!Classes, NEW d \in Residency!Classes,
           Residency!Rank(c) = Residency!Rank(d)
    PROVE  c = d
BY CandidateRanks DEF Residency!Classes

\* One more piece of evidence on a candidate.
Adds(m, n, k, c, value) ==
    /\ m[<<k, c>>] = None
    /\ \A d \in Residency!Dimensions : n[d] = m[d]
    /\ \A j \in Residency!Kinds, x \in Residency!Classes :
           n[<<j, x>>] = IF j = k /\ x = c THEN value ELSE m[<<j, x>>]

MatrixTyped(m) ==
    /\ \A d \in Residency!Dimensions : m[d] \in {1, 2, 3, Unknown}
    /\ \A k \in Residency!Kinds, c \in Residency!Classes : m[<<k, c>>] \in {None, TRUE, FALSE}

LEMMA EvidenceIs ==
    ASSUME NEW m, NEW x
    PROVE  Residency!EvidenceOn(m, x) = {m[<<"representability", x>>], m[<<"target", x>>]}
BY DEF Residency!EvidenceOn, Residency!Kinds

\* What it says of the candidates: the others stand where they stood.
Narrows(m, n, c, value) ==
    /\ \A x \in Residency!Classes \ {c} :
           /\ Residency!Eligible(n, x) <=> Residency!Eligible(m, x)
           /\ Residency!Incomplete(n, x) <=> Residency!Incomplete(m, x)
    /\ ~Residency!Eligible(m, c)
    /\ value = TRUE => (Residency!Incomplete(m, c) =>
                            Residency!Eligible(n, c) \/ Residency!Incomplete(n, c))
    /\ value = FALSE => ~Residency!Eligible(n, c)
    /\ ~Residency!Incomplete(m, c) =>
           ~Residency!Eligible(n, c) /\ ~Residency!Incomplete(n, c)

LEMMA AddsTells ==
    ASSUME NEW m, NEW n, NEW k \in Residency!Kinds, NEW c \in Residency!Classes,
           NEW value, value \in {TRUE, FALSE}, MatrixTyped(m), Adds(m, n, k, c, value),
           Residency!UnknownDimensions(m) = {}
    PROVE  Narrows(m, n, c, value)
<1>1. /\ \A d \in Residency!Dimensions : m[d] \in {1, 2, 3} /\ n[d] = m[d]
    BY DEF MatrixTyped, Adds, Residency!UnknownDimensions
<1>2. Residency!Floor(n) = Residency!Floor(m)
  <2>1. /\ Residency!Floor(m) \in 1 .. 3
        /\ \A d \in Residency!Dimensions : m[d] <= Residency!Floor(m)
        /\ \E d \in Residency!Dimensions : m[d] = Residency!Floor(m)
      BY <1>1, FloorIs
  <2>2. /\ Residency!Floor(n) \in 1 .. 3
        /\ \A d \in Residency!Dimensions : n[d] <= Residency!Floor(n)
        /\ \E d \in Residency!Dimensions : n[d] = Residency!Floor(n)
      BY <1>1, FloorIs
  <2>3. Residency!Floor(m) <= Residency!Floor(n) /\ Residency!Floor(n) <= Residency!Floor(m)
      BY <1>1, <2>1, <2>2
  <2> QED BY <2>1, <2>2, <2>3
<1>3. ASSUME NEW x \in Residency!Classes \ {c}
      PROVE  Residency!EvidenceOn(n, x) = Residency!EvidenceOn(m, x)
    BY <1>3 DEF Adds, Residency!EvidenceOn
<1>4. /\ None \in Residency!EvidenceOn(m, c)
      /\ value \in Residency!EvidenceOn(n, c)
      /\ FALSE \in Residency!EvidenceOn(m, c) => FALSE \in Residency!EvidenceOn(n, c)
      /\ value = TRUE /\ FALSE \in Residency!EvidenceOn(n, c) =>
             FALSE \in Residency!EvidenceOn(m, c)
  <2>1. None # FALSE
      BY Instances DEF Residency!ResidencyAssumption
  <2> QED BY <2>1 DEF Adds, Residency!EvidenceOn
<1>5. \A x \in Residency!Classes \ {c} :
          /\ Residency!Eligible(n, x) <=> Residency!Eligible(m, x)
          /\ Residency!Incomplete(n, x) <=> Residency!Incomplete(m, x)
    BY <1>2, <1>3 DEF Residency!Eligible, Residency!Incomplete, Residency!Conclusive
<1>6. value = TRUE \/ value = FALSE
    OBVIOUS
<1>7. /\ ~Residency!Eligible(m, c)
      /\ value = TRUE => (Residency!Incomplete(m, c) =>
                              Residency!Eligible(n, c) \/ Residency!Incomplete(n, c))
      /\ value = FALSE => ~Residency!Eligible(n, c)
      /\ ~Residency!Incomplete(m, c) =>
             ~Residency!Eligible(n, c) /\ ~Residency!Incomplete(n, c)
    BY <1>2, <1>4, <1>6 DEF Residency!Eligible, Residency!Incomplete, Residency!Conclusive
<1> QED BY <1>5, <1>7 DEF Narrows

MovesOn(before, after, value) ==
    /\ value = TRUE => Residency!Order(after) <= Residency!Order(before)
    /\ value = FALSE /\ before[1] \in Residency!Classes => after = before
    /\ before[1] = "blocked" => after = before

\* What speaks for a candidate moves the decision to no later one, what speaks
\* against one withdraws no placement, and what is blocked stays so.
LEMMA MoreEvidence ==
    ASSUME NEW m, NEW n, NEW k \in Residency!Kinds, NEW c \in Residency!Classes,
           NEW value, value \in {TRUE, FALSE}, MatrixTyped(m), Adds(m, n, k, c, value),
           NEW before, before = Residency!Evaluate(m),
           NEW after, after = Residency!Evaluate(n)
    PROVE  MovesOn(before, after, value)
<1>1. Residency!UnknownDimensions(n) = Residency!UnknownDimensions(m)
    BY DEF Adds, Residency!UnknownDimensions
<1>2. CASE Residency!UnknownDimensions(m) # {}
  <2>1. before = <<"unknown", Residency!UnknownDimensions(m)>>
      BY <1>2, EvaluateTells
  <2>4. after = <<"unknown", Residency!UnknownDimensions(n)>>
      BY <1>1, <1>2, EvaluateTells
  <2>2. before[1] = "unknown"
      BY <2>1
  <2>3. Residency!Order(before) = 4
      BY <2>2 DEF Residency!Order, Residency!Classes
  <2>5. after = before
      BY <1>1, <2>1, <2>4
  <2> QED BY <2>3, <2>5 DEF MovesOn
<1>3. CASE Residency!UnknownDimensions(m) = {}
  <2>1. Narrows(m, n, c, value)
      BY <1>3, AddsTells
  <2>2. EligibleBy(m) \subseteq EligibleBy(n)
      BY <2>1 DEF EligibleBy, Narrows
  <2>3. /\ value = FALSE => EligibleBy(n) = EligibleBy(m)
        /\ value = TRUE /\ EligibleBy(n) = {} /\ IncompleteBy(m) # {} => IncompleteBy(n) # {}
        /\ EligibleBy(m) = {} /\ IncompleteBy(m) = {} =>
               EligibleBy(n) = {} /\ IncompleteBy(n) = {}
      BY <2>1 DEF EligibleBy, IncompleteBy, Narrows
  <2>4. CASE EligibleBy(m) # {}
    <3>1. /\ before = <<before[1], {}>> /\ before[1] \in EligibleBy(m)
          /\ \A d \in EligibleBy(m) : Residency!Rank(before[1]) <= Residency!Rank(d)
          /\ Residency!Order(before) = Residency!Rank(before[1])
          /\ Residency!Order(before) \in 1 .. 3
        BY <1>3, <2>4, OrderIs
    <3>2. /\ after = <<after[1], {}>> /\ after[1] \in EligibleBy(n)
          /\ \A d \in EligibleBy(n) : Residency!Rank(after[1]) <= Residency!Rank(d)
          /\ Residency!Order(after) = Residency!Rank(after[1])
          /\ Residency!Order(after) \in 1 .. 3
        BY <1>1, <1>3, <2>2, <2>4, OrderIs
    <3>3. Residency!Order(after) <= Residency!Order(before)
        BY <2>2, <3>1, <3>2
    <3>4. before[1] \in Residency!Classes /\ before[1] # "blocked"
        BY <3>1 DEF EligibleBy, Residency!Classes
    <3>5. ASSUME value = FALSE PROVE after = before
      <4>1. Residency!Rank(before[1]) <= Residency!Rank(after[1])
          BY <2>3, <3>1, <3>2, <3>5
      <4>2. after[1] \in Residency!Classes
          BY <3>2 DEF EligibleBy
      <4>3. after[1] = before[1]
          BY <3>1, <3>2, <3>3, <3>4, <4>1, <4>2, RanksDiffer
      <4> QED BY <3>1, <3>2, <4>3
    <3> QED BY <3>3, <3>4, <3>5 DEF MovesOn
  <2>5. CASE EligibleBy(m) = {} /\ IncompleteBy(m) # {}
    <3>1. before[1] = "unknown" /\ Residency!Order(before) = 4
        BY <1>3, <2>5, OrderIs
    <3>2. ASSUME value = TRUE PROVE Residency!Order(after) <= 4
      <4>1. CASE EligibleBy(n) # {}
        <5>1. Residency!Order(after) \in 1 .. 3
            BY <1>1, <1>3, <4>1, OrderIs
        <5> QED BY <5>1
      <4>2. CASE EligibleBy(n) = {}
        <5>1. IncompleteBy(n) # {}
            BY <2>3, <2>5, <3>2, <4>2
        <5>2. Residency!UnknownDimensions(n) = {}
            BY <1>1, <1>3
        <5>3. Residency!Order(after) = 4
            BY <4>2, <5>1, <5>2, OrderIs
        <5> QED BY <5>3
      <4> QED BY <4>1, <4>2
    <3> QED BY <3>1, <3>2 DEF MovesOn, Residency!Classes
  <2>6. CASE EligibleBy(m) = {} /\ IncompleteBy(m) = {}
    <3>1. /\ before = <<"blocked", {"no eligible candidate"}>>
          /\ Residency!Order(before) = 5
        BY <1>3, <2>6, OrderIs
    <3>2. EligibleBy(n) = {} /\ IncompleteBy(n) = {}
        BY <2>3, <2>6
    <3>3. after = <<"blocked", {"no eligible candidate"}>>
        BY <1>1, <1>3, <3>2, OrderIs
    <3>4. after = before
        BY <3>1, <3>3
    <3>5. Residency!Order(before) = 5
        BY <1>3, <2>6, OrderIs
    <3>6. Residency!Order(after) = 5
        BY <1>1, <1>3, <3>2, OrderIs
    <3>7. Residency!Order(after) <= Residency!Order(before)
        BY <3>5, <3>6
    <3> QED BY <3>4, <3>7 DEF MovesOn
  <2> QED BY <2>4, <2>5, <2>6
<1> QED BY <1>2, <1>3

MatrixInv ==
    /\ facts = [f \in Residency!Facts |-> facts[f]]
    /\ MatrixTyped(facts)

LEMMA MatrixStarts == Residency!MatrixInit => MatrixInv
<1> SUFFICES ASSUME Residency!MatrixInit PROVE MatrixInv
    OBVIOUS
<1>1. PICK x \in {1, 2, 3, Unknown}, y \in {1, 2, 3, Unknown} :
          facts = [f \in Residency!Facts |->
                      CASE f[2] = "effects" -> x
                        [] f[2] = "observability" -> y
                        [] f[2] \in {"requirements", "external_state"} -> 1
                        [] OTHER -> None]
    BY DEF Residency!MatrixInit
<1>2. MatrixTyped(facts)
    BY <1>1 DEF MatrixTyped, Residency!Facts, Residency!Dimensions, Residency!Kinds,
                Residency!Classes
<1> QED BY <1>1, <1>2 DEF MatrixInv

LEMMA MatrixStep ==
    ASSUME MatrixInv, Residency!MatrixNext
    PROVE  MatrixInv' /\ Residency!EvidenceMovesForward
<1>1. PICK k \in Residency!Kinds, c \in Residency!Classes, value \in BOOLEAN :
          Residency!Fill(<<k, c>>, value)
    BY DEF Residency!MatrixNext
<1>2. /\ facts[<<k, c>>] = None
      /\ facts' = [facts EXCEPT ![<<k, c>>] = value]
    BY <1>1 DEF Residency!Fill
<1>3. <<k, c>> \in Residency!Facts /\ <<k, c>> \notin Residency!Dimensions
    BY DEF Residency!Facts, Residency!Dimensions, Residency!Kinds
<1>4. \A f \in Residency!Facts :
          facts'[f] = IF f = <<k, c>> THEN value ELSE facts[f]
    BY <1>2, <1>3 DEF MatrixInv
<1>5. Adds(facts, facts', k, c, value)
  <2>1. \A d \in Residency!Dimensions : facts'[d] = facts[d]
      BY <1>3, <1>4 DEF Residency!Facts
  <2>2. \A j \in Residency!Kinds, x \in Residency!Classes :
            facts'[<<j, x>>] = IF j = k /\ x = c THEN value ELSE facts[<<j, x>>]
    <3> TAKE j \in Residency!Kinds, x \in Residency!Classes
    <3>1. <<j, x>> \in Residency!Facts
        BY DEF Residency!Facts
    <3>2. <<j, x>> = <<k, c>> <=> j = k /\ x = c
        OBVIOUS
    <3> QED BY <1>4, <3>1, <3>2
  <2> QED BY <1>2, <2>1, <2>2 DEF Adds
<1>6. MatrixInv'
  <2>1. facts' = [f \in Residency!Facts |-> facts'[f]]
      BY <1>2 DEF MatrixInv
  <2>2. value \in {None, TRUE, FALSE}
      OBVIOUS
  <2>3. MatrixTyped(facts')
      BY <1>5, <2>2 DEF MatrixInv, MatrixTyped, Adds
  <2>4. MatrixTyped(facts)' <=> MatrixTyped(facts')
      BY DEF MatrixTyped
  <2> QED BY <2>1, <2>3, <2>4 DEF MatrixInv
<1>7. Residency!EvidenceMovesForward
  <2> DEFINE before == Residency!Evaluate(facts)
             after == Residency!Evaluate(facts')
             for == \E f \in Residency!Facts : facts[f] = None /\ facts'[f] = TRUE
  <2>1. MovesOn(before, after, value)
      BY <1>5, MoreEvidence DEF MatrixInv
  <2>2. value = TRUE \/ value = FALSE
      OBVIOUS
  <2>3. for <=> value = TRUE
    <3>1. None # TRUE
        BY Instances DEF Residency!ResidencyAssumption
    <3> QED BY <1>2, <1>3, <1>4, <3>1
  <2> HIDE DEF before, after, for
  <2>4. /\ for => Residency!Order(after) <= Residency!Order(before)
        /\ ~for /\ before[1] \in Residency!Classes => after = before
        /\ before[1] = "blocked" => after = before
      BY <2>1, <2>2, <2>3 DEF MovesOn
  <2> QED BY <2>4 DEF Residency!EvidenceMovesForward, before, after, for
<1> QED BY <1>6, <1>7

-----------------------------------------------------------------------------
(* Sums.  The value a sum takes over a set is found element by element; that  *)
(* there is a function that tells it of every subset is shown by the number    *)
(* of elements.                                                              *)

Picked(s) == CHOOSE x \in s : TRUE

\* g tells the sum of f over each set of S.
TellsSums(f, g, S) ==
    g = [s \in S |-> IF s = {} THEN 0 ELSE f[Picked(s)] + g[s \ {Picked(s)}]]

UpTo(D, n) == {s \in SUBSET D : Cardinality(s) <= n}

LEMMA PickedOne ==
    ASSUME NEW D, IsFiniteSet(D), NEW s \in SUBSET D
    PROVE  /\ IsFiniteSet(s) /\ Cardinality(s) \in Nat
           /\ s = {} <=> Cardinality(s) = 0
           /\ s # {} => /\ Picked(s) \in s /\ s \ {Picked(s)} \in SUBSET D
                        /\ Cardinality(s \ {Picked(s)}) = Cardinality(s) - 1
<1>1. IsFiniteSet(s)
    BY FS_Subset
<1>2. Cardinality(s) \in Nat /\ (s = {} <=> Cardinality(s) = 0)
    BY <1>1, FS_CardinalityType, FS_EmptySet
<1>3. s # {} => Picked(s) \in s
    BY DEF Picked
<1>4. s # {} => Cardinality(s \ {Picked(s)}) = Cardinality(s) - 1
    BY <1>1, <1>3, FS_RemoveElement
<1> QED BY <1>1, <1>2, <1>3, <1>4

LEMMA SumsFurther ==
    ASSUME NEW D, IsFiniteSet(D), NEW f, NEW n \in Nat, NEW g, TellsSums(f, g, UpTo(D, n))
    PROVE  \E h : TellsSums(f, h, UpTo(D, n + 1))
<1> DEFINE h == [s \in UpTo(D, n + 1) |->
                    IF s = {} THEN 0 ELSE f[Picked(s)] + g[s \ {Picked(s)}]]
<1>1. ASSUME NEW s \in UpTo(D, n) PROVE s \in UpTo(D, n + 1) /\ h[s] = g[s]
  <2>0. s \in SUBSET D /\ Cardinality(s) <= n
      BY DEF UpTo
  <2>2. Cardinality(s) \in Nat
      BY <2>0, PickedOne
  <2>1. s \in UpTo(D, n + 1)
      BY <2>0, <2>2 DEF UpTo
  <2> QED BY <2>1 DEF TellsSums
<1>2. ASSUME NEW s \in UpTo(D, n + 1), s # {} PROVE s \ {Picked(s)} \in UpTo(D, n)
    BY <1>2, PickedOne DEF UpTo
<1>3. h = [s \in UpTo(D, n + 1) |->
              IF s = {} THEN 0 ELSE f[Picked(s)] + h[s \ {Picked(s)}]]
  <2>1. ASSUME NEW s \in UpTo(D, n + 1), s # {}
        PROVE  h[s \ {Picked(s)}] = g[s \ {Picked(s)}]
      BY <2>1, <1>1, <1>2
  <2> QED BY <2>1
<1> HIDE DEF h
<1> QED BY <1>3 DEF TellsSums

LEMMA SumsToldUpTo ==
    ASSUME NEW D, IsFiniteSet(D), NEW f, NEW N \in Nat
    PROVE  \E g : TellsSums(f, g, UpTo(D, N))
<1> DEFINE Told(n) == \E g : TellsSums(f, g, UpTo(D, n))
           Good == {n \in 0 .. N : Told(n)}
<1>1. Told(0)
  <2> DEFINE g == [s \in UpTo(D, 0) |-> 0]
  <2>1. ASSUME NEW s \in UpTo(D, 0) PROVE s = {}
    <3>1. s \in SUBSET D /\ Cardinality(s) <= 0
        BY DEF UpTo
    <3>2. Cardinality(s) \in Nat /\ (s = {} <=> Cardinality(s) = 0)
        BY <3>1, PickedOne
    <3> QED BY <3>1, <3>2
  <2>2. g = [s \in UpTo(D, 0) |-> IF s = {} THEN 0 ELSE f[Picked(s)] + g[s \ {Picked(s)}]]
      BY <2>1
  <2> HIDE DEF g
  <2> QED BY <2>2 DEF TellsSums
<1>2. ASSUME NEW n \in 0 .. N, Told(n) PROVE Told(n + 1)
    BY <1>2, SumsFurther
<1> HIDE DEF Told
<1>3. Good = 0 .. N
  <2>1. Good \in SUBSET (0 .. N) /\ 0 \in Good
      BY <1>1
  <2>2. \A n \in 0 .. N : n + 1 \in 0 .. N /\ n \in Good => n + 1 \in Good
      BY <1>2
  <2> HIDE DEF Good
  <2> QED BY <2>1, <2>2, NoLeastGap
<1>4. Told(N)
    BY <1>3
<1> QED BY <1>4 DEF Told

LEMMA SumsTold ==
    ASSUME NEW D, IsFiniteSet(D), NEW f
    PROVE  \E g : TellsSums(f, g, SUBSET D)
<1>1. Cardinality(D) \in Nat
    BY FS_CardinalityType
<1>2. \A s \in SUBSET D : Cardinality(s) <= Cardinality(D)
    BY FS_Subset
<1>3. UpTo(D, Cardinality(D)) = SUBSET D
    BY <1>2 DEF UpTo
<1>4. \E g : TellsSums(f, g, UpTo(D, Cardinality(D)))
    BY <1>1, SumsToldUpTo
<1> QED BY <1>3, <1>4

\* So the sum of a function of a finite domain is what such a function tells.
LEMMA TotalTold ==
    ASSUME NEW f, IsFiniteSet(DOMAIN f)
    PROVE  \E g : TellsSums(f, g, SUBSET DOMAIN f) /\ Promotion!Total(f) = g[DOMAIN f]
<1> DEFINE g == CHOOSE g : TellsSums(f, g, SUBSET DOMAIN f)
<1>1. TellsSums(f, g, SUBSET DOMAIN f)
    BY SumsTold
<1>2. Promotion!Total(f) =
        LET it[s \in SUBSET DOMAIN f] ==
                IF s = {} THEN 0
                ELSE f[CHOOSE x \in s : TRUE] + it[s \ {CHOOSE x \in s : TRUE}]
        IN  it[DOMAIN f]
    BY DEF Promotion!Total, Promotion!MapThenSumSet, Promotion!MapThenFoldSet
<1>3. g = CHOOSE h : h = [s \in SUBSET DOMAIN f |->
              IF s = {} THEN 0
              ELSE f[CHOOSE x \in s : TRUE] + h[s \ {CHOOSE x \in s : TRUE}]]
    BY DEF TellsSums, Picked
<1>4. Promotion!Total(f) = g[DOMAIN f]
    BY <1>2, <1>3
<1> QED BY <1>1, <1>4

\* Of two functions the one that is nowhere less sums to no less, and to more
\* where it is more somewhere.
LEMMA SumsCompare ==
    ASSUME NEW D, IsFiniteSet(D), NEW f \in [D -> Int], NEW h \in [D -> Int],
           NEW F, TellsSums(f, F, SUBSET D), NEW H, TellsSums(h, H, SUBSET D),
           \A x \in D : f[x] >= h[x]
    PROVE  /\ F[D] \in Int /\ H[D] \in Int /\ F[D] >= H[D]
           /\ (\E x \in D : f[x] > h[x]) => F[D] > H[D]
<1> DEFINE Holds(s) ==
               /\ F[s] \in Int /\ H[s] \in Int /\ F[s] >= H[s]
               /\ (\E x \in s : f[x] > h[x]) => F[s] > H[s]
           N == Cardinality(D)
           Good == {n \in 0 .. N : \A s \in UpTo(D, n) : Holds(s)}
<1>1. N \in Nat
    BY FS_CardinalityType
<1>2. ASSUME NEW s \in SUBSET D
      PROVE  /\ s = {} => F[s] = 0 /\ H[s] = 0
             /\ s # {} => /\ F[s] = f[Picked(s)] + F[s \ {Picked(s)}]
                          /\ H[s] = h[Picked(s)] + H[s \ {Picked(s)}]
    BY DEF TellsSums
<1>3. ASSUME NEW s \in UpTo(D, 0) PROVE Holds(s)
  <2>1. s \in SUBSET D /\ Cardinality(s) <= 0
      BY DEF UpTo
  <2>2. Cardinality(s) \in Nat /\ (s = {} <=> Cardinality(s) = 0)
      BY <2>1, PickedOne
  <2>3. s = {}
      BY <2>1, <2>2
  <2>4. F[s] = 0 /\ H[s] = 0
      BY <1>2, <2>1, <2>3
  <2> QED BY <2>3, <2>4
<1>4. ASSUME NEW n \in 0 .. N, \A s \in UpTo(D, n) : Holds(s), NEW s \in UpTo(D, n + 1)
      PROVE  Holds(s)
  <2>1. s \in SUBSET D /\ Cardinality(s) <= n + 1
      BY DEF UpTo
  <2>2. CASE s = {}
    <3>1. F[s] = 0 /\ H[s] = 0
        BY <1>2, <2>1, <2>2
    <3> QED BY <2>2, <3>1
  <2>3. CASE s # {}
    <3> DEFINE x == Picked(s)
               r == s \ {x}
    <3>1. Cardinality(s) \in Nat /\ x \in s /\ r \in SUBSET D /\ Cardinality(r) = Cardinality(s) - 1
        BY <2>1, <2>3, PickedOne
    <3>2. r \in UpTo(D, n)
        BY <2>1, <3>1 DEF UpTo
    <3>3. Holds(r)
        BY <1>4, <3>2
    <3>4. F[s] = f[x] + F[r] /\ H[s] = h[x] + H[r]
        BY <1>2, <2>1, <2>3
    <3>5. f[x] \in Int /\ h[x] \in Int /\ f[x] >= h[x]
        BY <2>1, <3>1
    <3>6. \A y \in s : y = x \/ y \in r
        OBVIOUS
    <3> HIDE DEF x, r
    <3>7. F[s] \in Int /\ H[s] \in Int /\ F[s] >= H[s]
        BY <3>3, <3>4, <3>5
    <3>8. ASSUME NEW y \in s, f[y] > h[y] PROVE F[s] > H[s]
      <4>1. CASE y = x
          BY <4>1, <3>3, <3>4, <3>5, <3>8
      <4>2. CASE y \in r
        <5>1. F[r] > H[r]
            BY <4>2, <3>3, <3>8
        <5> QED BY <5>1, <3>3, <3>4, <3>5
      <4> QED BY <4>1, <4>2, <3>6
    <3> QED BY <3>7, <3>8
  <2> QED BY <2>2, <2>3
<1> HIDE DEF Holds
<1>5. Good = 0 .. N
  <2>1. Good \in SUBSET (0 .. N) /\ 0 \in Good
      BY <1>1, <1>3
  <2>2. \A n \in 0 .. N : n + 1 \in 0 .. N /\ n \in Good => n + 1 \in Good
      BY <1>4
  <2> HIDE DEF Good, N
  <2> QED BY <1>1, <2>1, <2>2, NoLeastGap
<1>6. \A s \in UpTo(D, N) : Holds(s)
    BY <1>1, <1>5
<1>7. D \in UpTo(D, N)
    BY <1>1 DEF UpTo
<1>8. Holds(D)
    BY <1>6, <1>7
<1> QED BY <1>8 DEF Holds

LEMMA TotalsCompare ==
    ASSUME NEW D, IsFiniteSet(D), NEW f \in [D -> Int], NEW h \in [D -> Int],
           \A x \in D : f[x] >= h[x]
    PROVE  /\ Promotion!Total(f) \in Int /\ Promotion!Total(h) \in Int
           /\ Promotion!Total(f) >= Promotion!Total(h)
           /\ (\E x \in D : f[x] > h[x]) => Promotion!Total(f) > Promotion!Total(h)
<1>1. DOMAIN f = D /\ DOMAIN h = D
    OBVIOUS
<1>2. PICK F : TellsSums(f, F, SUBSET D) /\ Promotion!Total(f) = F[D]
  <2>1. \E F : TellsSums(f, F, SUBSET DOMAIN f) /\ Promotion!Total(f) = F[DOMAIN f]
      BY <1>1, TotalTold
  <2> QED BY <2>1, <1>1
<1>3. PICK H : TellsSums(h, H, SUBSET D) /\ Promotion!Total(h) = H[D]
  <2>1. \E H : TellsSums(h, H, SUBSET DOMAIN h) /\ Promotion!Total(h) = H[DOMAIN h]
      BY <1>1, TotalTold
  <2> QED BY <2>1, <1>1
<1>4. /\ F[D] \in Int /\ H[D] \in Int /\ F[D] >= H[D]
      /\ (\E x \in D : f[x] > h[x]) => F[D] > H[D]
    BY <1>2, <1>3, SumsCompare
<1> QED BY <1>2, <1>3, <1>4

-----------------------------------------------------------------------------
(* Selection.                                                                *)

LEMMA WeighedMore ==
    ASSUME NEW w \in Nat, NEW a \in Int, NEW b \in Int, a >= b
    PROVE  w * a \in Int /\ w * b \in Int /\ w * a >= w * b /\ (w > 0 /\ a > b => w * a > w * b)
<1>1. a - b \in Nat /\ w * a = w * b + w * (a - b)
    OBVIOUS
<1>2. w * (a - b) \in Nat /\ (w > 0 /\ a - b > 0 => w * (a - b) > 0)
    BY <1>1
<1> QED BY <1>1, <1>2

\* What outdoes another in metrics that count is of more utility.
LEMMA OutdoingPays ==
    ASSUME NEW e \in Claims \union Runs, NEW f \in Claims \union Runs
    PROVE  /\ Promotion!Utility(e) \in Int
           /\ Promotion!Outdoes(f, e) => Promotion!Utility(f) > Promotion!Utility(e)
<1> DEFINE Weighed(x) == [m \in Metrics |-> Weight[m] * x.scores[m]]
<1>1. IsFiniteSet(Metrics)
    BY Instances
<1>2. \A m \in Metrics : Weight[m] \in Nat /\ e.scores[m] \in Int /\ f.scores[m] \in Int
    BY Instances DEF Promotion!PromotionAssumption
<1>3. Weighed(e) \in [Metrics -> Int] /\ Weighed(f) \in [Metrics -> Int]
    BY <1>2, WeighedMore
<1>4. Promotion!Utility(e) = Promotion!Total(Weighed(e))
      /\ Promotion!Utility(f) = Promotion!Total(Weighed(f))
    BY DEF Promotion!Utility
<1>5. Promotion!Utility(e) \in Int
  <2>1. \A m \in Metrics : Weighed(e)[m] >= Weighed(e)[m]
      BY <1>3
  <2> HIDE DEF Weighed
  <2> QED BY <2>1, <1>1, <1>3, <1>4, TotalsCompare
<1>6. ASSUME Promotion!Outdoes(f, e) PROVE Promotion!Utility(f) > Promotion!Utility(e)
  <2>1. \A m \in Metrics : f.scores[m] >= e.scores[m]
      BY <1>6 DEF Promotion!Outdoes
  <2>2. \A m \in Metrics : Weighed(f)[m] >= Weighed(e)[m]
      BY <2>1, <1>2, WeighedMore
  <2>3. PICK m \in Metrics : Weight[m] > 0 /\ f.scores[m] > e.scores[m]
      BY <1>6 DEF Promotion!Outdoes
  <2>4. Weighed(f)[m] > Weighed(e)[m]
      BY <2>1, <2>3, <1>2, WeighedMore
  <2> HIDE DEF Weighed
  <2> QED BY <2>2, <2>4, <1>1, <1>3, <1>4, TotalsCompare
<1> QED BY <1>5, <1>6

\* The best of some evaluations of different candidates is one of them, and
\* none is of more utility.
LEMMA BestIsOne ==
    ASSUME NEW es \in SUBSET (Claims \union Runs), IsFiniteSet(es), es # {}
    PROVE  /\ Promotion!Best(es) \in es
           /\ \A f \in es : ~(Promotion!Utility(f) > Promotion!Utility(Promotion!Best(es)))
<1> DEFINE Worth == [e \in es |-> Promotion!Utility(e)]
<1>1. \A e \in es : Promotion!Utility(e) \in Int
    BY OutdoingPays
<1>2. \A e \in es : e.candidate \in Nat
    BY Instances DEF Promotion!PromotionAssumption
<1>3. PICK a \in es : \A b \in es : Worth[b] <= Worth[a]
  <2>1. Worth \in [es -> Int]
      BY <1>1
  <2> HIDE DEF Worth
  <2> QED BY <2>1, GreatestValue
<1> DEFINE Worthiest == {e \in es : Worth[e] = Worth[a]}
           Names == {e.candidate : e \in Worthiest}
<1>4. PICK n \in Names : \A k \in Names : n <= k
  <2>1. Names \in SUBSET Nat /\ Names # {}
      BY <1>2, <1>3
  <2> HIDE DEF Names
  <2> QED BY <2>1, LeastNumber
<1>5. PICK e \in Worthiest : e.candidate = n
    BY <1>4
<1> DEFINE Leads(x, f) == \/ Promotion!Utility(x) > Promotion!Utility(f)
                          \/ Promotion!Utility(x) = Promotion!Utility(f)
                                /\ x.candidate <= f.candidate
<1>6. ASSUME NEW f \in es PROVE Leads(e, f)
  <2>1. Worth[f] <= Worth[a] /\ Worth[e] = Worth[a] /\ e \in es
      BY <1>3, <1>5
  <2>2. CASE Worth[f] = Worth[a]
    <3>1. f.candidate \in Names
        BY <2>2
    <3>2. e.candidate <= f.candidate
        BY <3>1, <1>4, <1>5
    <3> QED BY <3>2, <2>1, <2>2
  <2>3. CASE Worth[f] # Worth[a]
      BY <2>1, <2>3, <1>1
  <2> QED BY <2>2, <2>3
<1>7. \E x \in es : \A f \in es : Leads(x, f)
    BY <1>5, <1>6
<1>8. Promotion!Best(es) = CHOOSE x \in es : \A f \in es : Leads(x, f)
    BY DEF Promotion!Best
<1> HIDE DEF Leads
<1>9. Promotion!Best(es) \in es /\ \A f \in es : Leads(Promotion!Best(es), f)
    BY <1>7, <1>8
<1>10. ASSUME NEW f \in es PROVE ~(Promotion!Utility(f) > Promotion!Utility(Promotion!Best(es)))
    BY <1>1, <1>9 DEF Leads
<1> QED BY <1>9, <1>10

-----------------------------------------------------------------------------
(* Counting.                                                                 *)

LEMMA PromotionCounts ==
    ASSUME NEW S PROVE Promotion!Cardinality(S) = Cardinality(S)
BY DEF Promotion!Cardinality, Cardinality

\* What is said of the elements of a finite set is said at most once for each,
\* and where it counts as many as they are, it tells them apart.
LEMMA SaidOfEach ==
    ASSUME NEW S, IsFiniteSet(S), NEW g, DOMAIN g = S,
           NEW T, T = {g[x] : x \in S}
    PROVE  /\ IsFiniteSet(T) /\ Cardinality(T) \in Nat /\ Cardinality(S) \in Nat
           /\ Cardinality(T) <= Cardinality(S)
           /\ Cardinality(T) = Cardinality(S) => \A x, y \in S : g[x] = g[y] => x = y
<1> DEFINE h == [x \in S |-> g[x]]
<1>1. h \in [S -> T] /\ \A t \in T : \E x \in S : h[x] = t
    OBVIOUS
<1>2. h \in Surjection(S, T)
    BY <1>1 DEF Surjection
<1>3. /\ IsFiniteSet(T) /\ Cardinality(T) <= Cardinality(S)
      /\ Cardinality(T) = Cardinality(S) <=> h \in Injection(S, T)
  <2> HIDE DEF h
  <2> QED BY <1>2, FS_Surjection
<1>4. h \in Injection(S, T) => \A x, y \in S : h[x] = h[y] => x = y
  <2> HIDE DEF h
  <2> QED BY DEF Injection, IsInjective
<1>5. \A x \in S : h[x] = g[x]
    OBVIOUS
<1> HIDE DEF h
<1>6. Cardinality(T) \in Nat /\ Cardinality(S) \in Nat
    BY <1>3, FS_CardinalityType
<1> QED BY <1>3, <1>4, <1>5, <1>6

LEMMA CandidatesTellApart ==
    ASSUME NEW es, IsFiniteSet(es), Promotion!DistinctCandidates(es)
    PROVE  \A e, f \in es : e.candidate = f.candidate => e = f
<1> DEFINE T == {e.candidate : e \in es}
           g == [e \in es |-> e.candidate]
<1>1. Cardinality(T) = Cardinality(es)
    BY PromotionCounts DEF Promotion!DistinctCandidates
<1>2. DOMAIN g = es /\ T = {g[e] : e \in es}
    OBVIOUS
<1>3. \A e, f \in es : g[e] = g[f] => e = f
  <2> HIDE DEF g, T
  <2> QED BY <1>1, <1>2, SaidOfEach
<1> QED BY <1>3

\* A finite set has a subset of any size up to its own.
LEMMA SubsetOfSize ==
    ASSUME NEW S, IsFiniteSet(S), NEW n \in Nat, n <= Cardinality(S)
    PROVE  \E T \in SUBSET S : Cardinality(T) = n
<1> DEFINE Reached(k) == \E T \in SUBSET S : Cardinality(T) = k
           Good == {k \in 0 .. n : Reached(k)}
<1>1. Cardinality(S) \in Nat
    BY FS_CardinalityType
<1>2. Reached(0)
    BY FS_EmptySet
<1>3. ASSUME NEW k \in 0 .. n, k + 1 \in 0 .. n, Reached(k) PROVE Reached(k + 1)
  <2>1. PICK T \in SUBSET S : Cardinality(T) = k
      BY <1>3
  <2>2. IsFiniteSet(T)
      BY FS_Subset
  <2>3. T # S
      BY <2>1, <1>3, <1>1
  <2>4. PICK x \in S : x \notin T
      BY <2>3
  <2>5. Cardinality(T \union {x}) = Cardinality(T) + 1
      BY <2>2, <2>4, FS_AddElement
  <2>6. T \union {x} \in SUBSET S
      OBVIOUS
  <2> QED BY <2>1, <2>5, <2>6
<1> HIDE DEF Reached
<1>4. Good = 0 .. n
  <2>1. Good \in SUBSET (0 .. n) /\ 0 \in Good
      BY <1>2
  <2>2. \A k \in 0 .. n : k + 1 \in 0 .. n /\ k \in Good => k + 1 \in Good
      BY <1>3
  <2> HIDE DEF Good
  <2> QED BY <2>1, <2>2, NoLeastGap
<1>5. Reached(n)
    BY <1>4
<1> QED BY <1>5 DEF Reached

LEMMA FewCounts ==
    /\ Cardinality({}) = 0
    /\ \A x : Cardinality({x}) = 1
    /\ \A x, y : x # y => Cardinality({x, y}) # 1
<1>1. Cardinality({}) = 0
    BY FS_EmptySet
<1>2. ASSUME NEW x PROVE IsFiniteSet({x}) /\ Cardinality({x}) = 1
    BY FS_Singleton
<1>3. ASSUME NEW x, NEW y, x # y PROVE Cardinality({x, y}) # 1
  <2>1. Cardinality({x} \union {y}) = Cardinality({x}) + 1
      BY <1>2, <1>3, FS_AddElement
  <2>2. {x} \union {y} = {x, y}
      OBVIOUS
  <2> QED BY <1>2, <2>1, <2>2
<1> QED BY <1>1, <1>2, <1>3

-----------------------------------------------------------------------------
(* What the gate lets through.                                               *)

\* A selection of one candidate is of one that passed and that none that passed
\* outdoes; a pair is never one candidate.
LEMMA SelectedIsBest ==
    ASSUME NEW es \in SUBSET Claims, NEW pairs \in SUBSET Pairs, IsFiniteSet(es),
           Promotion!Selected(es, pairs) # None,
           Cardinality(Promotion!Selected(es, pairs)) = 1
    PROVE  \E e \in es :
               /\ Promotion!Selected(es, pairs) = {e.candidate}
               /\ Promotion!Passed(e)
               /\ \A f \in es : Promotion!Passed(f) => ~Promotion!Outdoes(f, e)
<1> DEFINE admitted == {e \in es : Promotion!Passed(e)}
           joint == {p \in pairs : p.gains /\ p.candidates \subseteq {e.candidate : e \in admitted}}
           best == CHOOSE p \in joint : \A q \in joint : p.rank <= q.rank
<1>1. /\ Promotion!DistinctCandidates(es) /\ Promotion!PairsFit(pairs, es) /\ admitted # {}
      /\ Promotion!Selected(es, pairs) =
             IF joint = {} THEN {Promotion!Best(admitted).candidate} ELSE best.candidates
    BY DEF Promotion!Selected
<1>2. CASE joint = {}
  <2>1. admitted \in SUBSET (Claims \union Runs) /\ IsFiniteSet(admitted)
      BY FS_Subset
  <2> DEFINE e == Promotion!Best(admitted)
  <2>2. e \in admitted /\ \A f \in admitted : ~(Promotion!Utility(f) > Promotion!Utility(e))
    <3> HIDE DEF admitted
    <3> QED BY <1>1, <2>1, BestIsOne
  <2>3. ASSUME NEW f \in es, Promotion!Passed(f) PROVE ~Promotion!Outdoes(f, e)
    <3>1. e \in Claims \union Runs /\ f \in Claims \union Runs /\ f \in admitted
        BY <2>2, <2>3
    <3> HIDE DEF admitted, e
    <3> QED BY <3>1, <2>2, OutdoingPays
  <2>4. Promotion!Selected(es, pairs) = {e.candidate}
      BY <1>1, <1>2
  <2> HIDE DEF e
  <2>5. e \in es /\ Promotion!Passed(e)
      BY <2>2
  <2> QED BY <2>3, <2>4, <2>5
<1>3. CASE joint # {}
  <2>1. best \in joint
    <3> DEFINE Ranks == {p.rank : p \in joint}
    <3>1. Ranks \in SUBSET Nat /\ Ranks # {}
        BY <1>3, Instances DEF Promotion!PromotionAssumption
    <3>2. PICK n \in Ranks : \A k \in Ranks : n <= k
      <4> HIDE DEF Ranks
      <4> QED BY <3>1, LeastNumber
    <3>3. \E p \in joint : \A q \in joint : p.rank <= q.rank
        BY <3>2
    <3> HIDE DEF joint
    <3> QED BY <3>3
  <2>2. PICK e \in es, f \in es : e.strategy # f.strategy /\ best.candidates = {e.candidate, f.candidate}
    <3>1. best \in pairs
        BY <2>1
    <3> HIDE DEF best, joint
    <3> QED BY <3>1, <1>1 DEF Promotion!PairsFit
  <2>3. e.candidate # f.candidate
      BY <1>1, <2>2, CandidatesTellApart
  <2>4. Promotion!Selected(es, pairs) = {e.candidate, f.candidate}
      BY <1>1, <1>3, <2>2
  <2> QED BY <2>3, <2>4, FewCounts
<1> QED BY <1>2, <1>3

\* A capability that is admitted was carried, and to a receiver that no one had
\* seen where that is asked.
LEMMA AdmittedWasCarried ==
    ASSUME NEW ts, IsFiniteSet(ts), NEW c \in Promotion!Admitted(ts)
    PROVE  \E t \in ts : /\ t.capability = c /\ Promotion!Passes(t)
                         /\ TrialProtocol.unseen => t.unseen
<1> DEFINE carried == {t \in {u \in ts : u.capability = c} : Promotion!Passes(t)}
<1>1. Promotion!Covers(carried)
    BY DEF Promotion!Admitted, Promotion!AdmittedBy
<1>2. carried # {}
  <2> SUFFICES ASSUME carried = {} PROVE FALSE
      OBVIOUS
  <2>1. {t.receiver : t \in carried} = {}
      OBVIOUS
  <2> HIDE DEF carried
  <2>2. Cardinality({}) >= TrialProtocol.receivers
      BY <1>1, <2>1, PromotionCounts DEF Promotion!Covers
  <2>3. TrialProtocol.receivers \in Nat \ {0}
      BY Instances DEF Promotion!PromotionAssumption
  <2> QED BY <2>2, <2>3, FewCounts
<1>3. TrialProtocol.unseen => \E t \in carried : t.unseen
  <2> HIDE DEF carried
  <2> QED BY <1>1 DEF Promotion!Covers
<1> QED BY <1>2, <1>3

\* As many capabilities as the protocol asks for were each carried so.
LEMMA EnoughWereCarried ==
    ASSUME NEW ts \in SUBSET TrialRecords,
           Promotion!Cardinality(Promotion!Admitted(ts)) >= TrialProtocol.n
    PROVE  \E cs \in SUBSET Promotion!HeldOut(ts) :
               /\ Promotion!Cardinality(cs) = TrialProtocol.n
               /\ \A c \in cs : \E t \in ts :
                      /\ t.capability = c /\ Promotion!Passes(t)
                      /\ TrialProtocol.unseen => t.unseen
<1>1. IsFiniteSet(ts)
    BY Instances, FS_Subset
<1>2. Promotion!Admitted(ts) \in SUBSET Promotion!HeldOut(ts)
    BY DEF Promotion!Admitted
<1>3. IsFiniteSet(Promotion!Admitted(ts))
  <2> DEFINE g == [t \in ts |-> t.capability]
             T == {t.capability : t \in ts}
  <2>1. DOMAIN g = ts /\ T = {g[t] : t \in ts}
      OBVIOUS
  <2>2. IsFiniteSet(T)
    <3> HIDE DEF g, T
    <3> QED BY <1>1, <2>1, SaidOfEach
  <2>3. Promotion!Admitted(ts) \in SUBSET T
      BY DEF Promotion!Admitted, Promotion!HeldOut
  <2> HIDE DEF T
  <2> QED BY <2>2, <2>3, FS_Subset
<1>4. PICK cs \in SUBSET Promotion!Admitted(ts) : Cardinality(cs) = TrialProtocol.n
  <2>1. TrialProtocol.n \in Nat /\ TrialProtocol.n <= Cardinality(Promotion!Admitted(ts))
    <3>1. TrialProtocol.n \in Nat
        BY Instances DEF Promotion!PromotionAssumption
    <3>2. Cardinality(Promotion!Admitted(ts)) \in Nat
        BY <1>3, FS_CardinalityType
    <3> QED BY <3>1, <3>2, PromotionCounts
  <2> QED BY <1>3, <2>1, SubsetOfSize
<1>5. \A c \in cs : \E t \in ts :
          /\ t.capability = c /\ Promotion!Passes(t)
          /\ TrialProtocol.unseen => t.unseen
    BY <1>1, AdmittedWasCarried
<1>6. cs \in SUBSET Promotion!HeldOut(ts) /\ Promotion!Cardinality(cs) = TrialProtocol.n
    BY <1>2, <1>4, PromotionCounts
<1> QED BY <1>5, <1>6

\* A request that was let through is as it was asked, and what it rests on is
\* kept.
StaysEarned(q) ==
    /\ q.selection \in SUBSET Claims /\ q.pairs \in SUBSET Pairs
    /\ q.receipts \subseteq shadows /\ q.trials \subseteq trials
    /\ Promotion!IsReady(q)

PromotionInv ==
    /\ trials \subseteq TrialRecords /\ shadows \subseteq Runs
    /\ observations \subseteq Lineages
    /\ \A q \in ready : StaysEarned(q)

\* Every evaluation of the selection was run with the scores it claims.
LEMMA SelectionWasRun ==
    ASSUME NEW q, q.selection \in SUBSET Claims, Promotion!IsReady(q)
    PROVE  q.selection \subseteq q.receipts
<1>1. /\ Promotion!Selected(q.selection, q.pairs) # None
      /\ q.receipts \subseteq q.selection
      /\ {e.candidate : e \in q.receipts} = {e.candidate : e \in q.selection}
    BY DEF Promotion!IsReady, Promotion!EveryEvaluationRan
<1>2. Promotion!DistinctCandidates(q.selection)
    BY <1>1 DEF Promotion!Selected
<1>3. IsFiniteSet(q.selection)
    BY Instances, FS_Subset
<1>4. \A e, f \in q.selection : e.candidate = f.candidate => e = f
    BY <1>2, <1>3, CandidatesTellApart
<1>5. ASSUME NEW e \in q.selection PROVE e \in q.receipts
  <2>1. e.candidate \in {f.candidate : f \in q.receipts}
      BY <1>1
  <2>2. PICK f \in q.receipts : f.candidate = e.candidate
      BY <2>1
  <2> QED BY <2>2, <1>1, <1>4
<1> QED BY <1>5

LEMMA PromotionTells ==
    ASSUME PromotionInv PROVE ReadyIsEarned
<1>1. Promotion!PromotionTypeOK
    BY DEF PromotionInv, StaysEarned, Promotion!PromotionTypeOK
<1>2. ASSUME NEW q \in ready
      PROVE  /\ q.selection \subseteq shadows
             /\ \E e \in q.selection :
                    /\ Promotion!Selected(q.selection, q.pairs) = {e.candidate}
                    /\ Promotion!Passed(e)
                    /\ \A f \in q.selection : Promotion!Passed(f) => ~Promotion!Outdoes(f, e)
             /\ \E cs \in SUBSET Promotion!HeldOut(q.trials) :
                    /\ Promotion!Cardinality(cs) = TrialProtocol.n
                    /\ \A c \in cs : \E t \in q.trials :
                           /\ t.capability = c /\ Promotion!Passes(t)
                           /\ TrialProtocol.unseen => t.unseen
  <2>1. /\ q.selection \in SUBSET Claims /\ q.pairs \in SUBSET Pairs
        /\ q.receipts \subseteq shadows /\ q.trials \in SUBSET TrialRecords
        /\ Promotion!IsReady(q)
      BY DEF PromotionInv, StaysEarned
  <2>2. /\ Promotion!Selected(q.selection, q.pairs) # None
        /\ Cardinality(Promotion!Selected(q.selection, q.pairs)) = 1
        /\ Promotion!Cardinality(Promotion!Admitted(q.trials)) >= TrialProtocol.n
      BY <2>1, PromotionCounts DEF Promotion!IsReady
  <2>3. IsFiniteSet(q.selection)
      BY <2>1, Instances, FS_Subset
  <2>4. q.selection \subseteq shadows
      BY <2>1, SelectionWasRun
  <2>5. \E e \in q.selection :
            /\ Promotion!Selected(q.selection, q.pairs) = {e.candidate}
            /\ Promotion!Passed(e)
            /\ \A f \in q.selection : Promotion!Passed(f) => ~Promotion!Outdoes(f, e)
      BY <2>1, <2>2, <2>3, SelectedIsBest
  <2> QED BY <2>1, <2>2, <2>4, <2>5, EnoughWereCarried
<1> QED BY <1>1, <1>2 DEF ReadyIsEarned, Promotion!ReadyIsEarned

LEMMA PromotionStarts ==
    ASSUME Init PROVE PromotionInv
BY DEF Init, Promotion!PromotionInit, PromotionInv

LEMMA PromotionStep ==
    ASSUME PromotionInv, [Next]_vars PROVE PromotionInv'
<1> USE DEF PromotionInv, StaysEarned
<1>1. CASE UNCHANGED <<trials, shadows, ready, observations>>
    BY <1>1
<1>2. ASSUME NEW t \in TrialRecords, Promotion!RunTrial(t) PROVE PromotionInv'
    BY <1>2 DEF Promotion!RunTrial
<1>3. ASSUME NEW e \in Runs, Promotion!ShadowRun(e) PROVE PromotionInv'
    BY <1>3 DEF Promotion!ShadowRun
<1>4. ASSUME NEW selection \in SUBSET Claims, NEW pairs \in SUBSET Pairs,
             NEW shown \in SUBSET shadows, Promotion!Ask(selection, pairs, shown)
      PROVE  PromotionInv'
  <2> DEFINE q == [selection |-> selection, pairs |-> pairs, receipts |-> shown,
                   trials |-> trials]
  <2>1. Promotion!IsReady(q) /\ ready' = ready \union {q}
        /\ UNCHANGED <<trials, shadows, observations>>
      BY <1>4 DEF Promotion!Ask
  <2>2. StaysEarned(q)
      BY <2>1
  <2> QED BY <2>1, <2>2
<1>5. ASSUME NEW o \in Lineages, Promotion!Observe(o) PROVE PromotionInv'
    BY <1>5 DEF Promotion!Observe, Promotion!promoting
<1>6. CASE Promotion!PromotionNext
    BY <1>2, <1>3, <1>4, <1>6 DEF Promotion!PromotionNext
<1> QED BY <1>1, <1>5, <1>6 DEF Next, vars, outsiders, promoting

\* The gate lets nothing through but the best of what was run, as it came out,
\* and only where enough capabilities were carried to enough receivers
\* (evaluate_universal_promotion_gate).
THEOREM ReadyStandsUp == Spec => []ReadyIsEarned
<1>1. Init => PromotionInv
    BY PromotionStarts
<1>2. PromotionInv /\ [Next]_vars => PromotionInv'
    BY PromotionStep
<1>3. PromotionInv => ReadyIsEarned
    BY PromotionTells
<1> QED BY <1>1, <1>2, <1>3, PTL DEF Spec

-----------------------------------------------------------------------------
(* Evidence against a capability.                                            *)

\* A failure takes confidence away and gives none.
LEMMA FailureShakes ==
    ASSUME NEW X \in SUBSET TrialRecords, X # {}, NEW t \in TrialRecords, t \notin X,
           ~Promotion!Passes(t), Promotion!ConfidentIn(X \union {t})
    PROVE  Promotion!ConfidentIn(X)
<1> DEFINE passed == {u \in X : Promotion!Passes(u)}
           s == Cardinality(passed)
           n == Cardinality(X)
<1>1. IsFiniteSet(X) /\ IsFiniteSet(TrialRecords)
    BY Instances, FS_Subset
<1>2. n \in Nat /\ n <= Cardinality(TrialRecords) /\ Cardinality(TrialRecords) \in Nat
    BY <1>1, FS_Subset, FS_CardinalityType
<1>3. s \in Nat /\ s <= n
  <2>1. passed \in SUBSET X
      OBVIOUS
  <2> HIDE DEF passed
  <2> QED BY <1>1, <2>1, FS_Subset, FS_CardinalityType
<1>4. n # 0
    BY <1>1, FS_EmptySet
<1>5. Cardinality(X \union {t}) = n + 1
    BY <1>1, FS_AddElement
<1>6. {u \in X \union {t} : Promotion!Passes(u)} = passed
    OBVIOUS
<1>7. Confident(s, n + 1)
  <2> HIDE DEF passed
  <2> QED BY <1>5, <1>6, PromotionCounts DEF Promotion!ConfidentIn
<1>8. Confident(s, n)
  <2>1. n \in 1 .. Cardinality(TrialRecords) /\ s \in 0 .. Cardinality(TrialRecords)
      BY <1>2, <1>3, <1>4
  <2>2. \A k \in 1 .. Cardinality(TrialRecords), j \in 0 .. Cardinality(TrialRecords) :
            j <= k /\ Confident(j, k + 1) => Confident(j, k)
      BY Instances, PromotionCounts DEF Promotion!PromotionAssumption
  <2> HIDE DEF s, n
  <2> QED BY <2>1, <2>2, <1>3, <1>7
<1> QED BY <1>8, PromotionCounts DEF Promotion!ConfidentIn

\* More trials cover no less.
LEMMA MoreCovers ==
    ASSUME NEW A, NEW B, IsFiniteSet(B), A \subseteq B, Promotion!Covers(A)
    PROVE  Promotion!Covers(B)
<1>1. ASSUME NEW S, NEW T, IsFiniteSet(T), S \subseteq T
      PROVE  Cardinality(S) \in Nat /\ Cardinality(T) \in Nat /\ Cardinality(S) <= Cardinality(T)
    BY <1>1, FS_Subset, FS_CardinalityType
<1>2. IsFiniteSet({t.receiver : t \in B}) /\ {t.receiver : t \in A} \subseteq {t.receiver : t \in B}
  <2> DEFINE g == [t \in B |-> t.receiver]
             T == {t.receiver : t \in B}
  <2>1. DOMAIN g = B /\ T = {g[t] : t \in B}
      OBVIOUS
  <2>2. IsFiniteSet(T)
    <3> HIDE DEF g, T
    <3> QED BY <2>1, SaidOfEach
  <2> QED BY <2>2
<1>3. IsFiniteSet({t.family : t \in B}) /\ {t.family : t \in A} \subseteq {t.family : t \in B}
  <2> DEFINE g == [t \in B |-> t.family]
             T == {t.family : t \in B}
  <2>1. DOMAIN g = B /\ T = {g[t] : t \in B}
      OBVIOUS
  <2>2. IsFiniteSet(T)
    <3> HIDE DEF g, T
    <3> QED BY <2>1, SaidOfEach
  <2> QED BY <2>2
<1>4. IsFiniteSet({t.seed : t \in B}) /\ {t.seed : t \in A} \subseteq {t.seed : t \in B}
  <2> DEFINE g == [t \in B |-> t.seed]
             T == {t.seed : t \in B}
  <2>1. DOMAIN g = B /\ T = {g[t] : t \in B}
      OBVIOUS
  <2>2. IsFiniteSet(T)
    <3> HIDE DEF g, T
    <3> QED BY <2>1, SaidOfEach
  <2> QED BY <2>2
<1>5. /\ Cardinality({t.receiver : t \in A}) >= TrialProtocol.receivers
      /\ Cardinality({t.family : t \in A}) >= TrialProtocol.families
      /\ Cardinality({t.seed : t \in A}) >= TrialProtocol.seeds
      /\ TrialProtocol.unseen => \E t \in A : t.unseen
    BY PromotionCounts DEF Promotion!Covers
<1>6. /\ TrialProtocol.receivers \in Nat /\ TrialProtocol.families \in Nat
      /\ TrialProtocol.seeds \in Nat
    BY Instances DEF Promotion!PromotionAssumption
<1>7. Cardinality({t.receiver : t \in B}) >= TrialProtocol.receivers
  <2> DEFINE a == Cardinality({t.receiver : t \in A})
             b == Cardinality({t.receiver : t \in B})
  <2>1. a \in Nat /\ b \in Nat /\ a <= b
      BY <1>1, <1>2
  <2>2. a >= TrialProtocol.receivers
      BY <1>5
  <2> HIDE DEF a, b
  <2>3. b >= TrialProtocol.receivers
      BY <2>1, <2>2, <1>6
  <2> QED BY <2>3 DEF b
<1>8. Cardinality({t.family : t \in B}) >= TrialProtocol.families
  <2> DEFINE a == Cardinality({t.family : t \in A})
             b == Cardinality({t.family : t \in B})
  <2>1. a \in Nat /\ b \in Nat /\ a <= b
      BY <1>1, <1>3
  <2>2. a >= TrialProtocol.families
      BY <1>5
  <2> HIDE DEF a, b
  <2>3. b >= TrialProtocol.families
      BY <2>1, <2>2, <1>6
  <2> QED BY <2>3 DEF b
<1>9. Cardinality({t.seed : t \in B}) >= TrialProtocol.seeds
  <2> DEFINE a == Cardinality({t.seed : t \in A})
             b == Cardinality({t.seed : t \in B})
  <2>1. a \in Nat /\ b \in Nat /\ a <= b
      BY <1>1, <1>4
  <2>2. a >= TrialProtocol.seeds
      BY <1>5
  <2> HIDE DEF a, b
  <2>3. b >= TrialProtocol.seeds
      BY <2>1, <2>2, <1>6
  <2> QED BY <2>3 DEF b
<1>10. TrialProtocol.unseen => \E t \in B : t.unseen
    BY <1>5
<1> QED BY <1>7, <1>8, <1>9, <1>10, PromotionCounts DEF Promotion!Covers

\* A trial that fails admits no capability.
LEMMA FailureAdmitsNone ==
    ASSUME NEW ts \in SUBSET TrialRecords, NEW t \in TrialRecords, t \notin ts,
           ~Promotion!Passes(t), NEW c \in Promotion!Admitted(ts \union {t})
    PROVE  c \in Promotion!Admitted(ts)
<1> DEFINE group == {u \in ts : u.capability = c}
           more == {u \in ts \union {t} : u.capability = c}
           passed == {u \in group : Promotion!Passes(u)}
           Of(X, r) == {u \in X : u.receiver = r}
           In(X, f) == {u \in X : u.family = f}
<1>1. /\ c \notin Calibration
      /\ Promotion!Covers(more) /\ Promotion!Covers({u \in more : Promotion!Passes(u)})
      /\ \A r \in {u.receiver : u \in more} : Promotion!ConfidentIn(Of(more, r))
      /\ \A f \in {u.family : u \in more} : Promotion!ConfidentIn(In(more, f))
      /\ Promotion!ConfidentIn(more)
    BY DEF Promotion!Admitted, Promotion!HeldOut, Promotion!AdmittedBy
<1>2. {u \in more : Promotion!Passes(u)} = passed
    OBVIOUS
<1>3. Promotion!Covers(passed)
    BY <1>1, <1>2
<1>4. \E u \in ts : u.capability = c
  <2>1. PICK u \in ts \union {t} : u.capability = c /\ Promotion!Passes(u)
    <3>1. IsFiniteSet(ts \union {t})
        BY Instances, FS_Subset
    <3> QED BY <3>1, AdmittedWasCarried
  <2> QED BY <2>1
<1>5. Promotion!Covers(group)
  <2>1. IsFiniteSet(group) /\ passed \subseteq group
    <3>1. group \in SUBSET TrialRecords
        OBVIOUS
    <3> QED BY <3>1, Instances, FS_Subset
  <2> HIDE DEF group, passed
  <2> QED BY <1>3, <2>1, MoreCovers
<1>6. Promotion!ConfidentIn(group)
  <2>1. CASE t.capability = c
    <3>1. more = group \union {t} /\ group \in SUBSET TrialRecords /\ group # {} /\ t \notin group
        BY <2>1, <1>4
    <3> HIDE DEF more, group
    <3> QED BY <3>1, <1>1, FailureShakes
  <2>2. CASE t.capability # c
    <3>1. more = group
        BY <2>2
    <3> QED BY <3>1, <1>1
  <2> QED BY <2>1, <2>2
<1>7. ASSUME NEW r \in {u.receiver : u \in group} PROVE Promotion!ConfidentIn(Of(group, r))
  <2>1. Promotion!ConfidentIn(Of(more, r))
      BY <1>1
  <2>2. CASE t.capability = c /\ t.receiver = r
    <3>1. /\ Of(more, r) = Of(group, r) \union {t} /\ Of(group, r) \in SUBSET TrialRecords
          /\ Of(group, r) # {} /\ t \notin Of(group, r)
        BY <2>2
    <3> HIDE DEF more, group, Of
    <3> QED BY <3>1, <2>1, FailureShakes
  <2>3. CASE ~(t.capability = c /\ t.receiver = r)
    <3>1. Of(more, r) = Of(group, r)
        BY <2>3
    <3> QED BY <3>1, <2>1
  <2> QED BY <2>2, <2>3
<1>8. ASSUME NEW f \in {u.family : u \in group} PROVE Promotion!ConfidentIn(In(group, f))
  <2>1. Promotion!ConfidentIn(In(more, f))
      BY <1>1
  <2>2. CASE t.capability = c /\ t.family = f
    <3>1. /\ In(more, f) = In(group, f) \union {t} /\ In(group, f) \in SUBSET TrialRecords
          /\ In(group, f) # {} /\ t \notin In(group, f)
        BY <2>2
    <3> HIDE DEF more, group, In
    <3> QED BY <3>1, <2>1, FailureShakes
  <2>3. CASE ~(t.capability = c /\ t.family = f)
    <3>1. In(more, f) = In(group, f)
        BY <2>3
    <3> QED BY <3>1, <2>1
  <2> QED BY <2>2, <2>3
<1>9. c \in Promotion!HeldOut(ts)
    BY <1>1, <1>4 DEF Promotion!HeldOut
<1>10. Promotion!AdmittedBy(ts, c)
    BY <1>3, <1>5, <1>6, <1>7, <1>8 DEF Promotion!AdmittedBy
<1> QED BY <1>9, <1>10 DEF Promotion!Admitted

\* Where each group has one lineage, any observation of it tells which.
LEMMA LineageOfGroup ==
    ASSUME NEW os, Promotion!LineageFits(os), NEW o \in os
    PROVE  /\ Promotion!Randomization(os, o.group) = o.randomization
           /\ Promotion!Replicate(os, o.group) = o.replicate
<1> DEFINE p == CHOOSE x \in Promotion!OfGroup(os, o.group) : TRUE
<1>1. o \in Promotion!OfGroup(os, o.group)
    BY DEF Promotion!OfGroup
<1>2. p \in Promotion!OfGroup(os, o.group)
    BY <1>1
<1>3. p \in os /\ p.group = o.group
  <2> HIDE DEF p
  <2> QED BY <1>2 DEF Promotion!OfGroup
<1>4. p.randomization = o.randomization /\ p.replicate = o.replicate
  <2> HIDE DEF p
  <2> QED BY <1>3 DEF Promotion!LineageFits
<1> QED BY <1>4 DEF Promotion!Randomization, Promotion!Replicate

\* Another observation of a randomization that was used makes no group
\* independent.
LEMMA RepeatsAddNothing ==
    ASSUME NEW os \in SUBSET Lineages, NEW o \in Lineages, NEW more, more = os \union {o},
           Promotion!LineageFits(os), o.randomization \in {p.randomization : p \in os},
           Promotion!IndependentEnough(more)
    PROVE  Promotion!IndependentEnough(os)
<1>1. Promotion!LineageFits(more) /\ Promotion!LineageVerified(more)
    BY DEF Promotion!IndependentEnough
<1>2. o.group \in Promotion!Groups(os)
  <2> SUFFICES ASSUME o.group \notin Promotion!Groups(os) PROVE FALSE
      OBVIOUS
  <2>1. PICK p \in os : p.randomization = o.randomization
      OBVIOUS
  <2>2. p \in more /\ o \in more /\ p.group # o.group
      BY DEF Promotion!Groups
  <2>3. Promotion!Randomization(more, p.group) = Promotion!Randomization(more, o.group)
      BY <1>1, <2>1, <2>2, LineageOfGroup
  <2> DEFINE G == Promotion!Groups(more)
             r == [g \in G |-> Promotion!Randomization(more, g)]
             T == {Promotion!Randomization(more, g) : g \in G}
             name == [x \in more |-> x.group]
  <2>4. IsFiniteSet(G)
    <3>1. IsFiniteSet(more)
        BY Instances, FS_Subset
    <3>2. DOMAIN name = more /\ G = {name[x] : x \in more}
        BY DEF Promotion!Groups
    <3> HIDE DEF name, G
    <3> QED BY <3>1, <3>2, SaidOfEach
  <2>5. Cardinality(T) = Cardinality(G)
      BY <1>1, PromotionCounts DEF Promotion!LineageVerified
  <2>6. DOMAIN r = G /\ T = {r[g] : g \in G}
      OBVIOUS
  <2>7. \A g, h \in G : r[g] = r[h] => g = h
    <3> HIDE DEF r, T, G
    <3> QED BY <2>4, <2>5, <2>6, SaidOfEach
  <2>8. p.group \in G /\ o.group \in G
      BY <2>2 DEF Promotion!Groups
  <2>9. r[p.group] = r[o.group]
      BY <2>3, <2>8
  <2> HIDE DEF r, G
  <2> QED BY <2>2, <2>7, <2>8, <2>9
<1>3. Promotion!Groups(more) = Promotion!Groups(os)
    BY <1>2 DEF Promotion!Groups
<1>4. ASSUME NEW g \in Promotion!Groups(os)
      PROVE  /\ Promotion!Randomization(more, g) = Promotion!Randomization(os, g)
             /\ Promotion!Replicate(more, g) = Promotion!Replicate(os, g)
  <2>1. PICK p \in os : p.group = g
      BY DEF Promotion!Groups
  <2>2. p \in more
      OBVIOUS
  <2> QED BY <1>1, <2>1, <2>2, LineageOfGroup
<1> DEFINE G == Promotion!Groups(os)
<1>5. {Promotion!Randomization(more, g) : g \in G} = {Promotion!Randomization(os, g) : g \in G}
      /\ {Promotion!Replicate(more, g) : g \in G} = {Promotion!Replicate(os, g) : g \in G}
    BY <1>4
<1>6. Promotion!LineageVerified(os)
    BY <1>1, <1>3, <1>5 DEF Promotion!LineageVerified
<1>7. ASSUME NEW g \in G PROVE Promotion!Share(more, g) = Promotion!Share(os, g)
  <2>1. {h \in G : Promotion!Randomization(more, h) = Promotion!Randomization(more, g)}
            = {h \in G : Promotion!Randomization(os, h) = Promotion!Randomization(os, g)}
      BY <1>4
  <2> QED BY <1>3, <2>1 DEF Promotion!Share
<1>8. [g \in Promotion!Groups(more) |-> Promotion!Share(more, g)]
          = [g \in Promotion!Groups(os) |-> Promotion!Share(os, g)]
    BY <1>3, <1>7
<1>9. Promotion!EffectiveGroups(more) = Promotion!EffectiveGroups(os)
    BY <1>8 DEF Promotion!EffectiveGroups
<1> QED BY <1>3, <1>6, <1>9 DEF Promotion!IndependentEnough

LEMMA PromotionNeverHelped ==
    ASSUME PromotionInv, [Next]_vars PROVE Promotion!FailureNeverHelps
<1>1. trials \in SUBSET TrialRecords /\ observations \in SUBSET Lineages
    BY DEF PromotionInv
<1>2. CASE trials' = trials /\ observations' = observations
    BY <1>2 DEF Promotion!FailureNeverHelps
<1>3. ASSUME NEW t \in TrialRecords, Promotion!RunTrial(t) PROVE Promotion!FailureNeverHelps
  <2>1. t \notin trials /\ trials' = trials \union {t} /\ observations' = observations
      BY <1>3 DEF Promotion!RunTrial
  <2>2. ~Promotion!Passes(t) => Promotion!Admitted(trials') \subseteq Promotion!Admitted(trials)
      BY <1>1, <2>1, FailureAdmitsNone
  <2> QED BY <2>1, <2>2 DEF Promotion!FailureNeverHelps
<1>4. ASSUME NEW o \in Lineages, Promotion!Observe(o) PROVE Promotion!FailureNeverHelps
  <2>1. observations' = observations \union {o} /\ trials' = trials
      BY <1>4 DEF Promotion!Observe, Promotion!promoting
  <2>2. ASSUME Promotion!LineageFits(observations),
               o.randomization \in {p.randomization : p \in observations},
               Promotion!IndependentEnough(observations')
        PROVE  Promotion!IndependentEnough(observations)
      BY <1>1, <2>1, <2>2, RepeatsAddNothing
  <2> QED BY <2>1, <2>2 DEF Promotion!FailureNeverHelps
<1>5. CASE Promotion!PromotionNext
  <2>1. ASSUME NEW e \in Runs, Promotion!ShadowRun(e)
        PROVE  trials' = trials /\ observations' = observations
      BY <2>1 DEF Promotion!ShadowRun
  <2>2. ASSUME NEW s, NEW p, NEW r, Promotion!Ask(s, p, r)
        PROVE  trials' = trials /\ observations' = observations
      BY <2>2 DEF Promotion!Ask
  <2> QED BY <1>2, <1>3, <1>5, <2>1, <2>2 DEF Promotion!PromotionNext
<1> QED BY <1>2, <1>4, <1>5 DEF Next, vars, outsiders, promoting

\* A session never goes back or branches off, no installed record is replaced,
\* more evidence is not held against a placement, and evidence against a
\* capability never helps it (persist_receipt_under_root,
\* record_from_payload_path_at_root, evaluate_fact_matrix, measure_universality_n,
\* estimate_aperture_independence).
THEOREM NothingIsTakenBack == Spec => NothingTakenBack
<1> DEFINE I == /\ LearningInv /\ PromotionInv
                /\ part = "matrix" => MatrixInv
<1>1. Init => I
  <2> SUFFICES ASSUME Init PROVE I
      OBVIOUS
  <2>1. LearningInv /\ PromotionInv
      BY LearningStarts, PromotionStarts
  <2>2. part = "matrix" => MatrixInv
      BY MatrixStarts DEF Init
  <2> QED BY <2>1, <2>2
<1>2. ASSUME I, [Next]_vars
      PROVE  /\ I'
             /\ PointerAdvances /\ RecordsStay
             /\ part = "matrix" => Residency!EvidenceMovesForward
             /\ Promotion!FailureNeverHelps
  <2>1. LearningInv' /\ PointerAdvances /\ RecordsStay
      BY <1>2, LearningStep
  <2>2. PromotionInv' /\ Promotion!FailureNeverHelps
      BY <1>2, PromotionStep, PromotionNeverHelped
  <2>3. ASSUME part' = "matrix" PROVE MatrixInv' /\ Residency!EvidenceMovesForward
    <3>1. part = "matrix" /\ MatrixInv
        BY <1>2, <2>3 DEF Next, vars
    <3>2. CASE Residency!MatrixNext
        BY <3>1, <3>2, MatrixStep
    <3>3. CASE facts' = facts
      <4>1. MatrixInv'
          BY <3>1, <3>3 DEF MatrixInv, MatrixTyped
      <4>2. Residency!EvidenceMovesForward
          BY <3>3 DEF Residency!EvidenceMovesForward
      <4> QED BY <4>1, <4>2
    <3> QED BY <1>2, <3>1, <3>2, <3>3 DEF Next, vars, outsiders
  <2>4. part' = part
      BY <1>2 DEF Next, vars
  <2> QED BY <2>1, <2>2, <2>3, <2>4
<1> HIDE DEF I
<1>3. I /\ [Next]_vars => I'
    BY <1>2
<1>4. I /\ [Next]_vars =>
          [/\ PointerAdvances /\ RecordsStay
           /\ part = "matrix" => Residency!EvidenceMovesForward
           /\ Promotion!FailureNeverHelps]_vars
    BY <1>2
<1> QED BY <1>1, <1>3, <1>4, PTL DEF Spec, NothingTakenBack
=============================================================================
