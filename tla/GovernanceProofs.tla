--------------------------- MODULE GovernanceProofs ---------------------------
(***************************************************************************)
(* Proofs about the promotion of candidates: that a selection leaves out    *)
(* only what is dominated by what it selects, whatever set of candidates is *)
(* offered in whatever order, and that what is promoted has earned it.      *)
(***************************************************************************)
EXTENDS MCGovernance, FiniteSetTheorems, WellFoundedInduction, TLAPS

-----------------------------------------------------------------------------
(* Numbers.  That a set of numbers has a least one follows from the finite    *)
(* subsets of Nat being well founded under inclusion.                        *)

LEMMA LeastNumber ==
    ASSUME NEW S \in SUBSET Nat, S # {}
    PROVE  \E n \in S : \A m \in S : n <= m
<1> DEFINE T == {0 .. n : n \in S}
           R0 == StrictSubsetOrdering(Nat)
<1>1. T \subseteq FiniteSubsetsOf(Nat) /\ T # {}
  <2>1. ASSUME NEW n \in S PROVE 0 .. n \in FiniteSubsetsOf(Nat)
    <3>1. IsFiniteSet(0 .. n) /\ 0 .. n \in SUBSET Nat
        BY FS_Interval
    <3> QED BY <3>1 DEF FiniteSubsetsOf
  <2> QED BY <2>1
<1>2. IsWellFoundedOn(R0, FiniteSubsetsOf(Nat))
    BY FS_StrictSubsetOrderingWellFounded
<1> HIDE DEF R0
<1>3. PICK x \in T : \A y \in T : <<y, x>> \notin R0
  <2> HIDE DEF T
  <2> QED BY <1>1, <1>2, WFMin
<1>4. PICK n \in S : x = 0 .. n
    BY <1>3
<1>5. ASSUME NEW m \in S, m < n PROVE FALSE
  <2>1. 0 .. m \subseteq 0 .. n /\ n \in 0 .. n /\ n \notin 0 .. m
      BY <1>5
  <2>2. 0 .. m \in SUBSET Nat /\ 0 .. n \in SUBSET Nat
      OBVIOUS
  <2>3. <<0 .. m, 0 .. n>> \in R0
      BY <2>1, <2>2 DEF R0, StrictSubsetOrdering
  <2> QED BY <2>3, <1>3, <1>4
<1> QED BY <1>5

-----------------------------------------------------------------------------
(* The selection. *)

\* To dominate is a strict order.
LEMMA DominationTransitive ==
    ASSUME NEW c \in Selection!Candidate, NEW d \in Selection!Candidate,
           NEW e \in Selection!Candidate,
           Selection!Dominates(c, d), Selection!Dominates(d, e)
    PROVE  Selection!Dominates(c, e)
<1>1. \A m \in Metrics : c.gain[m] \in Int /\ d.gain[m] \in Int /\ e.gain[m] \in Int
    BY Instances DEF Selection!Candidate, Selection!ValuesAssumption
<1>2. \A m \in Metrics : c.gain[m] >= e.gain[m]
    BY <1>1 DEF Selection!Dominates
<1>3. PICK m \in Metrics : c.gain[m] > d.gain[m]
    BY DEF Selection!Dominates
<1>4. c.gain[m] > e.gain[m]
    BY <1>1, <1>3 DEF Selection!Dominates
<1> QED BY <1>2, <1>4 DEF Selection!Dominates

LEMMA DominationStrict ==
    ASSUME NEW c \in Selection!Candidate
    PROVE  ~Selection!Dominates(c, c)
<1> SUFFICES ASSUME NEW m \in Metrics, c.gain[m] > c.gain[m] PROVE FALSE
    BY DEF Selection!Dominates
<1>1. c.gain[m] \in Int
    BY Instances DEF Selection!Candidate, Selection!ValuesAssumption
<1> QED BY <1>1

\* Ids tell the candidates apart, so the front is what nothing dominates.
LEMMA FrontMembers ==
    ASSUME NEW S, S \subseteq Selection!Candidate,
           \A c, d \in S : c.id = d.id => c = d,
           NEW c \in S
    PROVE  c \in Selection!Front(S) <=> \A d \in S : ~Selection!Dominates(d, c)
BY DominationStrict DEF Selection!Front

SelectionInv == Selection!TypeOK /\ Selection!FrontCovers

\* A candidate more: what it dominates is covered by it, since nothing that
\* dominates it can be there without dominating that as well.
LEMMA OfferCovers ==
    ASSUME SelectionInv, NEW c \in Selection!Candidate, Selection!Offer(c)
    PROVE  SelectionInv' /\ Selection!LeftOutStaysOut
<1> DEFINE front == Selection!Front(pool)
<1> DEFINE next == Selection!Front(pool')
<1>1. pool' = pool \union {c} /\ c \notin pool /\ pool' \subseteq Selection!Candidate
    BY DEF Selection!Offer, SelectionInv, Selection!TypeOK
<1>2. /\ \A d, e \in pool : d.id = e.id => d = e
      /\ \A d, e \in pool' : d.id = e.id => d = e
    BY <1>1 DEF Selection!Offer, SelectionInv, Selection!TypeOK
<1>3. /\ \A x \in pool : x \in front <=> \A d \in pool : ~Selection!Dominates(d, x)
      /\ \A x \in pool' : x \in next <=> \A d \in pool' : ~Selection!Dominates(d, x)
      /\ front \subseteq pool
    BY <1>1, <1>2, FrontMembers DEF Selection!Front
<1>4. \A x \in pool : x \in front \/ \E d \in front : Selection!Dominates(d, x)
    BY DEF SelectionInv, Selection!FrontCovers
<1> HIDE DEF front, next
<1>5. ASSUME NEW f \in front, Selection!Dominates(c, f) PROVE c \in next
  <2> SUFFICES ASSUME NEW d \in pool', Selection!Dominates(d, c) PROVE FALSE
      BY <1>1, <1>3
  <2>1. d \in pool
      BY <1>1, DominationStrict
  <2>2. Selection!Dominates(d, f)
      BY <1>1, <1>3, <1>5, DominationTransitive
  <2> QED BY <1>3, <2>1, <2>2
<1>6. ASSUME NEW x \in pool'
      PROVE  x \in next \/ \E d \in next : Selection!Dominates(d, x)
  <2>1. CASE x \in front
    <3>1. CASE Selection!Dominates(c, x)
        BY <1>5, <2>1, <3>1
    <3>2. CASE ~Selection!Dominates(c, x)
        BY <1>1, <1>3, <2>1, <3>2
    <3> QED BY <3>1, <3>2
  <2>2. CASE x # c /\ x \notin front
    <3>1. PICK f \in front : Selection!Dominates(f, x)
        BY <1>1, <1>4, <2>2
    <3>2. CASE Selection!Dominates(c, f)
        BY <1>1, <1>3, <1>5, <3>1, <3>2, DominationTransitive
    <3>3. CASE ~Selection!Dominates(c, f)
        BY <1>1, <1>3, <3>1, <3>3
    <3> QED BY <3>2, <3>3
  <2>3. CASE x = c /\ c \notin next
    <3>1. PICK y \in pool : Selection!Dominates(y, c)
        BY <1>1, <1>3, <2>3, DominationStrict
    <3>2. PICK f \in front : Selection!Dominates(f, c)
        BY <1>1, <1>3, <1>4, <3>1, DominationTransitive
    <3>3. ~Selection!Dominates(c, f)
        BY <1>1, <1>3, <3>2, DominationTransitive, DominationStrict
    <3> QED BY <1>1, <1>3, <2>3, <3>2, <3>3
  <2> QED BY <2>1, <2>2, <2>3
<1>7. pool \ front \subseteq pool' \ next
    BY <1>1, <1>3
<1>8. Selection!TypeOK'
    BY <1>1, <1>2 DEF Selection!TypeOK
<1> USE DEF front, next
<1> QED BY <1>6, <1>7, <1>8
       DEF SelectionInv, Selection!FrontCovers, Selection!LeftOutStaysOut

LEMMA SelectionStep ==
    ASSUME SelectionInv, [Promote \/ Select \/ Import]_parts
    PROVE  SelectionInv' /\ [Selection!LeftOutStaysOut]_pool
<1>1. CASE UNCHANGED pool
    BY <1>1 DEF SelectionInv, Selection!TypeOK, Selection!FrontCovers
<1>2. CASE Select
    BY <1>2, OfferCovers DEF Select, Selection!Next
<1> QED BY <1>1, <1>2 DEF Promote, Import, parts

\* Whatever candidates are offered in whatever order, one that is left out is
\* dominated by one that is selected, and is never selected later
\* (deterministic_pareto_front).
THEOREM SelectionIsSound == PartsSpec => SelectionSound
<1>1. PartsInit => SelectionInv
    BY DEF PartsInit, Selection!Init, SelectionInv, Selection!TypeOK, Selection!FrontCovers
<1>2. SelectionInv /\ [Promote \/ Select \/ Import]_parts
          => SelectionInv' /\ [Selection!LeftOutStaysOut]_pool
    BY SelectionStep
<1>3. SelectionInv /\ SelectionInv' /\ [Selection!LeftOutStaysOut]_pool
          => [Selection!TypeOK' /\ Selection!FrontCovers' /\ Selection!LeftOutStaysOut]_pool
    BY DEF SelectionInv
<1> QED BY <1>1, <1>2, <1>3, PTL DEF PartsSpec, SelectionSound

-----------------------------------------------------------------------------
(* What the witnesses of the chain always satisfy. *)

\* The later a stage, the more groups it asks for: a stage that asks for fewer
\* than an earlier one has a least one like it, and there is none.
LEMMA StagesAskMore ==
    ASSUME NEW i \in DOMAIN Stages, NEW j \in DOMAIN Stages, i <= j
    PROVE  /\ Stages[i].groups \in Nat /\ Stages[j].groups \in Nat
           /\ Stages[i].groups <= Stages[j].groups
<1>1. /\ DOMAIN Stages = 1 .. Len(Stages) /\ Len(Stages) \in Nat
      /\ \A k \in DOMAIN Stages : Stages[k].groups \in Nat
      /\ \A k \in 1 .. Len(Stages) - 1 : Stages[k].groups <= Stages[k + 1].groups
  <2> DEFINE S == [exposure : Nat, groups : Nat]
  <2>1. Stages \in Seq(S) /\ \A x \in S : x.groups \in Nat
      BY Instances DEF StagesAssumption
  <2>2. \A k \in 1 .. Len(Stages) - 1 : Stages[k].groups <= Stages[k + 1].groups
      BY Instances DEF StagesAssumption
  <2> HIDE DEF S
  <2>3. \A k \in DOMAIN Stages : Stages[k] \in S
      BY <2>1
  <2> QED BY <2>1, <2>2, <2>3
<1> DEFINE Wrong == {k \in Nat : i + k \in DOMAIN Stages /\ Stages[i + k].groups < Stages[i].groups}
<1>2. CASE Wrong = {}
  <2>1. j - i \in Nat /\ i + (j - i) = j
      BY <1>1
  <2> QED BY <1>1, <1>2, <2>1
<1>3. CASE Wrong # {}
  <2>1. PICK n \in Wrong : \A k \in Wrong : n <= k
      BY <1>3, LeastNumber
  <2>2. n \in Nat /\ n # 0
      BY <1>1, <2>1
  <2>3. n - 1 \in Nat /\ i + (n - 1) \in 1 .. Len(Stages) - 1 /\ (i + (n - 1)) + 1 = i + n
      BY <1>1, <2>1, <2>2
  <2>4. Stages[i + (n - 1)].groups >= Stages[i].groups
      BY <1>1, <2>1, <2>2, <2>3
  <2>5. Stages[i + (n - 1)].groups <= Stages[i + n].groups
      BY <1>1, <2>3
  <2> QED BY <1>1, <2>1, <2>3, <2>4, <2>5
<1> QED BY <1>2, <1>3

\* Stage by stage, a report that holds at one holds at the earlier ones.
HoldsAt(i, r) ==
    \A m \in Metrics :
        /\ Fulfils(m, r.estimates[m].cand, Canary.multiplier)
        /\ Observed(m, r, Stages[i].groups)
        /\ Worst(m, r, Canary.multiplier) >= -Canary.regression[m]

LEMMA HoldsEarlier ==
    ASSUME NEW d \in Reports, NEW i \in DOMAIN Stages, NEW j \in DOMAIN Stages, i <= j,
           HoldsAt(j, Content[d])
    PROVE  HoldsAt(i, Content[d])
<1>1. /\ Stages[i].groups \in Nat /\ Stages[j].groups \in Nat
      /\ Stages[i].groups <= Stages[j].groups
    BY StagesAskMore
<1>2. \A m \in Metrics : Content[d].estimates[m].groups \in Nat
    BY Instances DEF ReportsAssumption
<1> QED BY <1>1, <1>2 DEF HoldsAt, Observed

\* How many stages a canary has passed, and the reports that would pass one.
Passed(c) == IF c.phase = "validated" THEN c.stage ELSE c.stage - 1
Passing(c, i) == {r \in c.reports : HoldsAt(i, Content[r])}

\* Of a canary: its gate advanced, its reports came after the gate's, each with
\* evidence and a window of its own, none of them broke an invariant unless it
\* was rolled back, and each stage that was passed was passed by a report that
\* passes the earlier ones as well.
CanaryFollows ==
    canary # None =>
        LET offline == Content[canary.gate.report] IN
        /\ canary.gate.disposition = "advance"
        /\ canary.end \in Nat /\ offline.end <= canary.end
        /\ \A r \in canary.reports :
               /\ Content[r].start > offline.end /\ Content[r].end <= canary.end
               /\ Content[r].evidence \intersect offline.evidence = {}
        /\ \A r, s \in canary.reports : r # s =>
               /\ Content[r].evidence \intersect Content[s].evidence = {}
               /\ Content[r].end < Content[s].start \/ Content[s].end < Content[r].start

CanaryEarns ==
    canary # None =>
        /\ IsFiniteSet(canary.reports)
        /\ canary.phase = "validated" => canary.stage = Len(Stages)
        /\ canary.phase # "rollback" => \A r \in canary.reports : \A m \in Metrics :
               ~Violates(m, Content[r].estimates[m].cand, Canary.multiplier)
        /\ \A i \in DOMAIN Stages : i <= Passed(canary) =>
               Cardinality(Passing(canary, i)) >= Passed(canary) - i + 1

\* Of a trajectory: each report came after those before it, with evidence of
\* its own.
TrajectoryFollows ==
    \A i, j \in DOMAIN trajectory : i < j =>
        /\ Content[trajectory[i]].end < Content[trajectory[j]].start
        /\ Content[trajectory[i]].evidence \intersect Content[trajectory[j]].evidence = {}

ChainInv == TypeOK /\ TrajectoryFollows /\ CanaryFollows /\ CanaryEarns

LEMMA TrajectoryLonger ==
    ASSUME ChainInv, NEW r \in Reports, AppendReport(r)
    PROVE  ChainInv'
<1>1. /\ trajectory \in Seq(Reports) /\ trajectory # <<>> /\ trajectory' = Append(trajectory, r)
      /\ Appends(Resolved(trajectory), Content[r])
    BY DEF ChainInv, TypeOK, AppendReport
<1> DEFINE n == Len(trajectory)
<1>2. /\ n \in Nat /\ n >= 1 /\ DOMAIN trajectory = 1 .. n /\ DOMAIN trajectory' = 1 .. n + 1
      /\ trajectory'[n + 1] = r /\ trajectory' \in Seq(Reports)
      /\ \A i \in 1 .. n : trajectory'[i] = trajectory[i] /\ trajectory[i] \in Reports
    BY <1>1
<1>3. /\ \A i \in 1 .. n : Content[trajectory[i]].evidence \intersect Content[r].evidence = {}
      /\ Content[r].start > Content[trajectory[n]].end
  <2> DEFINE t == Resolved(trajectory)
             Read == {Content[d] : d \in Reports}
  <2>1. /\ t \in Seq(Read) /\ Len(t) = n /\ DOMAIN t = 1 .. n
        /\ \A i \in 1 .. n : t[i] = Content[trajectory[i]]
      BY <1>2 DEF Resolved
  <2>2. Last(t) = Content[trajectory[n]]
      BY <1>2, <2>1 DEF Last
  <2> HIDE DEF t
  <2>3. EvidenceOf(t) \intersect Content[r].evidence = {} /\ Content[r].start > Last(t).end
      BY <1>1 DEF Appends, t
  <2>4. \A i \in 1 .. n : Content[trajectory[i]].evidence \subseteq EvidenceOf(t)
      BY <2>1 DEF EvidenceOf
  <2> QED BY <2>2, <2>3, <2>4
<1> HIDE DEF n
<1>4. ASSUME NEW i \in 1 .. n
      PROVE  Content[trajectory[i]].end < Content[r].start
  <2>1. \A d \in Reports : /\ Content[d].start \in Nat /\ Content[d].end \in Nat
                           /\ Content[d].start <= Content[d].end
      BY Instances DEF ReportsAssumption
  <2>2. i = n \/ Content[trajectory[i]].end < Content[trajectory[n]].start
      BY <1>2 DEF ChainInv, TrajectoryFollows
  <2> QED BY <1>2, <1>3, <2>1, <2>2
<1>5. TrajectoryFollows'
  <2> SUFFICES ASSUME NEW i \in 1 .. n + 1, NEW j \in 1 .. n + 1, i < j
               PROVE  /\ Content[trajectory'[i]].end < Content[trajectory'[j]].start
                      /\ Content[trajectory'[i]].evidence
                             \intersect Content[trajectory'[j]].evidence = {}
      BY <1>2 DEF TrajectoryFollows
  <2>1. i \in 1 .. n /\ trajectory'[i] = trajectory[i]
      BY <1>2
  <2>2. CASE j = n + 1
      BY <1>2, <1>3, <1>4, <2>1, <2>2
  <2>3. CASE j # n + 1
      BY <1>2, <2>1, <2>3 DEF ChainInv, TrajectoryFollows
  <2> QED BY <2>2, <2>3
<1> QED BY <1>2, <1>5
        DEF ChainInv, TypeOK, AppendReport, CanaryFollows, CanaryEarns, Passing, Passed

LEMMA DecisionKeeps ==
    ASSUME ChainInv, NEW r \in Reports, StartTrajectory(r) \/ Decide(r)
    PROVE  ChainInv'
<1>1. TypeOK'
  <2>1. CASE StartTrajectory(r)
    <3>1. trajectory' \in Seq(Reports)
        BY <2>1 DEF StartTrajectory, Start
    <3> QED BY <2>1, <3>1 DEF ChainInv, TypeOK, StartTrajectory
  <2>2. CASE Decide(r)
    <3>1. gate' \in Decisions
        BY <2>2 DEF Decide, Decisions
    <3> QED BY <2>2, <3>1 DEF ChainInv, TypeOK, Decide
  <2> QED BY <2>1, <2>2
<1>2. TrajectoryFollows'
    BY DEF ChainInv, TypeOK, TrajectoryFollows, StartTrajectory, Decide, Start
<1> QED BY <1>1, <1>2
        DEF ChainInv, StartTrajectory, Decide, CanaryFollows, CanaryEarns, Passing, Passed

LEMMA CanaryBegins ==
    ASSUME ChainInv, StartCanary
    PROVE  ChainInv'
<1>1. PICK d \in Reports : gate = Decision(d)
    BY DEF ChainInv, TypeOK, StartCanary, Decisions
<1>2. gate.report \in Reports
    BY <1>1 DEF Decision
<1>3. canary' = Fresh(gate) /\ canary'.gate = gate /\ canary'.reports = {}
      /\ canary'.phase = "awaiting" /\ canary'.stage = 1
      /\ canary'.evidence = Content[gate.report].evidence
      /\ canary'.end = Content[gate.report].end
    BY DEF StartCanary, Fresh
<1>4. 1 \in DOMAIN Stages /\ DOMAIN Stages = 1 .. Len(Stages) /\ Len(Stages) \in Nat
    BY Instances DEF StagesAssumption
<1>5. TypeOK'
  <2>1. gate \in Decisions /\ UNCHANGED <<trajectory, gate>>
      BY DEF ChainInv, TypeOK, StartCanary
  <2> QED BY <1>3, <1>4, <2>1 DEF ChainInv, TypeOK, Phases
<1>6. CanaryFollows'
    BY <1>2, <1>3, Instances DEF ReportsAssumption, CanaryFollows, StartCanary
<1>7. CanaryEarns'
    BY <1>3, <1>4, FS_EmptySet DEF CanaryEarns, Passed
<1>8. TrajectoryFollows'
    BY DEF ChainInv, TrajectoryFollows, StartCanary
<1> QED BY <1>5, <1>6, <1>7, <1>8 DEF ChainInv

\* A stage is evaluated: what holds of the canary and of the new report holds of
\* both.
LEMMA EvaluationFollows ==
    ASSUME ChainInv, NEW r \in Reports, EvaluateStage(r)
    PROVE  CanaryFollows'
<1>1. /\ canary # None /\ Belongs(canary, r) /\ canary' = Evaluated(canary, r)
      /\ canary.gate \in Decisions
      /\ canary.evidence = Content[canary.gate.report].evidence
             \union UNION {Content[s].evidence : s \in canary.reports}
      /\ canary.reports \subseteq Reports
    BY DEF EvaluateStage, ChainInv, TypeOK
<1>2. /\ canary'.gate = canary.gate /\ canary'.reports = canary.reports \union {r}
      /\ canary'.end = Content[r].end
    BY <1>1 DEF Evaluated
<1> DEFINE offline == Content[canary.gate.report]
<1>3. /\ canary.gate.disposition = "advance" /\ canary.end \in Nat /\ offline.end <= canary.end
      /\ \A s \in canary.reports :
             /\ Content[s].start > offline.end /\ Content[s].end <= canary.end
             /\ Content[s].evidence \intersect offline.evidence = {}
      /\ \A s, t \in canary.reports : s # t =>
             /\ Content[s].evidence \intersect Content[t].evidence = {}
             /\ Content[s].end < Content[t].start \/ Content[t].end < Content[s].start
    BY <1>1 DEF ChainInv, CanaryFollows
<1>4. /\ r \notin canary.reports /\ Content[r].start > canary.end
      /\ Content[r].evidence \intersect offline.evidence = {}
      /\ \A s \in canary.reports : Content[r].evidence \intersect Content[s].evidence = {}
    BY <1>1 DEF Belongs
<1>5. canary.gate.report \in Reports
    BY <1>1 DEF Decisions, Decision
<1>6. \A d \in Reports : /\ Content[d].start \in Nat /\ Content[d].end \in Nat
                         /\ Content[d].start <= Content[d].end
    BY Instances DEF ReportsAssumption
<1> HIDE DEF offline
<1>7. /\ Content[r].end \in Nat /\ canary.end <= Content[r].end
      /\ \A s \in canary.reports : Content[s].end < Content[r].start
      /\ offline.end \in Nat /\ Content[r].start > offline.end
      /\ offline.end <= Content[r].end
    BY <1>1, <1>3, <1>4, <1>5, <1>6 DEF offline
<1>8. ASSUME NEW s \in canary.reports \union {r}
      PROVE  /\ Content[s].start > offline.end /\ Content[s].end <= Content[r].end
             /\ Content[s].evidence \intersect offline.evidence = {}
    BY <1>1, <1>3, <1>4, <1>6, <1>7
<1>9. ASSUME NEW s \in canary.reports \union {r}, NEW t \in canary.reports \union {r}, s # t
      PROVE  /\ Content[s].evidence \intersect Content[t].evidence = {}
             /\ Content[s].end < Content[t].start \/ Content[t].end < Content[s].start
    BY <1>3, <1>4, <1>7, <1>9
<1> QED BY <1>1, <1>2, <1>3, <1>7, <1>8, <1>9 DEF CanaryFollows, offline

\* A report that holds at a stage is counted at that stage and every earlier
\* one, where it was not counted before.
LEMMA EvaluationEarns ==
    ASSUME ChainInv, NEW r \in Reports, EvaluateStage(r)
    PROVE  CanaryEarns' /\ canary'.stage \in DOMAIN Stages
<1>1. /\ canary # None /\ canary.phase = "awaiting" /\ Belongs(canary, r)
      /\ canary' = Evaluated(canary, r) /\ canary.stage \in DOMAIN Stages
      /\ IsFiniteSet(canary.reports) /\ canary.reports \subseteq Reports
      /\ \A s \in canary.reports : \A m \in Metrics :
             ~Violates(m, Content[s].estimates[m].cand, Canary.multiplier)
      /\ \A i \in DOMAIN Stages : i <= canary.stage - 1 =>
             Cardinality(Passing(canary, i)) >= canary.stage - 1 - i + 1
    BY DEF EvaluateStage, ChainInv, TypeOK, CanaryEarns, Passed
<1>2. /\ canary'.reports = canary.reports \union {r} /\ r \notin canary.reports
      /\ canary'.stage = Outcome(canary, Content[r]).stage
      /\ canary'.phase = Outcome(canary, Content[r]).phase
    BY <1>1 DEF Evaluated, Belongs
<1>3. /\ DOMAIN Stages = 1 .. Len(Stages) /\ Len(Stages) \in Nat
      /\ canary.stage \in Nat /\ 1 <= canary.stage /\ canary.stage <= Len(Stages)
    BY <1>1, Instances DEF StagesAssumption
<1> DEFINE holds == Holds(canary, Content[r])
           ends == Regresses(canary, Content[r])
<1>4. \/ /\ ends /\ canary'.phase = "rollback" /\ canary'.stage = canary.stage
      \/ /\ ~ends /\ ~holds /\ canary'.phase = "awaiting" /\ canary'.stage = canary.stage
      \/ /\ ~ends /\ holds /\ canary.stage < Len(Stages)
         /\ canary'.phase = "awaiting" /\ canary'.stage = canary.stage + 1
      \/ /\ ~ends /\ holds /\ canary.stage = Len(Stages)
         /\ canary'.phase = "validated" /\ canary'.stage = canary.stage
    BY <1>2, <1>3 DEF Outcome
<1>5. /\ holds <=> HoldsAt(canary.stage, Content[r])
      /\ ~ends => \A m \in Metrics :
             ~Violates(m, Content[r].estimates[m].cand, Canary.multiplier)
    BY DEF Holds, HoldsAt, Regresses
<1> HIDE DEF holds, ends
<1>6. ASSUME NEW i \in DOMAIN Stages
      PROVE  /\ IsFiniteSet(Passing(canary, i)) /\ IsFiniteSet(Passing(canary, i)')
             /\ Cardinality(Passing(canary, i)) \in Nat
             /\ Cardinality(Passing(canary, i)') \in Nat
             /\ Cardinality(Passing(canary, i)') >= Cardinality(Passing(canary, i))
             /\ HoldsAt(i, Content[r]) =>
                    Cardinality(Passing(canary, i)') = Cardinality(Passing(canary, i)) + 1
  <2>1. Passing(canary, i) \subseteq canary.reports /\ r \notin Passing(canary, i)
      BY <1>2 DEF Passing
  <2>2. /\ IsFiniteSet(Passing(canary, i)) /\ Cardinality(Passing(canary, i)) \in Nat
      BY <1>1, <2>1, FS_Subset, FS_CardinalityType
  <2>3. Passing(canary, i)' = IF HoldsAt(i, Content[r]) THEN Passing(canary, i) \union {r}
                              ELSE Passing(canary, i)
      BY <1>2 DEF Passing
  <2>4. /\ IsFiniteSet(Passing(canary, i) \union {r})
        /\ Cardinality(Passing(canary, i) \union {r}) = Cardinality(Passing(canary, i)) + 1
      BY <2>1, <2>2, FS_AddElement
  <2> HIDE DEF Passing
  <2> QED BY <2>2, <2>3, <2>4
<1>7. Passed(canary)' \in Nat
      /\ \/ Passed(canary)' = canary.stage - 1
         \/ Passed(canary)' = canary.stage /\ holds
    BY <1>2, <1>3, <1>4 DEF Passed
<1>8. ASSUME NEW i \in DOMAIN Stages, i <= Passed(canary)'
      PROVE  Cardinality(Passing(canary, i)') >= Passed(canary)' - i + 1
  <2>1. CASE Passed(canary)' = canary.stage - 1
    <3> DEFINE before == Cardinality(Passing(canary, i))
    <3>1. before >= canary.stage - 1 - i + 1 /\ i \in Nat
        BY <1>1, <1>3, <1>8, <2>1
    <3>2. /\ before \in Nat /\ Cardinality(Passing(canary, i)') \in Nat
          /\ Cardinality(Passing(canary, i)') >= before
        BY <1>6
    <3> HIDE DEF before
    <3> QED BY <1>3, <2>1, <3>1, <3>2
  <2>2. CASE Passed(canary)' = canary.stage /\ holds
    <3>1. HoldsAt(i, Content[r])
        BY <1>1, <1>5, <1>8, <2>2, HoldsEarlier
    <3>2. Cardinality(Passing(canary, i)') = Cardinality(Passing(canary, i)) + 1
        BY <1>6, <3>1
    <3>3. i <= canary.stage - 1 =>
              Cardinality(Passing(canary, i)) >= canary.stage - 1 - i + 1
        BY <1>1
    <3>4. Cardinality(Passing(canary, i)) \in Nat /\ i \in Nat
        BY <1>3, <1>6
    <3> QED BY <1>3, <1>8, <2>2, <3>2, <3>3, <3>4
  <2> QED BY <1>7, <2>1, <2>2
<1>9. IsFiniteSet(canary'.reports)
    BY <1>1, <1>2, FS_AddElement
<1>10. canary'.phase # "rollback" => \A s \in canary'.reports : \A m \in Metrics :
           ~Violates(m, Content[s].estimates[m].cand, Canary.multiplier)
    BY <1>1, <1>2, <1>4, <1>5
<1>11. /\ canary'.phase = "validated" => canary'.stage = Len(Stages)
       /\ canary'.stage \in DOMAIN Stages
    BY <1>3, <1>4
<1> QED BY <1>8, <1>9, <1>10, <1>11 DEF CanaryEarns

LEMMA EvaluationKeeps ==
    ASSUME ChainInv, NEW r \in Reports, EvaluateStage(r)
    PROVE  ChainInv'
<1>1. /\ canary # None /\ canary' = Evaluated(canary, r) /\ UNCHANGED <<trajectory, gate>>
      /\ canary.gate \in Decisions /\ canary.reports \subseteq Reports
      /\ canary.evidence = Content[canary.gate.report].evidence
             \union UNION {Content[s].evidence : s \in canary.reports}
    BY DEF EvaluateStage, ChainInv, TypeOK
<1>2. /\ canary'.gate = canary.gate /\ canary'.reports = canary.reports \union {r}
      /\ canary'.evidence = canary.evidence \union Content[r].evidence
      /\ canary'.phase = Outcome(canary, Content[r]).phase
    BY <1>1 DEF Evaluated
<1>3. canary'.phase \in Phases
    BY <1>2 DEF Outcome, Phases
<1>4. TypeOK'
    BY <1>1, <1>2, <1>3, EvaluationEarns DEF ChainInv, TypeOK
<1>5. TrajectoryFollows'
    BY <1>1 DEF ChainInv, TrajectoryFollows
<1> QED BY <1>4, <1>5, EvaluationFollows, EvaluationEarns DEF ChainInv

LEMMA ChainStep ==
    ASSUME ChainInv, [Next]_vars
    PROVE  ChainInv'
<1>1. CASE UNCHANGED vars
    BY <1>1 DEF vars, ChainInv, TypeOK, TrajectoryFollows, CanaryFollows, CanaryEarns,
       Passing, Passed
<1>2. CASE Next
    BY <1>2, TrajectoryLonger, DecisionKeeps, CanaryBegins, EvaluationKeeps DEF Next
<1> QED BY <1>1, <1>2

LEMMA ChainSteps ==
    ASSUME ChainInv, [Promote \/ Select \/ Import]_parts
    PROVE  ChainInv'
<1>1. [Next]_vars
    BY DEF Promote, Select, Import, parts
<1> QED BY <1>1, ChainStep

THEOREM ChainInvariant == PartsSpec => []ChainInv
<1>1. PartsInit => ChainInv
    BY DEF PartsInit, Init, ChainInv, TypeOK, TrajectoryFollows, CanaryFollows, CanaryEarns
<1>2. ChainInv /\ [Promote \/ Select \/ Import]_parts => ChainInv'
    BY ChainSteps
<1> QED BY <1>1, <1>2, PTL DEF PartsSpec

-----------------------------------------------------------------------------
(* What a promotion rests on. *)

\* A promotion taken apart: the trajectory, the gate's report and the canary.
LEMMA PromotedParts ==
    ASSUME ChainInv, Promoted
    PROVE  /\ trajectory \in Seq(Reports) /\ trajectory # <<>>
           /\ gate.report \in Reports /\ gate = Decision(gate.report)
           /\ gate.disposition = "advance"
           /\ canary # None /\ canary.gate = gate /\ canary.phase = "validated"
           /\ canary.reports \subseteq Reports
           /\ Compatible(trajectory)
           /\ Same(Resolved(trajectory), Content[gate.report])
           /\ Chronological(Resolved(trajectory), Content[gate.report], canary)
<1>1. /\ trajectory \in Seq(Reports) /\ trajectory # <<>>
      /\ gate \in Decisions /\ canary # None /\ canary.reports \subseteq Reports
    BY DEF ChainInv, TypeOK, Promoted, Complete
<1>2. PICK d \in Reports : gate = Decision(d)
    BY <1>1 DEF Decisions
<1>3. gate.report = d
    BY <1>2 DEF Decision
<1>4. Promotable(trajectory, gate, canary)
    BY DEF Promoted
<1> QED BY <1>1, <1>2, <1>3, <1>4 DEF Promotable, Approved

\* The reports of a trajectory, and the last of them.
LEMMA TrajectoryRead ==
    ASSUME NEW ds \in Seq(Reports), ds # <<>>
    PROVE  /\ Len(ds) \in Nat /\ 1 <= Len(ds) /\ DOMAIN ds = 1 .. Len(ds)
           /\ \A i \in 1 .. Len(ds) : ds[i] \in Reports
           /\ DOMAIN Resolved(ds) = 1 .. Len(ds)
           /\ \A i \in 1 .. Len(ds) : Resolved(ds)[i] = Content[ds[i]]
           /\ Resolved(ds) \in Seq({Content[d] : d \in Reports})
           /\ Len(Resolved(ds)) = Len(ds)
           /\ Last(Resolved(ds)) = Content[ds[Len(ds)]]
           /\ EvidenceOf(Resolved(ds)) = UNION {Content[ds[i]].evidence : i \in 1 .. Len(ds)}
<1> DEFINE n == Len(ds)
           Read == {Content[d] : d \in Reports}
           t == Resolved(ds)
<1>1. /\ n \in Nat /\ 1 <= n /\ DOMAIN ds = 1 .. n /\ \A i \in 1 .. n : ds[i] \in Reports
    OBVIOUS
<1>2. /\ t = [i \in 1 .. n |-> Content[ds[i]]] /\ \A i \in 1 .. n : Content[ds[i]] \in Read
    BY <1>1 DEF Resolved
<1> HIDE DEF n, Read
<1>3. t \in Seq(Read) /\ Len(t) = n /\ DOMAIN t = 1 .. n
      /\ \A i \in 1 .. n : t[i] = Content[ds[i]]
    BY <1>1, <1>2
<1> HIDE DEF t
<1>4. Last(t) = Content[ds[n]]
    BY <1>1, <1>3 DEF Last
<1>5. EvidenceOf(t) = UNION {Content[ds[i]].evidence : i \in 1 .. n}
    BY <1>3 DEF EvidenceOf
<1> QED BY <1>1, <1>3, <1>4, <1>5 DEF n, Read, t

LEMMA ChainTimed ==
    ASSUME ChainInv, Promoted
    PROVE  /\ \A i \in DOMAIN trajectory :
                  Content[trajectory[i]].end < Content[gate.report].start
           /\ \A r \in canary.reports : Content[gate.report].end < Content[r].start
           /\ \A i \in DOMAIN trajectory, r \in canary.reports :
                  Content[trajectory[i]].end < Content[r].start
<1> DEFINE n == Len(trajectory)
<1>1. \A d \in Reports : /\ Content[d].start \in Nat /\ Content[d].end \in Nat
                         /\ Content[d].start <= Content[d].end
    BY Instances DEF ReportsAssumption
<1>2. /\ n \in Nat /\ 1 <= n /\ DOMAIN trajectory = 1 .. n
      /\ \A i \in 1 .. n : trajectory[i] \in Reports
      /\ Content[trajectory[n]].end < Content[gate.report].start
      /\ gate.report \in Reports /\ canary.reports \subseteq Reports
      /\ canary # None /\ canary.gate = gate
    BY PromotedParts, TrajectoryRead DEF Chronological
<1> HIDE DEF n
<1>3. ASSUME NEW i \in 1 .. n
      PROVE  Content[trajectory[i]].end < Content[gate.report].start
  <2>1. i = n \/ Content[trajectory[i]].end < Content[trajectory[n]].start
      BY <1>2 DEF ChainInv, TrajectoryFollows
  <2> QED BY <1>1, <1>2, <2>1
<1>4. \A r \in canary.reports : Content[r].start > Content[gate.report].end
    BY <1>2 DEF ChainInv, CanaryFollows
<1>5. \A r \in canary.reports : Content[gate.report].end < Content[r].start
    BY <1>1, <1>2, <1>4
<1>6. ASSUME NEW i \in 1 .. n, NEW r \in canary.reports
      PROVE  Content[trajectory[i]].end < Content[r].start
    BY <1>1, <1>2, <1>3, <1>5
<1> QED BY <1>2, <1>3, <1>5, <1>6

LEMMA OrderFollows ==
    ASSUME ChainInv
    PROVE  ChainInOrder
<1> SUFFICES ASSUME Promoted
             PROVE  /\ \A x, y \in Chain : Before(x, y) => x[3].end < y[3].start
                    /\ \A r, s \in canary.reports :
                           r # s => \/ Content[r].end < Content[s].start
                                    \/ Content[s].end < Content[r].start
    BY DEF ChainInOrder
<1>1. \A r, s \in canary.reports :
          r # s => Content[r].end < Content[s].start \/ Content[s].end < Content[r].start
    BY PromotedParts DEF ChainInv, CanaryFollows
<1>2. ASSUME NEW x \in Chain, NEW y \in Chain, Before(x, y)
      PROVE  x[3].end < y[3].start
  <2>1. /\ x[1] = "trajectory" => x[2] \in DOMAIN trajectory /\ x[3] = Content[trajectory[x[2]]]
        /\ x[1] = "gate" => x[3] = Content[gate.report]
        /\ x[1] = "canary" => x[2] \in canary.reports /\ x[3] = Content[x[2]]
        /\ x[1] \in {"trajectory", "gate", "canary"}
      BY DEF Chain
  <2>2. /\ y[1] = "trajectory" => y[2] \in DOMAIN trajectory /\ y[3] = Content[trajectory[y[2]]]
        /\ y[1] = "gate" => y[3] = Content[gate.report]
        /\ y[1] = "canary" => y[2] \in canary.reports /\ y[3] = Content[y[2]]
        /\ y[1] \in {"trajectory", "gate", "canary"}
      BY DEF Chain
  <2>3. CASE x[1] = "trajectory" /\ y[1] = "trajectory" /\ x[2] < y[2]
      BY <2>1, <2>2, <2>3 DEF ChainInv, TrajectoryFollows
  <2>4. CASE x[1] = "trajectory" /\ y[1] # "trajectory"
      BY <2>1, <2>2, <2>4, ChainTimed
  <2>5. CASE x[1] = "gate" /\ y[1] = "canary"
      BY <2>1, <2>2, <2>5, ChainTimed
  <2> QED BY <1>2, <2>3, <2>4, <2>5 DEF Before
<1> QED BY <1>1, <1>2

LEMMA EvidenceApart ==
    ASSUME ChainInv
    PROVE  EvidenceCountedOnce
<1> SUFFICES ASSUME Promoted, NEW x \in Chain, NEW y \in Chain, x # y
             PROVE  x[3].evidence \intersect y[3].evidence = {}
    BY DEF EvidenceCountedOnce
<1> DEFINE read == EvidenceOf(Resolved(trajectory))
<1>1. /\ canary # None /\ canary.gate = gate
      /\ Content[gate.report].evidence \intersect read = {}
      /\ read \intersect canary.evidence = {}
      /\ \A i \in DOMAIN trajectory : Content[trajectory[i]].evidence \subseteq read
  <2>1. /\ canary # None /\ canary.gate = gate
        /\ trajectory \in Seq(Reports) /\ trajectory # <<>>
        /\ Chronological(Resolved(trajectory), Content[gate.report], canary)
      BY PromotedParts
  <2>2. /\ DOMAIN trajectory = 1 .. Len(trajectory)
        /\ read = UNION {Content[trajectory[i]].evidence : i \in 1 .. Len(trajectory)}
      BY <2>1, TrajectoryRead
  <2>3. \A i \in DOMAIN trajectory : Content[trajectory[i]].evidence \subseteq read
      BY <2>2
  <2> QED BY <2>1, <2>3 DEF Chronological
<1>2. canary.evidence = Content[gate.report].evidence
          \union UNION {Content[r].evidence : r \in canary.reports}
    BY <1>1 DEF ChainInv, TypeOK
<1>3. \A r \in canary.reports : Content[r].evidence \subseteq canary.evidence
    BY <1>2
<1>4. /\ \A r \in canary.reports :
             Content[r].evidence \intersect Content[gate.report].evidence = {}
      /\ \A r, s \in canary.reports :
             r # s => Content[r].evidence \intersect Content[s].evidence = {}
    BY <1>1 DEF ChainInv, CanaryFollows
<1>5. DOMAIN trajectory \subseteq Nat
      /\ \A i, j \in DOMAIN trajectory : i # j =>
             Content[trajectory[i]].evidence \intersect Content[trajectory[j]].evidence = {}
  <2>1. DOMAIN trajectory \subseteq Nat
      BY PromotedParts, TrajectoryRead
  <2>2. \A i, j \in DOMAIN trajectory : i # j => i < j \/ j < i
      BY <2>1
  <2> QED BY <2>1, <2>2 DEF ChainInv, TrajectoryFollows
<1> HIDE DEF read
<1>6. \/ \E i \in DOMAIN trajectory : x = <<"trajectory", i, Content[trajectory[i]]>>
      \/ x = <<"gate", 0, Content[gate.report]>>
      \/ \E r \in canary.reports : x = <<"canary", r, Content[r]>>
    BY DEF Chain
<1>7. \/ \E i \in DOMAIN trajectory : y = <<"trajectory", i, Content[trajectory[i]]>>
      \/ y = <<"gate", 0, Content[gate.report]>>
      \/ \E r \in canary.reports : y = <<"canary", r, Content[r]>>
    BY DEF Chain
<1>8. CASE \E i \in DOMAIN trajectory : x = <<"trajectory", i, Content[trajectory[i]]>>
    BY <1>1, <1>3, <1>5, <1>7, <1>8
<1>9. CASE x = <<"gate", 0, Content[gate.report]>>
    BY <1>1, <1>4, <1>7, <1>9
<1>10. CASE \E r \in canary.reports : x = <<"canary", r, Content[r]>>
    BY <1>1, <1>3, <1>4, <1>7, <1>10
<1> QED BY <1>6, <1>8, <1>9, <1>10

\* A trajectory found compatible has no checkpoint that violates.
LEMMA CompatibleKeeps ==
    ASSUME NEW ds \in Seq(Reports), ds # <<>>, Compatible(ds),
           NEW i \in DOMAIN ds, NEW m \in Metrics
    PROVE  ~Violates(m, Content[ds[i]].estimates[m].cand, 1)
<1> DEFINE t == Resolved(ds)
           points == [j \in DOMAIN t |-> AbsoluteOf(t[j])]
           all == {AbsoluteOf(Content[d]) : d \in Reports}
           base == [k \in Metrics |-> Head(t).estimates[k].base]
<1>1. DOMAIN t = 1 .. Len(ds) /\ Len(ds) \in Nat /\ i \in 1 .. Len(ds)
      /\ \A j \in 1 .. Len(ds) : t[j] = Content[ds[j]] /\ ds[j] \in Reports
    BY TrajectoryRead
<1>2. HardReasons(t) = {}
    BY DEF Compatible, Disposition
<1>3. points \in Seq(all) /\ Len(points) = Len(ds) /\ points[i] = AbsoluteOf(Content[ds[i]])
  <2>1. points = [j \in 1 .. Len(ds) |-> AbsoluteOf(t[j])]
        /\ \A j \in 1 .. Len(ds) : AbsoluteOf(t[j]) \in all
      BY <1>1
  <2> HIDE DEF all, t, points
  <2> QED BY <1>1, <2>1
<1>4. Absolute(t) = <<base>> \o points
    BY DEF Absolute
<1>5. i + 1 \in DOMAIN Absolute(t) /\ Absolute(t)[i + 1] = points[i]
  <2> HIDE DEF points, base, t, all
  <2>1. <<base>> \in Seq(all \union {base}) /\ points \in Seq(all \union {base})
      BY <1>3
  <2> QED BY <1>1, <1>3, <1>4, <2>1
<1>6. Absolute(t)[i + 1][m] = Content[ds[i]].estimates[m].cand
    BY <1>3, <1>5 DEF AbsoluteOf
<1> HIDE DEF t
<1>7. ~Violates(m, Absolute(t)[i + 1][m], 1)
  <2> DEFINE y == <<m, i + 1>>
  <2>1. y \in Metrics \X DOMAIN Absolute(t) /\ y[1] = m /\ y[2] = i + 1
      BY <1>5
  <2> QED BY <1>2, <2>1 DEF HardReasons
<1> QED BY <1>6, <1>7

LEMMA NothingViolates ==
    ASSUME ChainInv
    PROVE  NoViolationPromoted
<1> SUFFICES ASSUME Promoted, NEW x \in Chain, NEW m \in Metrics
             PROVE  ~Violates(m, x[3].estimates[m].cand,
                              IF x[1] = "trajectory" THEN 1
                              ELSE IF x[1] = "gate" THEN Gate.multiplier
                              ELSE Canary.multiplier)
    BY DEF NoViolationPromoted
<1>1. CASE \E i \in DOMAIN trajectory : x = <<"trajectory", i, Content[trajectory[i]]>>
  <2>1. PICK i \in DOMAIN trajectory : x = <<"trajectory", i, Content[trajectory[i]]>>
      BY <1>1
  <2>2. ~Violates(m, Content[trajectory[i]].estimates[m].cand, 1)
      BY PromotedParts, CompatibleKeeps
  <2> QED BY <2>1, <2>2
<1>2. CASE x = <<"gate", 0, Content[gate.report]>>
  <2>1. ~Refuses(Content[gate.report])
      BY PromotedParts DEF Decision
  <2>2. ~Violates(m, Content[gate.report].estimates[m].cand, Gate.multiplier)
      BY <2>1 DEF Refuses
  <2> QED BY <1>2, <2>2
<1>3. CASE \E r \in canary.reports : x = <<"canary", r, Content[r]>>
  <2>1. PICK r \in canary.reports : x = <<"canary", r, Content[r]>>
      BY <1>3
  <2>2. ~Violates(m, Content[r].estimates[m].cand, Canary.multiplier)
      BY PromotedParts DEF ChainInv, CanaryEarns
  <2> QED BY <2>1, <2>2
<1> QED BY <1>1, <1>2, <1>3 DEF Chain

\* A validated canary passed every stage: of those at or after a stage there are
\* as many as reports that would pass it.
LEMMA StagesPassed ==
    ASSUME ChainInv
    PROVE  EveryStagePassed
<1> SUFFICES ASSUME canary # None, canary.phase = "validated", NEW i \in DOMAIN Stages
             PROVE  Cardinality({r \in canary.reports :
                                     Holds([canary EXCEPT !.stage = i], Content[r])})
                        >= Len(Stages) - i + 1
    BY DEF EveryStagePassed
<1>1. canary.stage = Len(Stages) /\ i <= Len(Stages) /\ Passed(canary) = Len(Stages)
    BY Instances DEF StagesAssumption, ChainInv, CanaryEarns, Passed
<1>2. Cardinality(Passing(canary, i)) >= Len(Stages) - i + 1
    BY <1>1 DEF ChainInv, CanaryEarns
<1>3. Passing(canary, i) = {r \in canary.reports :
                                Holds([canary EXCEPT !.stage = i], Content[r])}
    BY DEF Passing, Holds, HoldsAt
<1> QED BY <1>2, <1>3

LEMMA EligibleBefore ==
    ASSUME ChainInv
    PROVE  PromotedWasEligible
BY PromotedParts DEF PromotedWasEligible, ParetoEligible, Chronological

\* What is promoted was eligible for the selection, passed every stage of its
\* canary and broke no hard invariant, and it rests on evidence that is counted
\* once and follows the order of time (authenticate_adapter_promotion_witnesses).
THEOREM PromotionIsEarned == PartsSpec => []PromotionEarned
<1>1. ChainInv => PromotionEarned
    BY OrderFollows, EvidenceApart, NothingViolates, StagesPassed, EligibleBefore
       DEF PromotionEarned, ChainInv
<1> QED BY <1>1, ChainInvariant, PTL

-----------------------------------------------------------------------------
(* What a canary exposes. *)

\* A later stage exposes more subjects, and a canary that must be rolled back
\* none, whatever reports the caller presents (subject_is_selected).
THEOREM ExposureGrows == PartsSpec => ExposureGrowsUntilRollback
<1> DEFINE Judged == canary # None /\ canary' # None /\ canary.reports # canary'.reports
                         /\ canary'.reports # {}
<1>1. ASSUME ChainInv, [Next]_vars, Judged
      PROVE  IF canary'.phase = "rollback" THEN Exposed(canary') = {}
             ELSE Exposed(canary) \subseteq Exposed(canary')
  <2>1. PICK r \in Reports : EvaluateStage(r)
      BY <1>1 DEF Next, vars, StartTrajectory, AppendReport, Decide, StartCanary, Fresh
  <2> DEFINE i == canary.stage
             j == canary'.stage
  <2>2. /\ canary.phase = "awaiting" /\ canary' = Evaluated(canary, r)
        /\ i \in DOMAIN Stages /\ j \in DOMAIN Stages
      BY <1>1, <2>1, EvaluationKeeps DEF EvaluateStage, ChainInv, TypeOK
  <2>3. j = i \/ (j = i + 1 /\ i < Len(Stages))
      BY <2>2 DEF Evaluated, Outcome
  <2>4. /\ Stages[i].exposure \in Nat /\ Stages[j].exposure \in Nat
        /\ Stages[i].exposure <= Stages[j].exposure
    <3>1. \A k \in DOMAIN Stages : Stages[k].exposure \in Nat
      <4> DEFINE S == [exposure : Nat, groups : Nat]
      <4>1. Stages \in Seq(S) /\ \A x \in S : x.exposure \in Nat
          BY Instances DEF StagesAssumption
      <4> HIDE DEF S
      <4> QED BY <4>1
    <3>2. DOMAIN Stages = 1 .. Len(Stages) /\ Len(Stages) \in Nat
        BY Instances DEF StagesAssumption
    <3>3. j = i \/ i \in 1 .. Len(Stages) - 1
        BY <2>2, <2>3, <3>2
    <3>4. j = i \/ Stages[i].exposure < Stages[j].exposure
        BY <2>3, <3>3, Instances DEF StagesAssumption
    <3> QED BY <2>2, <3>1, <3>4
  <2> DEFINE x == Stages[i].exposure
             y == Stages[j].exposure
  <2>5. Buckets \subseteq Nat
      BY Instances DEF BucketsAssumption
  <2>6. x \in Nat /\ y \in Nat /\ x <= y
      BY <2>4
  <2> HIDE DEF x, y
  <2>7. \A b \in Buckets : b < x => b < y
      BY <2>5, <2>6
  <2> QED BY <1>1, <2>7 DEF Exposed, Selects, x, y
<1>2. ChainInv /\ [Promote \/ Select \/ Import]_parts =>
          [Judged => IF canary'.phase = "rollback" THEN Exposed(canary') = {}
                     ELSE Exposed(canary) \subseteq Exposed(canary')]_vars
  <2>1. ASSUME [Promote \/ Select \/ Import]_parts PROVE [Next]_vars
      BY <2>1 DEF Promote, Select, Import, parts
  <2> QED BY <1>1, <2>1
<1> QED BY <1>2, ChainInvariant, PTL DEF PartsSpec, ExposureGrowsUntilRollback

-----------------------------------------------------------------------------
(* The bank that imports.  What AdapterBankProofs proves of every bank holds *)
(* of this one; both instances stand for the same formulas.                 *)

BankProofs == INSTANCE AdapterBankProofs WITH
    Content <- Catalogue, MaxRevisions <- 5, MaxPermits <- 0, MaxCalls <- 0

LEMMA SameBank ==
    /\ BankProofs!LimitAssumption /\ BankProofs!NoneAssumption
    /\ BankProofs!ManifestAssumption
    /\ Bank!Init <=> BankProofs!Init
    /\ Bank!Next <=> BankProofs!Next
    /\ Bank!LineageUnbroken <=> BankProofs!LineageUnbroken
<1> USE DEF
       Bank!NoCall, BankProofs!NoCall, Bank!bank, BankProofs!bank, Bank!call,
       BankProofs!call, Bank!Release, BankProofs!Release, Bank!writer,
       BankProofs!writer, Bank!Slots, BankProofs!Slots, Bank!Slot, BankProofs!Slot,
       Bank!Tip, BankProofs!Tip, Bank!Terms, BankProofs!Terms,
       Bank!CommitRegistration, BankProofs!CommitRegistration, Bank!Current,
       BankProofs!Current, Bank!SnapshotAt, BankProofs!SnapshotAt, Bank!Empty,
       BankProofs!Empty, Bank!Stage, BankProofs!Stage, Bank!Admissible,
       BankProofs!Admissible, Bank!Version, BankProofs!Version, Bank!Lineage,
       BankProofs!Lineage, Bank!Delta, BankProofs!Delta, Bank!Continues,
       BankProofs!Continues, Bank!Sound, BankProofs!Sound, Bank!Revoked,
       BankProofs!Revoked, Bank!Selection, BankProofs!Selection,
       Bank!IssuedAgainstCurrent, BankProofs!IssuedAgainstCurrent, Bank!Chosen,
       BankProofs!Chosen, Bank!Affected, BankProofs!Affected, Bank!Restored,
       BankProofs!Restored, Bank!Publishable, BankProofs!Publishable,
       Bank!ValidContract, BankProofs!ValidContract, Bank!UniqueEntries,
       BankProofs!UniqueEntries, Bank!RevocationsInOrder,
       BankProofs!RevocationsInOrder, Bank!ClosureComplete,
       BankProofs!ClosureComplete, Bank!ActiveBound, BankProofs!ActiveBound,
       Bank!ValidTransition, BankProofs!ValidTransition, Bank!RegistrationDelta,
       BankProofs!RegistrationDelta, Bank!ActivationDelta, BankProofs!ActivationDelta,
       Bank!Reselected, BankProofs!Reselected, Bank!RevocationDelta,
       BankProofs!RevocationDelta, Bank!RollbackDelta, BankProofs!RollbackDelta,
       Bank!HeadAcceptable, BankProofs!HeadAcceptable, Bank!Authoritative,
       BankProofs!Authoritative, Bank!Cardinality, BankProofs!Cardinality
<1>1. BankProofs!LimitAssumption
    BY DEF Bank!LimitAssumption, BankProofs!LimitAssumption
<1>2. BankProofs!NoneAssumption /\ BankProofs!ManifestAssumption
    BY Instances DEF Bank!NoneAssumption, BankProofs!NoneAssumption,
                     Bank!ManifestAssumption, BankProofs!ManifestAssumption,
                     Bank!Snapshots, BankProofs!Snapshots, Bank!Permits,
                     BankProofs!Permits, Bank!Selections, BankProofs!Selections,
                     Bank!Revocations, BankProofs!Revocations, Bank!Operations,
                     BankProofs!Operations, Bank!Drafts, BankProofs!Drafts
<1>3. Bank!Init <=> BankProofs!Init
    BY DEF Bank!Init, BankProofs!Init
<1>4. Bank!LineageUnbroken <=> BankProofs!LineageUnbroken
    BY DEF Bank!LineageUnbroken, BankProofs!LineageUnbroken
<1>5. \A m : Bank!ImportLora(m) <=> BankProofs!ImportLora(m)
    BY DEF Bank!ImportLora, BankProofs!ImportLora
<1>6. \A m : Bank!AuthorizeGovernedPromotion(m) <=> BankProofs!AuthorizeGovernedPromotion(m)
    BY DEF Bank!AuthorizeGovernedPromotion, BankProofs!AuthorizeGovernedPromotion
<1>7. \A m : Bank!Revoke(m) <=> BankProofs!Revoke(m)
    BY DEF Bank!Revoke, BankProofs!Revoke
<1>8. Bank!RegisterComposition <=> BankProofs!RegisterComposition
    BY DEF Bank!RegisterComposition, BankProofs!RegisterComposition
<1>9. \A p : Bank!Activate(p) <=> BankProofs!Activate(p)
    BY DEF Bank!Activate, BankProofs!Activate
<1>10. \A slot, n, p : Bank!Rollback(slot, n, p) <=> BankProofs!Rollback(slot, n, p)
    BY DEF Bank!Rollback, BankProofs!Rollback
<1>11. Bank!RefusePublication <=> BankProofs!RefusePublication
    BY DEF Bank!RefusePublication, BankProofs!RefusePublication
<1>12. Bank!PersistRevisionCommit <=> BankProofs!PersistRevisionCommit
    BY DEF Bank!PersistRevisionCommit, BankProofs!PersistRevisionCommit
<1>13. Bank!ReplaceHead <=> BankProofs!ReplaceHead
    BY DEF Bank!ReplaceHead, BankProofs!ReplaceHead
<1>14. \A m : Bank!ComposeExact(m) <=> BankProofs!ComposeExact(m)
    BY DEF Bank!ComposeExact, BankProofs!ComposeExact
<1>15. Bank!GiveUpComposition <=> BankProofs!GiveUpComposition
    BY DEF Bank!GiveUpComposition, BankProofs!GiveUpComposition
<1>16. Bank!AuthenticateRevisionTip <=> BankProofs!AuthenticateRevisionTip
    BY DEF Bank!AuthenticateRevisionTip, BankProofs!AuthenticateRevisionTip
<1>17. \A slot : Bank!AuthenticateHeadCache(slot) <=> BankProofs!AuthenticateHeadCache(slot)
    BY DEF Bank!AuthenticateHeadCache, BankProofs!AuthenticateHeadCache
<1>18. Bank!ReturnFromResolve <=> BankProofs!ReturnFromResolve
    BY DEF Bank!ReturnFromResolve, BankProofs!ReturnFromResolve
<1>19. Bank!Crash <=> BankProofs!Crash
    BY DEF Bank!Crash, BankProofs!Crash
<1>20. Bank!LoseHead <=> BankProofs!LoseHead
    BY DEF Bank!LoseHead, BankProofs!LoseHead
<1>21. Bank!Slots = BankProofs!Slots /\ Bank!Tip = BankProofs!Tip
    OBVIOUS
<1>22. Bank!Next <=> BankProofs!Next
  <2> HIDE DEF Bank!Slots, BankProofs!Slots, Bank!Tip, BankProofs!Tip
  <2> QED BY <1>5, <1>6, <1>7, <1>8, <1>9, <1>10, <1>11, <1>12, <1>13, <1>14, <1>15,
            <1>16, <1>17, <1>18, <1>19, <1>20, <1>21
         DEF Bank!Next, BankProofs!Next, Bank!Mutate, BankProofs!Mutate, Bank!Publish,
             BankProofs!Publish, Bank!Compose, BankProofs!Compose, Bank!Resolve,
             BankProofs!Resolve
<1> QED BY <1>1, <1>2, <1>3, <1>4, <1>22

\* Whatever is imported, in whatever order, the generations of an adapter follow
\* one another in one lineage and one slot, and no slot holds one delta twice
\* (validate_registration_delta, import_lora).
THEOREM ImportsFollow == PartsSpec => []LineageUnbroken
<1> DEFINE Inv == BankProofs!TypeOK /\ BankProofs!BankInv /\ BankProofs!AcceptInv
<1>1. PartsInit => Inv
    BY SameBank, BankProofs!InitTypes, BankProofs!InitInv,
       BankProofs!InitAccepts DEF PartsInit
<1>2. Inv /\ [Promote \/ Select \/ Import]_parts => Inv'
  <2> SUFFICES ASSUME Inv, [Promote \/ Select \/ Import]_parts PROVE Inv'
      OBVIOUS
  <2>1. Bank!Next \/ UNCHANGED bank
      BY DEF Promote, Select, Import, parts
  <2>2. [BankProofs!Next]_BankProofs!vars
      BY <2>1, SameBank
         DEF bank, BankProofs!bank, BankProofs!writer, BankProofs!call, BankProofs!vars
  <2> QED BY <2>2, SameBank, BankProofs!NextTypes, BankProofs!NextInv,
             BankProofs!NextAccepts
<1>3. Inv => LineageUnbroken
    BY SameBank DEF LineageUnbroken, BankProofs!AcceptInv
<1> QED BY <1>1, <1>2, <1>3, PTL DEF PartsSpec
=============================================================================
