------------------------- MODULE PlatformHostProofs -------------------------
(***************************************************************************)
(* Proofs about PlatformHost and the loop and fault policy it owns, for    *)
(* every word size, set of policies, clock and set of hosts.               *)
(***************************************************************************)
EXTENDS MCPlatformHost, OperatorLemmas, FunctionTheorems

-----------------------------------------------------------------------------
(***************************************************************************)
(* The stage order.                                                        *)
(***************************************************************************)
StageAt(i) == BaselineLoopStageOrder[i]

\* The order lists twelve stages once each: four before the update stages, one
\* before the render stages, and EndFrame last.
LEMMA OrderFacts ==
  /\ BaselineLoopStageOrder \in Seq(LoopStages)
  /\ DOMAIN BaselineLoopStageOrder = 1..12
  /\ LoopStages = {StageAt(i) : i \in 1..12}
  /\ \A i, j \in 1..12 : StageAt(i) = StageAt(j) => i = j
  /\ \A i \in 1..12 : StageAt(i) \in UpdateStages <=> i \in 5..7
  /\ \A i \in 1..12 : StageAt(i) \in RenderStages <=> i \in 9..11
  /\ StageAt(5) = "PreUpdate" /\ StageAt(12) = "EndFrame"
  /\ UpdateStages \subseteq LoopStages /\ RenderStages \subseteq LoopStages
<1>1. DOMAIN BaselineLoopStageOrder = 1..12
  BY DEF BaselineLoopStageOrder
<1>2. LoopStages = {StageAt(i) : i \in 1..12}
  BY <1>1 DEF LoopStages, StageAt, ToSet
<1>3. \A i, j \in 1..12 : StageAt(i) = StageAt(j) => i = j
  BY DEF BaselineLoopStageOrder, StageAt
<1>4. \A i \in 1..12 : StageAt(i) \in UpdateStages <=> i \in 5..7
  BY DEF BaselineLoopStageOrder, StageAt, UpdateStages
<1>5. \A i \in 1..12 : StageAt(i) \in RenderStages <=> i \in 9..11
  BY DEF BaselineLoopStageOrder, StageAt, RenderStages
<1>6. /\ StageAt(5) = "PreUpdate" /\ StageAt(6) = "Update" /\ StageAt(7) = "PostUpdate"
      /\ StageAt(9) = "PreRender" /\ StageAt(10) = "Render" /\ StageAt(11) = "PostRender"
      /\ StageAt(12) = "EndFrame"
  BY DEF BaselineLoopStageOrder, StageAt
<1>7. UpdateStages \subseteq LoopStages /\ RenderStages \subseteq LoopStages
  BY <1>2, <1>6 DEF UpdateStages, RenderStages
<1>8. BaselineLoopStageOrder \in [1..12 -> LoopStages]
  BY <1>1, <1>2 DEF StageAt, BaselineLoopStageOrder
<1>9. BaselineLoopStageOrder \in Seq(LoopStages)
  BY <1>8, SeqDef
<1> QED BY <1>1, <1>2, <1>3, <1>4, <1>5, <1>6, <1>7, <1>9

\* The twelve stages and their positions in the baseline order.
LEMMA PositionFacts ==
  /\ \A i \in 1..12 : Position(StageAt(i)) = i
  /\ \A stage \in LoopStages : /\ Position(stage) \in 1..12 /\ StageAt(Position(stage)) = stage
                               /\ stage \in UpdateStages <=> Position(stage) \in 5..7
                               /\ stage \in RenderStages <=> Position(stage) \in 9..11
<1>1. \A i \in 1..12 : Position(StageAt(i)) = i
  BY OrderFacts DEF Position, StageAt
<1> QED BY <1>1, OrderFacts

-----------------------------------------------------------------------------
(***************************************************************************)
(* The stages of a frame.                                                  *)
(***************************************************************************)
ActiveOf(p) == Keep(BaselineLoopStageOrder, LoopStages \ p.disabled_optional_stages)

\* A policy that was accepted, with the stages it leaves.
Accepted ==
  policy \in LoopPolicies /\ ValidateLoopPolicy(policy) /\ active_stages = ActiveOf(policy)

\* The active stages are in baseline order, and only render stages are missing.
LEMMA ActiveFacts ==
  ASSUME Accepted
  PROVE  /\ active_stages \in Seq(LoopStages) /\ Len(active_stages) \in Nat
         /\ DOMAIN active_stages = 1..Len(active_stages)
         /\ \A k, l \in DOMAIN active_stages : k < l => Position(active_stages[k]) < Position(active_stages[l])
         /\ \A s \in LoopStages \ RenderStages : \E k \in DOMAIN active_stages : active_stages[k] = s
<1> DEFINE kept == LoopStages \ policy.disabled_optional_stages
           I == Places(BaselineLoopStageOrder, kept)
<1>1. /\ active_stages \in Seq(LoopStages) /\ Len(active_stages) \in Nat
      /\ DOMAIN active_stages = 1..Len(active_stages)
      /\ \A k \in DOMAIN active_stages : Place(I, k) \in 1..12 /\ active_stages[k] = StageAt(Place(I, k))
      /\ \A k, l \in DOMAIN active_stages : k < l => Place(I, k) < Place(I, l)
      /\ \A i \in 1..12 : StageAt(i) \in kept => \E k \in DOMAIN active_stages : Place(I, k) = i
  <2> DEFINE base == BaselineLoopStageOrder
             r == Keep(base, kept)
             J == Places(base, kept)
  <2>0. base \in Seq(LoopStages)
    BY OrderFacts
  <2>1. DOMAIN base = 1..12
    BY OrderFacts
  <2>2. active_stages = r /\ I = J /\ \A i \in 1..12 : StageAt(i) = base[i]
    BY DEF Accepted, ActiveOf, StageAt
  <2> HIDE DEF base, kept
  <2>3. /\ r \in Seq(LoopStages) /\ Len(r) \in Nat /\ DOMAIN r = 1..Len(r)
        /\ \A k \in DOMAIN r : /\ Place(J, k) \in DOMAIN base
                               /\ r[k] = base[Place(J, k)] /\ r[k] \in kept
        /\ \A k, l \in DOMAIN r : k < l => Place(J, k) < Place(J, l)
        /\ \A i \in DOMAIN base : base[i] \in kept => \E k \in DOMAIN r : Place(J, k) = i
    BY <2>0, KeepFacts
  <2> HIDE DEF r, J, I
  <2> QED BY <2>1, <2>2, <2>3
<1>2. \A s \in LoopStages \ RenderStages : s \in kept
  BY DEF Accepted, ValidateLoopPolicy, IsOptionalForProfile
<1> HIDE DEF kept, I
<1>3. \A k \in DOMAIN active_stages : Position(active_stages[k]) = Place(I, k)
  BY <1>1, PositionFacts
<1>4. ASSUME NEW s \in LoopStages \ RenderStages PROVE \E k \in DOMAIN active_stages : active_stages[k] = s
  <2>1. StageAt(Position(s)) = s /\ Position(s) \in 1..12
    BY PositionFacts
  <2> QED BY <1>1, <1>2, <2>1
<1> QED BY <1>1, <1>3, <1>4

\* What a part of the active stages keeps.
LEMMA SegmentFacts ==
  ASSUME Accepted, NEW m \in DOMAIN active_stages, NEW n \in DOMAIN active_stages, m <= n, NEW P
  PROVE  LET r == Keep(SubSeq(active_stages, m, n), P)
         IN /\ r \in Seq(LoopStages) /\ Len(r) \in Nat /\ DOMAIN r = 1..Len(r)
            /\ \A k \in DOMAIN r : r[k] \in P /\ \E i \in m..n : r[k] = active_stages[i]
            /\ \A k, l \in DOMAIN r : k < l => Position(r[k]) < Position(r[l])
            /\ \A i \in m..n : active_stages[i] \in P => \E k \in DOMAIN r : r[k] = active_stages[i]
<1> DEFINE seg == SubSeq(active_stages, m, n)
           r == Keep(seg, P)
           I == Places(seg, P)
<1>1. /\ active_stages \in Seq(LoopStages) /\ m \in Nat /\ n \in Nat
      /\ \A i \in m..n : i \in DOMAIN active_stages /\ active_stages[i] \in LoopStages
  BY ActiveFacts
<1>2. /\ seg \in Seq(LoopStages) /\ Len(seg) = n - m + 1
      /\ \A i \in 1..(n - m + 1) : seg[i] = active_stages[m + i - 1]
  BY <1>1, SubSeqProperties
<1> HIDE DEF seg
<1>3. DOMAIN seg = 1..(n - m + 1)
  BY <1>2
<1>4. /\ r \in Seq(LoopStages) /\ Len(r) \in Nat /\ DOMAIN r = 1..Len(r)
      /\ \A k \in DOMAIN r : /\ Place(I, k) \in DOMAIN seg
                             /\ r[k] = seg[Place(I, k)] /\ r[k] \in P
      /\ \A k, l \in DOMAIN r : k < l => Place(I, k) < Place(I, l)
      /\ \A i \in DOMAIN seg : seg[i] \in P => \E k \in DOMAIN r : Place(I, k) = i
  BY <1>2, KeepFacts
<1> HIDE DEF r, I
<1>5. ASSUME NEW k \in DOMAIN r
      PROVE  /\ m + Place(I, k) - 1 \in m..n /\ Place(I, k) \in Nat
             /\ r[k] = active_stages[m + Place(I, k) - 1]
  BY <1>1, <1>2, <1>3, <1>4, SMTT(30)
<1>6. ASSUME NEW k \in DOMAIN r, NEW l \in DOMAIN r, k < l PROVE Position(r[k]) < Position(r[l])
  <2>1. m + Place(I, k) - 1 < m + Place(I, l) - 1
    BY <1>1, <1>4, <1>5, <1>6
  <2> QED BY <1>1, <1>5, <2>1, ActiveFacts
<1>7. ASSUME NEW i \in m..n, active_stages[i] \in P PROVE \E k \in DOMAIN r : r[k] = active_stages[i]
  <2>1. i - m + 1 \in DOMAIN seg /\ m + (i - m + 1) - 1 = i
    BY <1>1, <1>3
  <2>2. seg[i - m + 1] = active_stages[i]
    BY <1>2, <1>3, <2>1
  <2> QED BY <1>4, <1>7, <2>1, <2>2
<1>8. \A k \in DOMAIN r : r[k] \in P /\ \E i \in m..n : r[k] = active_stages[i]
  BY <1>4, <1>5
<1> QED BY <1>4, <1>6, <1>7, <1>8 DEF r, seg

\* The rounds of the update stages.
LEMMA RoundsFacts ==
  ASSUME NEW steps \in Nat
  PROVE  LET u == UpdateRounds(steps)
         IN /\ u \in Seq(LoopStages) /\ Len(u) = 3 * steps /\ DOMAIN u = 1..(3 * steps)
            /\ \A i \in 1..(3 * steps) :
                 /\ u[i] = <<"PreUpdate", "Update", "PostUpdate">>[((i - 1) % 3) + 1]
                 /\ u[i] \in UpdateStages
<1> DEFINE u == UpdateRounds(steps)
           round == <<"PreUpdate", "Update", "PostUpdate">>
<1>1. \A i \in 1..(3 * steps) : ((i - 1) % 3) + 1 \in 1..3
  OBVIOUS
<1>2. \A k \in 1..3 : round[k] \in UpdateStages
  BY DEF UpdateStages
<1>3. u = [i \in 1..(3 * steps) |-> round[((i - 1) % 3) + 1]]
  BY DEF UpdateRounds
<1> HIDE DEF u, round
<1>4. u \in [1..(3 * steps) -> LoopStages] /\ \A i \in 1..(3 * steps) : u[i] \in UpdateStages
  BY <1>1, <1>2, <1>3, OrderFacts
<1>5. u \in Seq(LoopStages) /\ Len(u) = 3 * steps /\ DOMAIN u = 1..(3 * steps)
  BY <1>4, SeqDef
<1> QED BY <1>3, <1>4, <1>5 DEF u, round

\* How many update steps the rounds hold.
LEMMA RoundsCount ==
  ASSUME NEW steps \in Nat, NEW base \in Nat, NEW U,
         U = {base + 3 * (k - 1) + 2 : k \in 1..steps}
  PROVE  Cardinality(U) = steps
<1> DEFINE f == [k \in 1..steps |-> base + 3 * (k - 1) + 2]
<1>1. IsFiniteSet(1..steps) /\ Cardinality(1..steps) = steps
  BY FS_Interval
<1>2. f \in Bijection(1..steps, U)
  <2>1. f \in [1..steps -> U]
    OBVIOUS
  <2>2. \A a, b \in 1..steps : f[a] = f[b] => a = b
    OBVIOUS
  <2>3. \A y \in U : \E x \in 1..steps : f[x] = y
    OBVIOUS
  <2> QED BY <2>1, <2>2, <2>3, Fun_IsBij
<1> HIDE DEF f
<1>3. Cardinality(1..steps) = Cardinality(U)
  BY <1>1, <1>2, FS_Bijection, Fun_ExistsBij DEF ExistsBijection
<1> QED BY <1>1, <1>3

WellFormedPlan(plan, steps, drop) ==
  /\ plan \in Seq(LoopStages) /\ plan # <<>> /\ plan[Len(plan)] = "EndFrame"
  /\ ToSet(plan) \subseteq ToSet(active_stages)
  /\ \A i, j \in DOMAIN plan : i < j /\ plan[i] \notin UpdateStages /\ plan[j] \notin UpdateStages
                                 => Position(plan[i]) < Position(plan[j])
  /\ LoopStages \ (RenderStages \cup UpdateStages) \subseteq ToSet(plan)
  /\ ToSet(active_stages) \ ToSet(plan) =
       (IF drop THEN ToSet(active_stages) \cap RenderStages ELSE {})
         \cup (IF steps = 0 THEN UpdateStages ELSE {})
  /\ \A i \in DOMAIN plan : plan[i] = "Update" =>
       plan[i - 1] = "PreUpdate" /\ plan[i + 1] = "PostUpdate"
  /\ Cardinality({i \in DOMAIN plan : plan[i] = "Update"}) = steps

\* The plain stages of a frame before and after its update rounds.
UpdatePlace == CHOOSE i \in DOMAIN active_stages : active_stages[i] = "PreUpdate"
StagesBefore(drop) == Keep(SubSeq(active_stages, 1, UpdatePlace), PlainStages(drop))
StagesAfter(drop) == Keep(SubSeq(active_stages, UpdatePlace, Len(active_stages)), PlainStages(drop))

\* The plan runs the stages before the update stages, the rounds, and the stages after.
LEMMA PlanParts ==
  ASSUME Accepted, NEW drop
  PROVE  LET a == StagesBefore(drop)
             b == StagesAfter(drop)
         IN
           /\ a \in Seq(LoopStages) /\ b \in Seq(LoopStages)
           /\ \A steps \in Nat : FramePlan(steps, drop) = (a \o UpdateRounds(steps)) \o b
           /\ \A k \in DOMAIN a : a[k] \in PlainStages(drop) /\ Position(a[k]) < 5
           /\ \A k \in DOMAIN b : b[k] \in PlainStages(drop) /\ Position(b[k]) > 7
           /\ \A k, l \in DOMAIN a : k < l => Position(a[k]) < Position(a[l])
           /\ \A k, l \in DOMAIN b : k < l => Position(b[k]) < Position(b[l])
           /\ ToSet(a) \cup ToSet(b) = ToSet(active_stages) \cap PlainStages(drop)
<1> DEFINE P == PlainStages(drop)
           at == UpdatePlace
           n == Len(active_stages)
           a == StagesBefore(drop)
           b == StagesAfter(drop)
<1>1. /\ active_stages \in Seq(LoopStages) /\ n \in Nat /\ DOMAIN active_stages = 1..n
      /\ \A k, l \in 1..n : k < l => Position(active_stages[k]) < Position(active_stages[l])
  BY ActiveFacts
<1>2. at \in 1..n /\ active_stages[at] = "PreUpdate"
  <2>1. "PreUpdate" \in LoopStages \ RenderStages
    BY OrderFacts DEF UpdateStages, RenderStages
  <2> QED BY <1>1, <2>1, ActiveFacts DEF UpdatePlace
<1>3. Position("PreUpdate") = 5
  BY OrderFacts, PositionFacts
<1> HIDE DEF at
<1>4. /\ a \in Seq(LoopStages) /\ DOMAIN a = 1..Len(a)
      /\ \A k \in DOMAIN a : a[k] \in P /\ \E i \in 1..at : a[k] = active_stages[i]
      /\ \A k, l \in DOMAIN a : k < l => Position(a[k]) < Position(a[l])
      /\ \A i \in 1..at : active_stages[i] \in P => \E k \in DOMAIN a : a[k] = active_stages[i]
  <2>1. 1 \in DOMAIN active_stages /\ at \in DOMAIN active_stages /\ 1 <= at
    BY <1>1, <1>2
  <2>2. a = Keep(SubSeq(active_stages, 1, at), P)
    BY DEF StagesBefore, at
  <2> HIDE DEF P, a
  <2> QED BY <2>1, <2>2, SegmentFacts
<1>5. /\ b \in Seq(LoopStages) /\ DOMAIN b = 1..Len(b)
      /\ \A k \in DOMAIN b : b[k] \in P /\ \E i \in at..n : b[k] = active_stages[i]
      /\ \A k, l \in DOMAIN b : k < l => Position(b[k]) < Position(b[l])
      /\ \A i \in at..n : active_stages[i] \in P => \E k \in DOMAIN b : b[k] = active_stages[i]
  <2>1. n \in DOMAIN active_stages /\ at \in DOMAIN active_stages /\ at <= n
    BY <1>1, <1>2
  <2>2. b = Keep(SubSeq(active_stages, at, n), P)
    BY DEF StagesAfter, at
  <2> HIDE DEF P, n, b
  <2> QED BY <2>1, <2>2, SegmentFacts
<1>6. \A steps \in Nat : FramePlan(steps, drop) = (a \o UpdateRounds(steps)) \o b
  BY DEF FramePlan, StagesBefore, StagesAfter, UpdatePlace
<1>7. \A s \in P : s \in LoopStages /\ s \notin UpdateStages
  BY DEF PlainStages
<1> HIDE DEF a, b, P, n
<1>8. \A k \in DOMAIN a : a[k] \in P /\ Position(a[k]) < 5
  <2> SUFFICES ASSUME NEW k \in DOMAIN a PROVE a[k] \in P /\ Position(a[k]) < 5
    OBVIOUS
  <2>1. PICK i \in 1..at : a[k] = active_stages[i]
    BY <1>4
  <2>2. a[k] \in P /\ i # at /\ i \in 1..n /\ i < at
    BY <1>1, <1>2, <1>4, <1>7, <2>1 DEF UpdateStages
  <2> QED BY <1>1, <1>2, <1>3, <2>1, <2>2
<1>9. \A k \in DOMAIN b : b[k] \in P /\ Position(b[k]) > 7
  <2> SUFFICES ASSUME NEW k \in DOMAIN b PROVE b[k] \in P /\ Position(b[k]) > 7
    OBVIOUS
  <2>1. PICK i \in at..n : b[k] = active_stages[i]
    BY <1>5
  <2>2. b[k] \in P /\ i # at /\ i \in 1..n /\ at < i
    BY <1>1, <1>2, <1>5, <1>7, <2>1, SMTT(30) DEF UpdateStages
  <2>3. Position(b[k]) > 5
    BY <1>1, <1>2, <1>3, <2>1, <2>2, PositionFacts
  <2>4. Position(b[k]) \in 1..12 /\ Position(b[k]) \notin 5..7
    BY <1>7, <2>2, PositionFacts
  <2> QED BY <2>2, <2>3, <2>4
<1>10. ToSet(a) \cup ToSet(b) = ToSet(active_stages) \cap P
  <2>1. ASSUME NEW i \in 1..n, active_stages[i] \in P PROVE active_stages[i] \in ToSet(a) \cup ToSet(b)
    <3>1. i \in 1..at \/ i \in at..n
      BY <1>1, <1>2
    <3> QED BY <1>4, <1>5, <2>1, <3>1 DEF ToSet
  <2>2. 1..at \subseteq 1..n /\ at..n \subseteq 1..n
    BY <1>1, <1>2
  <2>3. \A k \in DOMAIN a : a[k] \in ToSet(active_stages) \cap P
    BY <1>1, <1>4, <2>2 DEF ToSet
  <2>4. \A k \in DOMAIN b : b[k] \in ToSet(active_stages) \cap P
    BY <1>1, <1>5, <2>2 DEF ToSet
  <2>5. ToSet(active_stages) \cap P \subseteq ToSet(a) \cup ToSet(b)
    BY <1>1, <2>1 DEF ToSet
  <2> QED BY <2>3, <2>4, <2>5 DEF ToSet
<1> QED BY <1>4, <1>5, <1>6, <1>8, <1>9, <1>10 DEF P, a, b

\* Every plan of a frame is in baseline order, with its update rounds in one place.
LEMMA PlanFacts ==
  ASSUME Accepted, NEW steps \in Nat, NEW drop \in BOOLEAN,
         drop => policy.profile \in {"Headless", "DeterministicHost"}
  PROVE  WellFormedPlan(FramePlan(steps, drop), steps, drop)
<1> DEFINE a == StagesBefore(drop)
           u == UpdateRounds(steps)
           b == StagesAfter(drop)
           plan == FramePlan(steps, drop)
           la == Len(a)
           lb == Len(b)
           lu == 3 * steps
           round == <<"PreUpdate", "Update", "PostUpdate">>
           P == PlainStages(drop)
           A == ToSet(active_stages)
<1>1. /\ a \in Seq(LoopStages) /\ b \in Seq(LoopStages) /\ plan = (a \o u) \o b
      /\ \A k \in DOMAIN a : a[k] \in P /\ Position(a[k]) < 5
      /\ \A k \in DOMAIN b : b[k] \in P /\ Position(b[k]) > 7
      /\ \A k, l \in DOMAIN a : k < l => Position(a[k]) < Position(a[l])
      /\ \A k, l \in DOMAIN b : k < l => Position(b[k]) < Position(b[l])
      /\ ToSet(a) \cup ToSet(b) = A \cap P
  BY PlanParts
<1>2. /\ u \in Seq(LoopStages) /\ Len(u) = lu /\ DOMAIN u = 1..lu /\ lu \in Nat
      /\ \A i \in 1..lu : u[i] = round[((i - 1) % 3) + 1] /\ u[i] \in UpdateStages
  BY RoundsFacts
<1>3. A \subseteq LoopStages /\ UpdateStages \subseteq A /\ (LoopStages \ RenderStages) \subseteq A
  <2>1. A \subseteq LoopStages
    BY ActiveFacts DEF ToSet
  <2>2. LoopStages \ RenderStages \subseteq A
    BY ActiveFacts DEF ToSet
  <2>3. UpdateStages \subseteq LoopStages \ RenderStages
    BY OrderFacts DEF UpdateStages, RenderStages
  <2> QED BY <2>1, <2>2, <2>3
<1>4. P = {s \in LoopStages \ UpdateStages : ~(drop /\ s \in RenderStages)}
  BY DEF PlainStages, IsOptionalForProfile
<1>5. /\ round[1] = "PreUpdate" /\ round[2] = "Update" /\ round[3] = "PostUpdate"
  OBVIOUS
<1> HIDE DEF a, u, b, plan, la, lb, lu, round, P, A
<1>6. /\ plan \in Seq(LoopStages) /\ Len(plan) = la + lu + lb /\ la \in Nat /\ lb \in Nat
      /\ DOMAIN a = 1..la /\ DOMAIN b = 1..lb /\ DOMAIN plan = 1..(la + lu + lb)
      /\ \A i \in 1..la : plan[i] = a[i]
      /\ \A i \in 1..lu : plan[la + i] = u[i]
      /\ \A i \in 1..lb : plan[la + lu + i] = b[i]
  <2> DEFINE au == a \o u
  <2>1. /\ au \in Seq(LoopStages) /\ Len(au) = la + lu /\ la \in Nat /\ DOMAIN a = 1..la
        /\ \A i \in 1..(la + lu) : au[i] = IF i <= la THEN a[i] ELSE u[i - la]
    <3>1. /\ au \in Seq(LoopStages) /\ Len(au) = Len(a) + Len(u)
          /\ \A i \in 1..(Len(a) + Len(u)) : au[i] = IF i <= Len(a) THEN a[i] ELSE u[i - Len(a)]
      BY <1>1, <1>2, ConcatProperties
    <3>2. Len(a) \in Nat /\ DOMAIN a = 1..Len(a)
      BY <1>1
    <3> HIDE DEF au
    <3> QED BY <1>2, <3>1, <3>2 DEF la
  <2>2. lb \in Nat /\ DOMAIN b = 1..lb
    BY <1>1 DEF lb
  <2> HIDE DEF au
  <2>3. /\ plan \in Seq(LoopStages) /\ Len(plan) = la + lu + lb
        /\ \A i \in 1..(la + lu + lb) : plan[i] = IF i <= la + lu THEN au[i] ELSE b[i - (la + lu)]
    BY <1>1, <2>1, <2>2, ConcatProperties DEF au, lb
  <2>4. \A i \in 1..la : plan[i] = a[i]
    BY <1>2, <2>1, <2>2, <2>3
  <2>5. \A i \in 1..lu : plan[la + i] = u[i]
    <3> SUFFICES ASSUME NEW i \in 1..lu PROVE plan[la + i] = u[i]
      OBVIOUS
    <3>1. la + i \in 1..(la + lu) /\ la + i \in 1..(la + lu + lb) /\ ~(la + i <= la) /\ (la + i) - la = i
      BY <1>2, <2>1, <2>2
    <3> QED BY <1>2, <2>1, <2>3, <3>1
  <2>6. \A i \in 1..lb : plan[la + lu + i] = b[i]
    <3> SUFFICES ASSUME NEW i \in 1..lb PROVE plan[la + lu + i] = b[i]
      OBVIOUS
    <3>1. /\ la + lu + i \in 1..(la + lu + lb) /\ ~(la + lu + i <= la + lu)
          /\ (la + lu + i) - (la + lu) = i
      BY <1>2, <2>1, <2>2
    <3> QED BY <1>2, <2>1, <2>3, <3>1
  <2>7. DOMAIN plan = 1..(la + lu + lb)
    BY <2>3
  <2> QED BY <2>1, <2>2, <2>3, <2>4, <2>5, <2>6, <2>7
\* Where an item of the plan comes from.
<1>7. ASSUME NEW i \in DOMAIN plan
      PROVE  \/ i \in 1..la /\ plan[i] = a[i] /\ plan[i] \in P /\ Position(plan[i]) < 5
             \/ i - la \in 1..lu /\ plan[i] = u[i - la] /\ plan[i] \in UpdateStages
             \/ /\ i - (la + lu) \in 1..lb /\ plan[i] = b[i - (la + lu)]
                /\ plan[i] \in P /\ Position(plan[i]) > 7
  <2>1. CASE i \in 1..la
    BY <1>1, <1>6, <2>1
  <2>2. CASE i - la \in 1..lu
    <3>1. la + (i - la) = i
      BY <1>6
    <3> QED BY <1>2, <1>6, <2>2, <3>1
  <2>3. CASE i - (la + lu) \in 1..lb
    <3>1. la + lu + (i - (la + lu)) = i
      BY <1>2, <1>6
    <3> QED BY <1>1, <1>6, <2>3, <3>1
  <2> QED BY <1>2, <1>6, <2>1, <2>2, <2>3, SMTT(30)
<1>8. P \cap UpdateStages = {} /\ P \subseteq LoopStages
  BY <1>4
\* The items of the plan.
<1>9. ToSet(plan) = (A \cap P) \cup (IF steps = 0 THEN {} ELSE UpdateStages)
  <2>1. ASSUME NEW i \in DOMAIN plan PROVE plan[i] \in (A \cap P) \cup (IF steps = 0 THEN {} ELSE UpdateStages)
    <3>1. i \in 1..la => a[i] \in A \cap P
      BY <1>1, <1>6 DEF ToSet
    <3>2. i - (la + lu) \in 1..lb => b[i - (la + lu)] \in A \cap P
      BY <1>1, <1>6 DEF ToSet
    <3>3. i - la \in 1..lu => steps # 0
      BY DEF lu
    <3> QED BY <1>7, <3>1, <3>2, <3>3
  <2>2. ToSet(a) \subseteq ToSet(plan) /\ ToSet(b) \subseteq ToSet(plan)
    <3>1. \A i \in 1..la : i \in DOMAIN plan
      BY <1>2, <1>6
    <3>2. \A i \in 1..lb : la + lu + i \in DOMAIN plan
      BY <1>2, <1>6
    <3> QED BY <1>6, <3>1, <3>2 DEF ToSet
  <2>3. steps # 0 => UpdateStages \subseteq ToSet(plan)
    <3> SUFFICES ASSUME steps # 0 PROVE UpdateStages \subseteq ToSet(plan)
      OBVIOUS
    <3>1. 1 \in 1..lu /\ 2 \in 1..lu /\ 3 \in 1..lu
      BY DEF lu
    <3>2. u[1] = round[1] /\ u[2] = round[2] /\ u[3] = round[3]
      BY <1>2, <3>1
    <3>3. \A i \in 1..lu : la + i \in DOMAIN plan
      BY <1>2, <1>6
    <3>4. plan[la + 1] = round[1] /\ plan[la + 2] = round[2] /\ plan[la + 3] = round[3]
      BY <1>6, <3>1, <3>2
    <3> QED BY <1>5, <3>1, <3>3, <3>4 DEF ToSet, UpdateStages
  <2>4. ToSet(plan) \subseteq (A \cap P) \cup (IF steps = 0 THEN {} ELSE UpdateStages)
    BY <2>1 DEF ToSet
  <2> QED BY <1>1, <2>2, <2>3, <2>4
<1>10. /\ ToSet(plan) \subseteq A
       /\ LoopStages \ (RenderStages \cup UpdateStages) \subseteq ToSet(plan)
       /\ A \ ToSet(plan) = (IF drop THEN A \cap RenderStages ELSE {})
                              \cup (IF steps = 0 THEN UpdateStages ELSE {})
  <2>1. RenderStages \cap UpdateStages = {}
    BY DEF RenderStages, UpdateStages
  <2> QED BY <1>3, <1>4, <1>9, <2>1
\* The order of the plain stages.
<1>11. ASSUME NEW i \in DOMAIN plan, NEW j \in DOMAIN plan, i < j,
              plan[i] \notin UpdateStages, plan[j] \notin UpdateStages
       PROVE  Position(plan[i]) < Position(plan[j])
  <2>1. CASE i \in 1..la /\ j \in 1..la
    BY <1>1, <1>6, <1>11, <2>1
  <2>2. CASE i - (la + lu) \in 1..lb /\ j - (la + lu) \in 1..lb
    <3>1. /\ plan[i] = b[i - (la + lu)] /\ plan[j] = b[j - (la + lu)]
          /\ i - (la + lu) < j - (la + lu)
      BY <1>2, <1>6, <1>7, <1>11, <2>2
    <3> QED BY <1>1, <1>6, <2>2, <3>1
  <2>3. CASE i \in 1..la /\ j - (la + lu) \in 1..lb
    <3>1. /\ Position(plan[i]) < 5 /\ Position(plan[j]) > 7
          /\ Position(plan[i]) \in 1..12 /\ Position(plan[j]) \in 1..12
      <4>1. Position(plan[i]) < 5 /\ plan[i] \in P
        BY <1>2, <1>6, <1>7, <2>3
      <4>2. Position(plan[j]) > 7 /\ plan[j] \in P
        BY <1>2, <1>6, <1>7, <2>3
      <4> QED BY <1>8, <4>1, <4>2, PositionFacts
    <3> QED BY <3>1
  <2> QED BY <1>2, <1>6, <1>7, <1>11, <2>1, <2>2, <2>3
\* Every update has its neighbours.
<1>12. ASSUME NEW i \in DOMAIN plan, plan[i] = "Update"
       PROVE  /\ plan[i - 1] = "PreUpdate" /\ plan[i + 1] = "PostUpdate"
              /\ \E k \in 1..steps : i = la + 3 * (k - 1) + 2
  <2> DEFINE j == i - la
  <2>1. "Update" \in UpdateStages
    BY DEF UpdateStages
  <2>2. j \in 1..lu /\ u[j] = "Update" /\ i = la + j /\ j \in Nat
    BY <1>2, <1>6, <1>7, <1>8, <1>12, <2>1
  <2> HIDE DEF j
  <2>3. (j - 1) % 3 = 1
    <3>1. (j - 1) % 3 \in 0..2 /\ u[j] = round[((j - 1) % 3) + 1]
      BY <1>2, <2>2
    <3> QED BY <1>5, <2>2, <3>1
  <2>4. /\ j - 1 \in 1..lu /\ j + 1 \in 1..lu
        /\ ((j - 1) - 1) % 3 = 0 /\ ((j + 1) - 1) % 3 = 2
    BY <1>2, <2>2, <2>3 DEF lu
  <2>5. u[j - 1] = "PreUpdate" /\ u[j + 1] = "PostUpdate"
    BY <1>2, <1>5, <2>4
  <2>6. plan[la + (j - 1)] = u[j - 1] /\ plan[la + (j + 1)] = u[j + 1]
    BY <1>6, <2>4
  <2>7. la + (j - 1) = i - 1 /\ la + (j + 1) = i + 1
    BY <1>6, <2>2
  <2>8. \E k \in 1..steps : i = la + 3 * (k - 1) + 2
    <3> DEFINE k == ((j - 1) \div 3) + 1
    <3>1. j - 1 = 3 * ((j - 1) \div 3) + 1 /\ (j - 1) \div 3 \in Nat
      BY <2>2, <2>3
    <3>2. k \in 1..steps
      BY <2>2, <3>1 DEF lu
    <3>3. i = la + 3 * (k - 1) + 2
      BY <1>6, <2>2, <3>1
    <3> QED BY <3>2, <3>3
  <2> QED BY <2>5, <2>6, <2>7, <2>8
<1>13. Cardinality({i \in DOMAIN plan : plan[i] = "Update"}) = steps
  <2> DEFINE U == {i \in DOMAIN plan : plan[i] = "Update"}
             V == {la + 3 * (k - 1) + 2 : k \in 1..steps}
  <2>1. U \subseteq V
    BY <1>12
  <2>2. ASSUME NEW k \in 1..steps PROVE la + 3 * (k - 1) + 2 \in U
    <3> DEFINE j == 3 * (k - 1) + 2
    <3>1. j \in 1..lu /\ (j - 1) % 3 = 1
      BY DEF lu
    <3>2. la + j \in DOMAIN plan /\ la + j = la + 3 * (k - 1) + 2
      BY <1>2, <1>6, <3>1
    <3> HIDE DEF j
    <3>3. plan[la + j] = "Update"
      <4>1. ((j - 1) % 3) + 1 = 2
        BY <3>1
      <4>2. u[j] = round[2]
        BY <1>2, <3>1, <4>1
      <4> QED BY <1>5, <1>6, <3>1, <4>2
    <3> QED BY <3>2, <3>3
  <2>3. U = V
    BY <2>1, <2>2
  <2> HIDE DEF U
  <2>4. Cardinality(U) = steps
    BY <1>6, <2>3, RoundsCount
  <2> QED BY <2>4 DEF U
\* EndFrame comes last.
<1>14. plan # <<>> /\ plan[Len(plan)] = "EndFrame"
  <2>1. Position("EndFrame") = 12 /\ "EndFrame" \in LoopStages
    BY OrderFacts, PositionFacts
  <2>2. "EndFrame" \in LoopStages \ (RenderStages \cup UpdateStages)
    BY <2>1 DEF RenderStages, UpdateStages
  <2>3. PICK i \in DOMAIN plan : plan[i] = "EndFrame"
    BY <1>10, <2>2 DEF ToSet
  <2>4. i - (la + lu) \in 1..lb
    BY <1>7, <2>1, <2>2, <2>3
  <2>5. CASE i < Len(plan)
    <3>1. Len(plan) \in DOMAIN plan /\ Len(plan) - (la + lu) \in 1..lb
      BY <1>2, <1>6, <2>4
    <3>2. plan[Len(plan)] \in P
      <4> DEFINE l == Len(plan)
      <4>1. l \in DOMAIN plan /\ l \notin 1..la /\ l - la \notin 1..lu
        BY <1>2, <1>6, <3>1
      <4> HIDE DEF l
      <4>2. plan[l] \in P
        BY <1>7, <4>1
      <4> QED BY <4>2 DEF l
    <3>3. plan[Len(plan)] \notin UpdateStages /\ Position(plan[Len(plan)]) \in 1..12
      BY <1>8, <3>2, PositionFacts
    <3>4. Position("EndFrame") < Position(plan[Len(plan)])
      BY <1>11, <2>2, <2>3, <2>5, <3>1, <3>3
    <3> QED BY <2>1, <3>3, <3>4
  <2>6. i <= Len(plan) /\ Len(plan) \in Nat
    BY <1>2, <1>6
  <2> QED BY <1>6, <2>3, <2>5, <2>6
<1> QED BY <1>6, <1>10, <1>11, <1>12, <1>13, <1>14 DEF WellFormedPlan, plan, A

-----------------------------------------------------------------------------
(***************************************************************************)
(* The timing decision of a frame.                                         *)
(***************************************************************************)
\* Whole and remaining deltas of an amount of time.
LEMMA DivisionFacts ==
  ASSUME NEW a \in Nat, NEW d \in Nat \ {0}
  PROVE  /\ a \div d \in Nat /\ a % d \in Nat /\ a % d <= a
         /\ a = d * (a \div d) + (a % d)
         /\ a < d <=> a \div d = 0
         /\ a < d => a % d = a
         /\ 2 * d <= a <=> a \div d > 1
OBVIOUS

\* What a policy that was accepted says about time.
LEMMA AcceptedFacts ==
  ASSUME Accepted
  PROVE  /\ policy.fixed_delta_ns \in 0..Max64 /\ policy.max_catch_up_steps \in 0..Max32
         /\ policy.fixed_delta_ns \in Nat /\ policy.max_catch_up_steps \in Nat
         /\ FixedDelta => policy.fixed_delta_ns \in Nat \ {0}
<1>1. policy.fixed_delta_ns \in 0..Max64 /\ policy.max_catch_up_steps \in 0..Max32
  BY DEF Accepted, LoopPolicies
<1>2. policy.fixed_delta_ns \in Nat /\ policy.max_catch_up_steps \in Nat
  BY <1>1, WordsAssumption
<1>3. FixedDelta => policy.fixed_delta_ns > 0
  BY DEF Accepted, ValidateLoopPolicy, FixedDelta
<1> QED BY <1>1, <1>2, <1>3

\* What the timing decision computes from the clock, within the words.
LEMMA TimingFacts ==
  ASSUME Accepted, accumulator \in 0..Max64, NEW elapsed \in Elapsed
  PROVE  LET requested == RequestedSteps(elapsed)
             time == Accumulated(elapsed)
             delta == policy.fixed_delta_ns
         IN /\ Observed(elapsed) \in Nat /\ time \in 0..Max64 /\ time \in Nat
            /\ accumulator + Observed(elapsed) <= Max64 => time = accumulator + Observed(elapsed)
            /\ requested \in 1..Max32
            /\ requested > 1 => FixedDelta /\ 2 * delta <= time
            /\ FixedDelta /\ time \div delta <= Max32 =>
                 /\ time < delta => requested = 1
                 /\ time >= delta => requested = time \div delta
<1> DEFINE time == Accumulated(elapsed)
           delta == policy.fixed_delta_ns
           whole == time \div delta
<1>1. Max64 \in Nat /\ Max32 \in Nat \ {0} /\ delta \in Nat /\ accumulator \in Nat
  BY AcceptedFacts, WordsAssumption
<1>2. Observed(elapsed) \in Nat
  BY <1>1, AcceptedFacts, PoliciesAssumption DEF Observed
<1>3. /\ time \in 0..Max64 /\ time \in Nat
      /\ accumulator + Observed(elapsed) <= Max64 => time = accumulator + Observed(elapsed)
  BY <1>1, <1>2 DEF Accumulated
<1> HIDE DEF time
<1>4. FixedDelta => /\ whole \in Nat
                    /\ time < delta <=> whole = 0
                    /\ 2 * delta <= time <=> whole > 1
  BY <1>3, AcceptedFacts, DivisionFacts
<1>5. /\ ~FixedDelta => RequestedSteps(elapsed) = 1
      /\ FixedDelta => RequestedSteps(elapsed) = IF whole = 0 THEN 1 ELSE IF whole > Max32 THEN Max32 ELSE whole
  BY DEF RequestedSteps, time
<1> HIDE DEF whole
<1>6. RequestedSteps(elapsed) \in 1..Max32
  BY <1>1, <1>4, <1>5
<1>7. RequestedSteps(elapsed) > 1 => FixedDelta /\ 2 * delta <= time
  BY <1>1, <1>4, <1>5
<1>8. FixedDelta /\ whole <= Max32 =>
        /\ time < delta => RequestedSteps(elapsed) = 1
        /\ time >= delta => RequestedSteps(elapsed) = whole
  BY <1>1, <1>3, <1>4, <1>5
<1> QED BY <1>2, <1>3, <1>6, <1>7, <1>8 DEF time, whole

\* The steps of a frame are at most the requested ones and within the budget.
LEMMA StepsFacts ==
  ASSUME Accepted, NEW requested \in 1..Max32
  PROVE  LET steps == StepsToRun(requested)
         IN /\ steps \in Nat /\ steps \in 0..requested /\ steps \in 0..Max32
            /\ steps <= 1 + (IF policy.overrun_mode = "CatchUpBounded"
                             THEN policy.max_catch_up_steps ELSE 0)
            /\ steps = 0 => policy.max_catch_up_steps = Max32 /\ requested > 1
            /\ policy.overrun_mode # "CatchUpBounded" => steps = 1
<1> DEFINE allowed == MaxAllowedSteps
           steps == StepsToRun(requested)
<1>1. Max32 \in Nat \ {0} /\ policy.max_catch_up_steps \in 0..Max32
  BY AcceptedFacts, WordsAssumption
<1>2. /\ allowed \in Nat /\ allowed <= 1 + policy.max_catch_up_steps
      /\ allowed = 0 => policy.max_catch_up_steps = Max32
  BY <1>1 DEF MaxAllowedSteps
<1> HIDE DEF allowed
<1>3. Min({requested, allowed}) = IF requested <= allowed THEN requested ELSE allowed
  <2> DEFINE least == IF requested <= allowed THEN requested ELSE allowed
  <2>1. least \in {requested, allowed} /\ \A y \in {requested, allowed} : least <= y
    BY <1>1, <1>2
  <2>2. \A x \in {requested, allowed} : (\A y \in {requested, allowed} : x <= y) => x = least
    BY <1>1, <1>2
  <2> QED BY <2>1, <2>2 DEF Min
<1>4. steps = IF policy.overrun_mode = "CatchUpBounded" /\ requested > 1
              THEN Min({requested, allowed}) ELSE 1
  BY DEF StepsToRun, allowed
<1> HIDE DEF steps
<1>5. steps \in Nat /\ steps \in 0..requested /\ steps \in 0..Max32
  BY <1>1, <1>2, <1>3, <1>4
<1>6. steps <= 1 + (IF policy.overrun_mode = "CatchUpBounded" THEN policy.max_catch_up_steps ELSE 0)
  BY <1>1, <1>2, <1>3, <1>4
<1>7. steps = 0 => policy.max_catch_up_steps = Max32 /\ requested > 1
  BY <1>1, <1>2, <1>3, <1>4
<1> QED BY <1>4, <1>5, <1>6, <1>7 DEF steps

-----------------------------------------------------------------------------
(***************************************************************************)
(* The loop.                                                               *)
(***************************************************************************)
\* Until a policy was accepted there is nothing to run; a policy that was accepted
\* stays, with its stages, when a later one is refused.
LoopState ==
  \/ active_stages = <<>> /\ ~loop_configured /\ to_run = <<>> /\ executed = <<>>
  \/ Accepted

\* What a frame has run and has still to run is its plan, for a number of update
\* steps that the policy allows.
FrameState ==
  in_frame \/ executed # <<>> =>
    /\ executed \o to_run = FramePlan(update_steps, dropping)
    /\ dropping => policy.profile \in {"Headless", "DeterministicHost"}
    /\ update_steps <= 1 + (IF policy.overrun_mode = "CatchUpBounded"
                            THEN policy.max_catch_up_steps ELSE 0)
    /\ update_steps = 0 => policy.max_catch_up_steps = Max32 /\ dropped_steps > 1
    /\ policy.overrun_mode = "FailFast" => update_steps = 1 /\ ~dropping

\* The members of the loop have their types.
LoopTypeOK ==
  /\ policy \in LoopPolicies /\ active_stages \in Seq(LoopStages)
  /\ accumulator \in 0..Max64 /\ update_steps \in 0..Max32 /\ dropped_steps \in 0..Max32
  /\ executed \in Seq(LoopStages) /\ to_run \in Seq(LoopStages)
  /\ loop_configured \in BOOLEAN /\ dropping \in BOOLEAN

LoopInvariant == LoopTypeOK /\ LoopState /\ FrameState

\* The plan of a frame depends on the policy and its stages only.
LEMMA PlanKept ==
  ASSUME UNCHANGED <<policy, active_stages>>
  PROVE  /\ Accepted' <=> Accepted
         /\ \A steps, drop : FramePlan(steps, drop)' = FramePlan(steps, drop)
<1>1. policy' = policy /\ active_stages' = active_stages
  OBVIOUS
<1>2. Accepted' <=> Accepted
  BY <1>1 DEF Accepted, ValidateLoopPolicy, IsOptionalForProfile, ActiveOf
<1>3. ASSUME NEW drop PROVE PlainStages(drop)' = PlainStages(drop)
  BY <1>1 DEF PlainStages, IsOptionalForProfile
<1>4. \A steps, drop : FramePlan(steps, drop)' = FramePlan(steps, drop)
  BY <1>1, <1>3 DEF FramePlan
<1> QED BY <1>2, <1>4

\* Steps that do not touch the loop keep its invariant.
LEMMA LoopKept ==
  ASSUME LoopInvariant, UNCHANGED loopVars
  PROVE  LoopInvariant'
<1>1. /\ policy' = policy /\ active_stages' = active_stages /\ loop_configured' = loop_configured
      /\ accumulator' = accumulator /\ update_steps' = update_steps
      /\ dropped_steps' = dropped_steps /\ dropping' = dropping /\ executed' = executed
      /\ to_run' = to_run
  BY DEF loopVars, frameVars
<1>2. Accepted' <=> Accepted
  BY <1>1, PlanKept
<1>3. FramePlan(update_steps, dropping)' = FramePlan(update_steps, dropping)
  BY <1>1, PlanKept
<1>4. LoopTypeOK'
  BY <1>1 DEF LoopInvariant, LoopTypeOK
<1>5. LoopState'
  BY <1>1, <1>2 DEF LoopInvariant, LoopState
<1>6. FrameState'
  BY <1>1, <1>3 DEF LoopInvariant, FrameState, in_frame
<1> QED BY <1>4, <1>5, <1>6 DEF LoopInvariant

\* A new loop runner satisfies the invariant.
LEMMA LoopInitial ==
  ASSUME LoopInit PROVE LoopInvariant
<1>1. policy \in LoopPolicies
  BY WordsAssumption DEF LoopInit, LoopPolicies
<1>2. LoopTypeOK
  <2>1. 0 \in 0..Max64 /\ 1 \in 0..Max32 /\ 0 \in 0..Max32 /\ <<>> \in Seq(LoopStages)
    BY WordsAssumption
  <2> QED BY <1>1, <2>1 DEF LoopInit, LoopTypeOK
<1> QED BY <1>2 DEF LoopInit, LoopInvariant, LoopState, FrameState, in_frame

\* Configure, accepted or refused, outside a frame.
LEMMA ConfigureLoopStep ==
  ASSUME LoopInvariant, ~in_frame, NEW p \in Policies, ConfigureLoop(p)
  PROVE  LoopInvariant' /\ ~in_frame'
<1>1. CASE ~ValidateLoopPolicy(p)
  <2>1. /\ loop_configured' = FALSE /\ policy' = policy /\ active_stages' = active_stages
        /\ accumulator' = accumulator /\ update_steps' = update_steps
        /\ dropped_steps' = dropped_steps /\ dropping' = dropping /\ executed' = executed
        /\ to_run' = to_run
    BY <1>1 DEF ConfigureLoop, frameVars
  <2>2. Accepted' <=> Accepted
    BY <2>1, PlanKept
  <2>3. FramePlan(update_steps, dropping)' = FramePlan(update_steps, dropping)
    BY <2>1, PlanKept
  <2>4. LoopTypeOK'
    BY <2>1 DEF LoopInvariant, LoopTypeOK
  <2>5. LoopState'
    BY <2>1, <2>2 DEF LoopInvariant, LoopState
  <2>6. FrameState'
    BY <2>1, <2>3 DEF LoopInvariant, FrameState, in_frame
  <2> QED BY <2>1, <2>4, <2>5, <2>6 DEF LoopInvariant, in_frame
<1>2. CASE ValidateLoopPolicy(p)
  <2>1. /\ loop_configured' = TRUE /\ policy' = p /\ active_stages' = ActiveOf(p)
        /\ accumulator' = 0 /\ update_steps' = 1 /\ dropped_steps' = 0 /\ dropping' = FALSE
        /\ executed' = <<>> /\ to_run' = to_run
    BY <1>2 DEF ConfigureLoop, ActiveOf
  <2>2. Accepted'
    BY <1>2, <2>1, PoliciesAssumption
       DEF Accepted, ActiveOf, ValidateLoopPolicy, IsOptionalForProfile
  <2>3. active_stages' \in Seq(LoopStages)
    <3> DEFINE kept == LoopStages \ p.disabled_optional_stages
    <3>1. active_stages' = Keep(BaselineLoopStageOrder, kept)
      BY <2>1 DEF ActiveOf
    <3> HIDE DEF kept
    <3>2. BaselineLoopStageOrder \in Seq(LoopStages)
      BY OrderFacts
    <3> QED BY <3>1, <3>2, KeepFacts
  <2>4. LoopTypeOK'
    <3>1. 0 \in 0..Max64 /\ 1 \in 0..Max32 /\ 0 \in 0..Max32
      BY WordsAssumption
    <3>2. policy' \in LoopPolicies /\ <<>> \in Seq(LoopStages)
      BY <2>1, PoliciesAssumption
    <3> QED BY <2>1, <2>3, <3>1, <3>2 DEF LoopInvariant, LoopTypeOK
  <2>5. to_run' = <<>>
    BY <2>1 DEF in_frame
  <2> QED BY <2>1, <2>2, <2>4, <2>5 DEF LoopInvariant, LoopState, FrameState, in_frame
<1> QED BY <1>1, <1>2

\* A frame that begins has a well-formed plan.
LEMMA BeginFrameStep ==
  ASSUME LoopInvariant, NEW elapsed \in Elapsed, BeginFrame(elapsed)
  PROVE  LoopInvariant' /\ in_frame'
<1> DEFINE requested == RequestedSteps(elapsed)
<1>1. /\ loop_configured /\ ~FailsFast(elapsed)
      /\ update_steps' = StepsToRun(requested) /\ dropped_steps' = requested - update_steps'
      /\ accumulator' = Remainder(elapsed)
      /\ dropping' = /\ DropsNonCritical(elapsed)
                     /\ \E s \in ToSet(active_stages) : IsOptionalForProfile(policy.profile, s)
      /\ executed' = <<>> /\ to_run' = FramePlan(update_steps', dropping')
      /\ loop_configured' = loop_configured /\ policy' = policy /\ active_stages' = active_stages
  BY DEF BeginFrame
<1>2. Accepted /\ LoopTypeOK /\ accumulator \in 0..Max64
  BY <1>1 DEF LoopInvariant, LoopState, LoopTypeOK
<1>3. /\ requested \in 1..Max32 /\ Accumulated(elapsed) \in 0..Max64 /\ Accumulated(elapsed) \in Nat
      /\ Max32 \in Nat
  BY <1>2, TimingFacts, WordsAssumption
<1> HIDE DEF requested
<1>4. /\ update_steps' \in Nat /\ update_steps' \in 0..requested /\ update_steps' \in 0..Max32
      /\ update_steps' <= 1 + (IF policy.overrun_mode = "CatchUpBounded"
                               THEN policy.max_catch_up_steps ELSE 0)
      /\ update_steps' = 0 => policy.max_catch_up_steps = Max32 /\ requested > 1
      /\ policy.overrun_mode # "CatchUpBounded" => update_steps' = 1
  BY <1>1, <1>2, <1>3, StepsFacts
<1>5. dropped_steps' \in 0..Max32 /\ (update_steps' = 0 => dropped_steps' > 1)
  BY <1>1, <1>3, <1>4
<1>6. /\ dropping' \in BOOLEAN
      /\ dropping' => policy.profile \in {"Headless", "DeterministicHost"}
      /\ dropping' => policy.overrun_mode = "DropNonCritical"
  BY <1>1 DEF DropsNonCritical, IsOptionalForProfile
<1>7. accumulator' \in 0..Max64
  <2>1. CASE FixedDelta
    <3> DEFINE a == Accumulated(elapsed)
    <3>1. policy.fixed_delta_ns \in Nat \ {0} /\ a \in Nat
      BY <1>2, <1>3, <2>1, AcceptedFacts
    <3> HIDE DEF a
    <3>2. a % policy.fixed_delta_ns \in Nat /\ a % policy.fixed_delta_ns <= a
      BY <3>1, DivisionFacts
    <3>3. accumulator' = a % policy.fixed_delta_ns
      BY <1>1, <2>1 DEF Remainder, a
    <3> QED BY <1>3, <3>2, <3>3, WordsAssumption DEF a
  <2>2. CASE ~FixedDelta
    BY <1>1, <2>2, WordsAssumption DEF Remainder
  <2> QED BY <2>1, <2>2
<1> DEFINE steps == update_steps'
           drop == dropping'
           plan == FramePlan(steps, drop)
<1>8. plan \in Seq(LoopStages) /\ plan # <<>>
  <2>1. steps \in Nat /\ drop \in BOOLEAN /\ (drop => policy.profile \in {"Headless", "DeterministicHost"})
    BY <1>4, <1>6
  <2> HIDE DEF steps, drop
  <2> QED BY <1>2, <2>1, PlanFacts DEF WellFormedPlan
<1>9. to_run' = plan
  BY <1>1
<1>10. FramePlan(update_steps, dropping)' = plan
  BY <1>1, PlanKept
<1> HIDE DEF plan, steps, drop
<1>11. LoopTypeOK'
  <2>1. <<>> \in Seq(LoopStages)
    OBVIOUS
  <2>2. to_run' \in Seq(LoopStages) /\ executed' \in Seq(LoopStages)
    BY <1>1, <1>8, <1>9, <2>1
  <2>3. loop_configured' \in BOOLEAN /\ policy' \in LoopPolicies /\ active_stages' \in Seq(LoopStages)
    BY <1>1, <1>2 DEF LoopTypeOK
  <2>4. update_steps' \in 0..Max32 /\ dropped_steps' \in 0..Max32 /\ dropping' \in BOOLEAN
    BY <1>4, <1>5, <1>6
  <2> QED BY <1>7, <2>2, <2>3, <2>4 DEF LoopTypeOK
<1>12. LoopState'
  BY <1>1, <1>2, PlanKept DEF LoopState
<1>13. FrameState'
  <2>1. executed' \o to_run' = plan
    BY <1>1, <1>8, <1>9, ConcatEmptySeq
  <2> QED BY <1>1, <1>4, <1>5, <1>6, <1>10, <2>1 DEF FrameState
<1> QED BY <1>8, <1>9, <1>11, <1>12, <1>13 DEF LoopInvariant, in_frame

\* A frame refused by the fail-fast policy runs nothing.
LEMMA FailFrameStep ==
  ASSUME LoopInvariant, ~in_frame, NEW elapsed \in Elapsed, FailFrame(elapsed)
  PROVE  LoopInvariant' /\ ~in_frame'
<1>1. /\ loop_configured /\ FailsFast(elapsed)
      /\ update_steps' = 1 /\ dropped_steps' = 0 /\ dropping' = FALSE
      /\ accumulator' = Accumulated(elapsed)
      /\ loop_configured' = loop_configured /\ policy' = policy /\ active_stages' = active_stages
      /\ executed' = executed /\ to_run' = to_run
  BY DEF FailFrame
<1>2. Accepted /\ LoopTypeOK /\ accumulator \in 0..Max64
  BY <1>1 DEF LoopInvariant, LoopState, LoopTypeOK
<1>3. accumulator' \in 0..Max64
  BY <1>1, <1>2, TimingFacts
<1>4. policy.overrun_mode = "FailFast" /\ ~in_frame'
  BY <1>1 DEF FailsFast, in_frame
<1>5. LoopTypeOK'
  <2>1. 1 \in 0..Max32 /\ 0 \in 0..Max32
    BY WordsAssumption
  <2> QED BY <1>1, <1>2, <1>3, <2>1 DEF LoopTypeOK
<1>6. LoopState'
  BY <1>1, <1>2, PlanKept DEF LoopState
<1>7. FrameState'
  <2>1. ~in_frame /\ FrameState
    BY DEF LoopInvariant
  <2>2. CASE executed = <<>>
    BY <1>1, <1>4, <2>2 DEF FrameState
  <2>3. CASE executed # <<>>
    <3>1. /\ executed \o to_run = FramePlan(update_steps, dropping)
          /\ update_steps = 1 /\ ~dropping
      BY <1>4, <2>1, <2>3 DEF FrameState
    <3>2. dropping = FALSE
      BY <1>2, <3>1 DEF LoopTypeOK
    <3>3. FramePlan(update_steps, dropping)' = FramePlan(update_steps, dropping)
      BY <1>1, <3>1, <3>2, PlanKept
    <3>4. policy.max_catch_up_steps \in Nat
      BY <1>2, AcceptedFacts
    <3>5. update_steps' <= 1 + (IF policy'.overrun_mode = "CatchUpBounded"
                                THEN policy'.max_catch_up_steps ELSE 0)
      BY <1>1, <3>4
    <3> QED BY <1>1, <3>1, <3>3, <3>5 DEF FrameState
  <2> QED BY <2>2, <2>3
<1> QED BY <1>4, <1>5, <1>6, <1>7 DEF LoopInvariant

\* A stage that is executed is a stage of the plan; a handler is not the frame's last.
LEMMA ExecuteStageStep ==
  ASSUME LoopInvariant, ExecuteStage
  PROVE  /\ LoopInvariant' /\ executed' # <<>> /\ Last(executed') \in LoopStages
         /\ Last(executed') \in ToSet(active_stages)
         /\ Last(executed') \in HandledStages => in_frame'
<1> DEFINE n == NextCall
           handled == {i \in DOMAIN to_run : to_run[i] \in HandledStages}
           steps == update_steps
           drop == dropping
           plan == FramePlan(steps, drop)
<1>1. /\ in_frame /\ executed' = executed \o SubSeq(to_run, 1, n)
      /\ to_run' = SubSeq(to_run, n + 1, Len(to_run))
      /\ loop_configured' = loop_configured /\ policy' = policy /\ active_stages' = active_stages
      /\ accumulator' = accumulator /\ update_steps' = update_steps
      /\ dropped_steps' = dropped_steps /\ dropping' = dropping
  BY DEF ExecuteStage
<1>2. LoopTypeOK /\ Accepted /\ to_run # <<>> /\ FrameState
  BY <1>1 DEF LoopInvariant, LoopState, in_frame
<1>3. executed \in Seq(LoopStages) /\ to_run \in Seq(LoopStages)
  BY <1>2 DEF LoopTypeOK
<1>4. DOMAIN to_run = 1..Len(to_run) /\ Len(to_run) \in Nat \ {0}
  BY <1>2, <1>3
<1>5. /\ n \in 1..Len(to_run)
      /\ \A i \in 1..Len(to_run) : i < n => to_run[i] \notin HandledStages
      /\ to_run[n] \in HandledStages \/ n = Len(to_run)
  <2>1. CASE handled = {}
    <3>1. n = Len(to_run)
      BY <2>1 DEF NextCall
    <3> QED BY <1>4, <2>1, <3>1
  <2>2. CASE handled # {}
    <3>1. n = Min(handled)
      BY <2>2 DEF NextCall
    <3>2. handled \in SUBSET Nat
      BY <1>4
    <3> HIDE DEF handled, n
    <3>3. n \in handled /\ \A y \in handled : n <= y
      BY <2>2, <3>1, <3>2, MinFacts
    <3> QED BY <1>4, <3>3 DEF handled
  <2> QED BY <2>1, <2>2
<1> HIDE DEF n, handled
<1>6. /\ executed' \in Seq(LoopStages) /\ to_run' \in Seq(LoopStages)
      /\ executed' \o to_run' = executed \o to_run
      /\ executed' # <<>> /\ Len(executed') \in Nat /\ executed'[Len(executed')] = to_run[n]
      /\ n < Len(to_run) => to_run' # <<>>
  <2>1. n \in 1..Len(to_run)
    BY <1>5
  <2>2. executed' = MovedTo(executed, to_run, n) /\ to_run' = LeftBy(to_run, n)
    BY <1>1 DEF MovedTo, LeftBy
  <2>3. executed' \in Seq(LoopStages) /\ to_run' \in Seq(LoopStages)
    BY <1>3, <2>1, <2>2, MoveFacts
  <2>4. executed' \o to_run' = executed \o to_run
    BY <1>3, <2>1, <2>2, MoveFacts
  <2>5. executed' # <<>> /\ Len(executed') \in Nat
    BY <1>3, <2>1, <2>2, MoveFacts
  <2>6. executed'[Len(executed')] = to_run[n]
    BY <1>3, <2>1, <2>2, MoveFacts
  <2>7. n < Len(to_run) => to_run' # <<>>
    BY <1>3, <2>1, <2>2, MoveFacts
  <2> QED BY <2>3, <2>4, <2>5, <2>6, <2>7
<1>7. FrameState /\ executed \o to_run = plan
  BY <1>1, <1>2 DEF FrameState
<1>8. steps \in Nat /\ drop \in BOOLEAN /\ (drop => policy.profile \in {"Headless", "DeterministicHost"})
  <2>1. drop \in BOOLEAN /\ update_steps \in 0..Max32
    BY <1>2 DEF LoopTypeOK
  <2>2. steps \in Nat
    BY <2>1, WordsAssumption
  <2> QED BY <1>1, <1>2, <2>1, <2>2 DEF FrameState
<1>9. WellFormedPlan(plan, steps, drop)
  <2> HIDE DEF steps, drop
  <2> QED BY <1>2, <1>8, PlanFacts
<1> HIDE DEF plan
<1>10. /\ DOMAIN plan = 1..Len(plan) /\ Len(plan) = Len(executed) + Len(to_run)
       /\ \A i \in 1..Len(to_run) : Len(executed) + i \in DOMAIN plan /\ plan[Len(executed) + i] = to_run[i]
  <2> DEFINE all == executed \o to_run
  <2>1. /\ all \in Seq(LoopStages) /\ Len(all) = Len(executed) + Len(to_run)
        /\ \A i \in 1..(Len(executed) + Len(to_run)) :
             all[i] = IF i <= Len(executed) THEN executed[i] ELSE to_run[i - Len(executed)]
    BY <1>3, ConcatProperties
  <2>2. Len(executed) \in Nat
    BY <1>3
  <2> HIDE DEF all
  <2>3. ASSUME NEW i \in 1..Len(to_run)
        PROVE Len(executed) + i \in 1..Len(all) /\ all[Len(executed) + i] = to_run[i]
    <3>1. /\ Len(executed) + i \in 1..(Len(executed) + Len(to_run)) /\ ~(Len(executed) + i <= Len(executed))
          /\ (Len(executed) + i) - Len(executed) = i
      BY <1>4, <2>2
    <3> QED BY <2>1, <3>1
  <2>4. DOMAIN all = 1..Len(all)
    BY <2>1
  <2>5. plan = all
    BY <1>7 DEF all
  <2> QED BY <2>1, <2>3, <2>4, <2>5
<1>11. Last(executed') = to_run[n]
  BY <1>6 DEF Last
<1>12. to_run[n] \in LoopStages /\ to_run[n] \in ToSet(active_stages)
  <2>1. to_run[n] \in ToSet(plan)
    BY <1>5, <1>10 DEF ToSet
  <2>2. ToSet(plan) \subseteq ToSet(active_stages)
    BY <1>9 DEF WellFormedPlan
  <2>3. to_run[n] \in LoopStages
    BY <1>3, <1>5, ElementOfSeq
  <2> QED BY <2>1, <2>2, <2>3
<1>13. to_run[n] \in HandledStages => in_frame'
  <2>1. to_run[Len(to_run)] = "EndFrame"
    BY <1>4, <1>9, <1>10 DEF WellFormedPlan
  <2>2. "EndFrame" \notin HandledStages
    BY DEF HandledStages, RenderStages
  <2>3. to_run[n] \in HandledStages => n # Len(to_run)
    BY <2>1, <2>2
  <2>4. n # Len(to_run) => n < Len(to_run)
    <3> DEFINE l == Len(to_run)
    <3>1. n \in 1..l /\ l \in Nat
      BY <1>4, <1>5
    <3> HIDE DEF l
    <3>2. n # l => n < l
      BY <3>1
    <3> QED BY <3>2 DEF l
  <2> QED BY <1>6, <2>3, <2>4 DEF in_frame
<1>14. LoopTypeOK'
  BY <1>1, <1>2, <1>6 DEF LoopTypeOK
<1>15. LoopState'
  BY <1>1, <1>2, PlanKept DEF LoopState
<1>16. FrameState'
  <2>1. FramePlan(update_steps, dropping)' = plan
    BY <1>1, PlanKept DEF plan
  <2> QED BY <1>1, <1>2, <1>6, <1>7, <2>1 DEF FrameState
<1> QED BY <1>6, <1>11, <1>12, <1>13, <1>14, <1>15, <1>16 DEF LoopInvariant

-----------------------------------------------------------------------------
(***************************************************************************)
(* Types and frames of the runtime.                                        *)
(***************************************************************************)
MembersOK ==
  /\ counters \in [FaultClasses -> 0..Max32]
  /\ platform_host \in PlatformHosts \cup {None} /\ window_host \in WindowHosts \cup {None}
  /\ live \subseteq PlatformHosts \cup WindowHosts
  /\ fault_configured \in BOOLEAN /\ input_runtime \in BOOLEAN /\ configured \in BOOLEAN
  /\ running \in BOOLEAN /\ platform_initialized \in BOOLEAN /\ window_created \in BOOLEAN
  /\ frame_failed \in BOOLEAN /\ calling \in BOOLEAN

HistoryOK ==
  /\ owed \in Int /\ degraded \in Nat
  /\ lost \in BOOLEAN /\ overran \in BOOLEAN /\ wrapped \in BOOLEAN /\ swapped \in BOOLEAN

\* A handler waits for its callee only inside a frame, which EndFrame has still to end,
\* and in an active stage.
CallState ==
  calling => in_frame /\ executed # <<>> /\ Last(executed) \in ToSet(active_stages) \cap LoopStages

FrameInvariant == LoopInvariant /\ MembersOK /\ HistoryOK /\ CallState

\* The invariant contains the types.
LEMMA FrameInvariantTypes ==
  FrameInvariant => HostTypeOK
BY DEF FrameInvariant, LoopInvariant, LoopTypeOK, MembersOK, HostTypeOK

\* A new runtime satisfies the invariant.
LEMMA FrameInitial ==
  Init => FrameInvariant
<1> SUFFICES ASSUME Init PROVE FrameInvariant
  OBVIOUS
<1>1. LoopInvariant
  BY LoopInitial DEF Init, HostInit
<1>2. NoFaults \in [FaultClasses -> 0..Max32]
  BY WordsAssumption DEF NoFaults
<1>3. MembersOK
  BY <1>2 DEF Init, HostInit, FaultInit, MembersOK
<1>4. HistoryOK
  <2>1. owed \in Int /\ degraded \in Nat
    BY DEF Init
  <2>2. lost \in BOOLEAN /\ overran \in BOOLEAN /\ wrapped \in BOOLEAN /\ swapped \in BOOLEAN
    BY DEF Init
  <2> QED BY <2>1, <2>2 DEF HistoryOK
<1>5. CallState
  BY DEF Init, HostInit, CallState
<1> QED BY <1>1, <1>3, <1>4, <1>5 DEF FrameInvariant

\* Steps that leave the loop alone.
LEMMA CallKept ==
  ASSUME CallState, UNCHANGED loopVars, calling' => calling
  PROVE  CallState'
BY DEF CallState, loopVars, frameVars, in_frame

\* The history variables keep their types.
LEMMA StepHistoryTypes ==
  ASSUME HistoryOK, StepHistory
  PROVE  HistoryOK'
<1>1. wrapped' \in BOOLEAN /\ swapped' \in BOOLEAN
  BY DEF StepHistory
<1>2. degraded' \in Nat
  BY DEF HistoryOK, StepHistory
<1> QED BY <1>1, <1>2 DEF HistoryOK, StepHistory

\* A counted fault stays in its word.
LEMMA CountFaultTypes ==
  ASSUME MembersOK, NEW c \in FaultClasses, NEW violation, CountFault(Fault(c, violation))
  PROVE  counters' \in [FaultClasses -> 0..Max32] /\ fault_configured' \in BOOLEAN
<1>1. Fault(c, violation).fault_class = c
  BY DEF Fault
<1>2. ObservedCount(c) \in 0..Max32
  <2>1. counters[c] \in Nat /\ Max32 \in Nat
    BY WordsAssumption DEF MembersOK
  <2> QED BY <2>1 DEF ObservedCount
<1> QED BY <1>1, <1>2 DEF CountFault, MembersOK

\* What the client calls, inside a frame or outside, keeps the invariant.
LEMMA ClientFrame ==
  ASSUME FrameInvariant, ClientStep, StepHistory
  PROVE  FrameInvariant'
<1>0. LoopInvariant /\ MembersOK /\ HistoryOK /\ CallState
  BY DEF FrameInvariant
<1>1. SUFFICES UNCHANGED loopVars /\ calling' = calling /\ MembersOK'
  BY <1>0, LoopKept, CallKept, StepHistoryTypes DEF FrameInvariant
<1>2. ASSUME NEW h \in PlatformHosts \cup {None}, SetPlatformHost(h)
      PROVE UNCHANGED loopVars /\ calling' = calling /\ MembersOK'
  BY <1>0, <1>2 DEF SetPlatformHost, MembersOK, faultVars, hostFlags
<1>3. ASSUME NEW h \in WindowHosts \cup {None}, SetWindowHost(h)
      PROVE UNCHANGED loopVars /\ calling' = calling /\ MembersOK'
  BY <1>0, <1>3 DEF SetWindowHost, MembersOK, faultVars, hostFlags
<1>4. ASSUME NEW set \in BOOLEAN, SetInputRuntime(set)
      PROVE UNCHANGED loopVars /\ calling' = calling /\ MembersOK'
  BY <1>0, <1>4 DEF SetInputRuntime, MembersOK, faultVars, hostFlags
<1>5. CASE StartFails
  BY <1>0, <1>5 DEF StartFails, MembersOK, faultVars, hostFlags
<1>6. ASSUME NEW ok \in BOOLEAN, NEW t \in BOOLEAN, StartInitialised(ok, t)
      PROVE UNCHANGED loopVars /\ calling' = calling /\ MembersOK'
  <2>1. PICK p \in PlatformHosts, w \in WindowHosts \cup {None} :
          /\ platform_host' = p /\ window_host' = w
          /\ LET up == HasActiveRenderStages => w # None /\ ok
             IN /\ running' = up
                /\ window_created' = (up /\ HasActiveRenderStages)
                /\ platform_initialized' = (up \/ ~t)
                /\ live' = live \cup (IF platform_initialized' THEN {p} ELSE {})
                                \cup (IF window_created' THEN {w} ELSE {})
    BY <1>6 DEF StartInitialised
  <2>2. running' \in BOOLEAN /\ window_created' \in BOOLEAN /\ platform_initialized' \in BOOLEAN
    BY <2>1
  <2>3. window_created' => w \in WindowHosts
    BY <2>1
  <2>4. live' \subseteq PlatformHosts \cup WindowHosts
    BY <1>0, <2>1, <2>3 DEF MembersOK
  <2>5. UNCHANGED loopVars /\ calling' = calling
    BY <1>6 DEF StartInitialised
  <2>6. UNCHANGED <<faultVars, input_runtime, configured, frame_failed>>
    BY <1>6 DEF StartInitialised
  <2> QED BY <1>0, <2>1, <2>2, <2>4, <2>5, <2>6 DEF MembersOK, faultVars
<1>7. ASSUME NEW w \in BOOLEAN, NEW p \in BOOLEAN, Stop(w, p)
      PROVE UNCHANGED loopVars /\ calling' = calling /\ MembersOK'
  <2>1. running' \in BOOLEAN /\ window_created' \in BOOLEAN /\ platform_initialized' \in BOOLEAN
        /\ frame_failed' \in BOOLEAN
    BY <1>0, <1>7 DEF Stop, MembersOK
  <2>2. live' \subseteq live
    BY <1>7 DEF Stop
  <2>3. UNCHANGED <<loopVars, faultVars, hosts, configured, calling>>
    BY <1>7 DEF Stop
  <2> QED BY <1>0, <2>1, <2>2, <2>3 DEF MembersOK, faultVars, hosts
<1> QED BY <1>2, <1>3, <1>4, <1>5, <1>6, <1>7 DEF ClientStep

\* Which stages call a host, and the fault class they report.
LEMMA StageFacts ==
  ASSUME NEW stage
  PROVE  /\ StageClass(stage) \in FaultClasses
         /\ CallsOut(stage) \in BOOLEAN
         /\ CallsOut(stage) => stage \in HandledStages
<1>1. Callee(stage) # None => stage \in RenderStages \cup {"ProcessPlatformEvents"}
  BY DEF Callee
<1> QED BY <1>1 DEF StageClass, FaultClasses, CallsOut, HandledStages

\* A stage begins.
LEMMA BeginStageFrame ==
  ASSUME FrameInvariant, BeginStage, StepHistory
  PROVE  FrameInvariant'
<1>0. LoopInvariant /\ MembersOK /\ HistoryOK /\ CallState
  BY DEF FrameInvariant
<1> DEFINE stage == Last(executed')
<1>1. /\ LoopInvariant' /\ executed' # <<>> /\ stage \in LoopStages
      /\ stage \in ToSet(active_stages)
      /\ stage \in HandledStages => in_frame'
      /\ active_stages' = active_stages
  BY <1>0, ExecuteStageStep DEF BeginStage, ExecuteStage
<1>2. /\ calling' = CallsOut(stage)
      /\ IF NeedsHost(stage) /\ ~CallsOut(stage)
         THEN HandleStageFault(Fault(StageClass(stage), TRUE)) ELSE NoFault
      /\ UNCHANGED <<hosts, configured, hostFlags>>
  BY DEF BeginStage
<1> HIDE DEF stage
<1>3. CallState'
  <2>1. calling' => in_frame' /\ stage \in ToSet(active_stages') \cap LoopStages
    BY <1>1, <1>2, StageFacts
  <2> QED BY <1>1, <2>1 DEF CallState, stage
<1>4. counters' \in [FaultClasses -> 0..Max32] /\ fault_configured' \in BOOLEAN /\ frame_failed' \in BOOLEAN
  <2>1. CASE HandleStageFault(Fault(StageClass(stage), TRUE))
    BY <1>0, <2>1, CountFaultTypes, StageFacts DEF HandleStageFault
  <2>2. CASE NoFault
    BY <1>0, <2>2 DEF NoFault, faultVars, MembersOK
  <2> QED BY <1>2, <2>1, <2>2
<1>5. calling' \in BOOLEAN
  BY <1>2, StageFacts
<1>6. MembersOK'
  BY <1>0, <1>2, <1>4, <1>5 DEF MembersOK, hosts, hostFlags
<1> QED BY <1>0, <1>1, <1>3, <1>6, StepHistoryTypes DEF FrameInvariant

\* A stage returns, with or without a fault.
LEMMA ReturnFrame ==
  ASSUME FrameInvariant, NEW ok \in BOOLEAN, Return(ok), StepHistory
  PROVE  FrameInvariant'
<1>0. LoopInvariant /\ MembersOK /\ HistoryOK /\ CallState
  BY DEF FrameInvariant
<1> DEFINE stage == Last(executed)
<1>1. /\ calling' = FALSE
      /\ IF ok THEN NoFault
         ELSE HandleStageFault(Fault(StageClass(stage), stage \notin RenderStages))
      /\ UNCHANGED <<loopVars, hosts, configured, hostFlags>>
  BY DEF Return
<1> HIDE DEF stage
<1>2. counters' \in [FaultClasses -> 0..Max32] /\ fault_configured' \in BOOLEAN /\ frame_failed' \in BOOLEAN
  <2>1. CASE HandleStageFault(Fault(StageClass(stage), stage \notin RenderStages))
    BY <1>0, <2>1, CountFaultTypes, StageFacts DEF HandleStageFault
  <2>2. CASE NoFault
    BY <1>0, <2>2 DEF NoFault, faultVars, MembersOK
  <2> QED BY <1>1, <2>1, <2>2
<1>3. MembersOK'
  BY <1>0, <1>1, <1>2 DEF MembersOK, hosts, hostFlags
<1> QED BY <1>0, <1>1, <1>3, LoopKept, CallKept, StepHistoryTypes DEF FrameInvariant

\* Configure keeps the invariant.
LEMMA ConfigureFrame ==
  ASSUME FrameInvariant, NEW p \in Policies, Configure(p), ConfigureHistory
  PROVE  FrameInvariant'
<1>0. LoopInvariant /\ MembersOK /\ HistoryOK /\ CallState
  BY DEF FrameInvariant
<1>1. ~in_frame /\ ~calling /\ UNCHANGED <<hosts, hostFlags, calling>>
  BY <1>0 DEF Configure, CallState
<1>2. LoopInvariant' /\ ~in_frame'
  <2>1. CASE running \/ CleanupPending
    <3>1. UNCHANGED loopVars
      BY <2>1 DEF Configure
    <3>2. ~in_frame'
      BY <1>1, <3>1 DEF in_frame, loopVars, frameVars
    <3> QED BY <1>0, <3>1, <3>2, LoopKept
  <2>2. CASE ~(running \/ CleanupPending)
    BY <1>0, <1>1, <2>2, ConfigureLoopStep DEF Configure
  <2> QED BY <2>1, <2>2
<1>3. /\ counters' \in [FaultClasses -> 0..Max32] /\ fault_configured' \in BOOLEAN
      /\ frame_failed' \in BOOLEAN /\ configured' \in BOOLEAN
  <2>1. NoFaults \in [FaultClasses -> 0..Max32]
    BY WordsAssumption DEF NoFaults
  <2>2. UNCHANGED faultVars \/ ConfigureFaults
    BY DEF Configure
  <2>3. counters' \in [FaultClasses -> 0..Max32] /\ fault_configured' \in BOOLEAN
    BY <1>0, <2>1, <2>2 DEF MembersOK, faultVars, ConfigureFaults
  <2>4. frame_failed' \in BOOLEAN
    BY <1>0 DEF MembersOK, Configure
  <2>5. configured' \in BOOLEAN
    BY DEF Configure, ValidateLoopPolicy
  <2> QED BY <2>3, <2>4, <2>5
<1>4. MembersOK'
  BY <1>0, <1>1, <1>3 DEF MembersOK, hosts, hostFlags
<1>5. HistoryOK'
  <2>1. owed' \in Int /\ degraded' \in Nat
    BY <1>0 DEF HistoryOK, ConfigureHistory
  <2>2. lost' \in BOOLEAN /\ overran' \in BOOLEAN /\ wrapped' \in BOOLEAN /\ swapped' \in BOOLEAN
    BY <1>0 DEF HistoryOK, ConfigureHistory
  <2> QED BY <2>1, <2>2 DEF HistoryOK
<1>6. CallState'
  BY <1>1 DEF CallState
<1> QED BY <1>2, <1>4, <1>5, <1>6 DEF FrameInvariant

\* Tick begins a frame or refuses it.
LEMMA TickFrame ==
  ASSUME FrameInvariant, NEW elapsed \in Elapsed, Tick(elapsed), TickHistory(elapsed)
  PROVE  FrameInvariant'
<1>0. LoopInvariant /\ MembersOK /\ HistoryOK /\ CallState
  BY DEF FrameInvariant
<1>1. ~in_frame /\ ~calling /\ frame_failed' = FALSE
      /\ UNCHANGED <<faultVars, hosts, configured, hostFlags, calling>>
  BY <1>0 DEF Tick, CallState
<1>2. LoopInvariant'
  BY <1>0, <1>1, BeginFrameStep, FailFrameStep DEF Tick
<1>3. MembersOK'
  BY <1>0, <1>1 DEF MembersOK, faultVars, hosts, hostFlags
<1>4. CallState'
  BY <1>1 DEF CallState
<1>5. owed' \in Int
  <2>1. Accepted /\ accumulator \in 0..Max64
    BY <1>0 DEF LoopInvariant, LoopState, LoopTypeOK, Tick, BeginFrame, FailFrame
  <2>2. Observed(elapsed) \in Nat /\ policy.fixed_delta_ns \in Nat
    BY <2>1, TimingFacts, AcceptedFacts
  <2>3. update_steps' \in Nat /\ dropped_steps' \in Nat
    BY <1>2, WordsAssumption DEF LoopInvariant, LoopTypeOK
  <2>4. PaidSteps(elapsed) \in Nat
    <3> DEFINE run == update_steps'
               dropped == dropped_steps'
    <3>1. run \in Nat /\ dropped \in Nat
      BY <2>3
    <3>2. PaidSteps(elapsed) = 0 \/ PaidSteps(elapsed) = run + dropped
      BY DEF PaidSteps
    <3> HIDE DEF run, dropped
    <3> QED BY <3>1, <3>2
  <2>5. policy.fixed_delta_ns * PaidSteps(elapsed) \in Nat
    BY <2>2, <2>4
  <2>6. FrameCost(elapsed) \in Nat /\ owed \in Int
    BY <1>0, <2>5 DEF FrameCost, HistoryOK
  <2>7. CASE FixedDelta
    <3>1. owed' = IF lost' THEN 0 ELSE owed + Observed(elapsed) - FrameCost(elapsed)
      BY <2>7 DEF TickHistory, TimeHistory
    <3> QED BY <2>2, <2>6, <3>1
  <2>8. CASE ~FixedDelta
    BY <2>6, <2>8 DEF TickHistory
  <2> QED BY <2>7, <2>8
<1>6. HistoryOK'
  <2>1. overran' \in BOOLEAN
    BY DEF TickHistory
  <2>2. lost' \in BOOLEAN
    BY <1>0 DEF TickHistory, TimeHistory, HistoryOK
  <2> QED BY <1>0, <1>5, <2>1, <2>2 DEF HistoryOK, TickHistory
<1> QED BY <1>2, <1>3, <1>4, <1>6 DEF FrameInvariant

\* Every step keeps the invariant of the frame.
LEMMA FrameKept ==
  FrameInvariant /\ [Next]_vars => FrameInvariant'
<1> SUFFICES ASSUME FrameInvariant, [Next]_vars PROVE FrameInvariant'
  OBVIOUS
<1>1. CASE \E elapsed \in Elapsed : TicksBounded /\ Tick(elapsed) /\ TickHistory(elapsed)
  BY <1>1, TickFrame
<1>2. CASE \E p \in Policies : Configure(p) /\ ConfigureHistory
  BY <1>2, ConfigureFrame
<1>3. CASE ClientStep /\ StepHistory
  BY <1>3, ClientFrame
<1>4. CASE FrameStep /\ StepHistory
  BY <1>4, BeginStageFrame, ReturnFrame DEF FrameStep
<1>5. CASE UNCHANGED vars
  <2>1. /\ UNCHANGED loopVars /\ UNCHANGED calling
        /\ UNCHANGED <<faultVars, hosts, configured, hostFlags, frame_failed>> /\ UNCHANGED history
    BY <1>5 DEF vars, hostVars
  <2>2. MembersOK' /\ HistoryOK'
    BY <2>1 DEF FrameInvariant, MembersOK, HistoryOK, faultVars, hosts, hostFlags, history
  <2> QED BY <2>1, <2>2, LoopKept, CallKept DEF FrameInvariant
<1> QED BY <1>1, <1>2, <1>3, <1>4, <1>5 DEF Next

\* The members of the runtime, of its loop and of its fault policy have their types: no
\* step count, counter or accumulator leaves its word, and a stage is never invented.
THEOREM HostTypeCorrect ==
  Spec => []HostTypeOK
<1>1. Init /\ [][Next]_vars => []FrameInvariant
  BY FrameInitial, FrameKept, PTL
<1>2. FrameInvariant => HostTypeOK
  BY FrameInvariantTypes
<1> QED BY <1>1, <1>2, PTL DEF Spec

\* FrameIsWellFormed holds of every frame: what a frame has run and has still to run is
\* the plan its timing decision made, and every plan is well formed.
THEOREM EveryFrameIsWellFormed ==
  Spec => []FrameIsWellFormed
<1>1. Init /\ [][Next]_vars => []FrameInvariant
  BY FrameInitial, FrameKept, PTL
<1>2. FrameInvariant => FrameIsWellFormed
  <2> SUFFICES ASSUME FrameInvariant, ~in_frame, executed # <<>> PROVE FrameIsWellFormed
    BY DEF FrameIsWellFormed
  <2>1. LoopTypeOK /\ Accepted /\ FrameState /\ to_run = <<>>
    BY DEF FrameInvariant, LoopInvariant, LoopState, in_frame
  <2>2. executed = FramePlan(update_steps, dropping)
    <3>1. executed \o to_run = executed
      BY <2>1, ConcatEmptySeq DEF LoopTypeOK
    <3> QED BY <2>1, <3>1 DEF FrameState
  <2>3. update_steps \in Nat /\ dropping \in BOOLEAN /\ (dropping => policy.profile \in {"Headless", "DeterministicHost"})
    <3>1. dropping \in BOOLEAN /\ update_steps \in 0..Max32
      BY <2>1 DEF LoopTypeOK
    <3>2. update_steps \in Nat
      BY <3>1, WordsAssumption
    <3> QED BY <2>1, <3>1, <3>2 DEF FrameState
  <2>4. WellFormedPlan(executed, update_steps, dropping)
    BY <2>1, <2>2, <2>3, PlanFacts
  <2>5. /\ update_steps <= 1 + (IF policy.overrun_mode = "CatchUpBounded"
                                THEN policy.max_catch_up_steps ELSE 0)
        /\ update_steps = 0 => policy.max_catch_up_steps = Max32 /\ dropped_steps > 1
    BY <2>1 DEF FrameState
  <2> QED BY <2>4, <2>5 DEF WellFormedPlan, FrameIsWellFormed
<1> QED BY <1>1, <1>2, PTL DEF Spec

-----------------------------------------------------------------------------
(***************************************************************************)
(* Time and refused frames.                                                *)
(***************************************************************************)
\* A refused frame leaves two deltas at least, which refuse the next frame as well.
OverrunState ==
  overran /\ ~lost =>
    /\ ~in_frame
    /\ loop_configured => /\ FixedDelta /\ policy.overrun_mode = "FailFast"
                          /\ 2 * policy.fixed_delta_ns <= accumulator

TimeInvariant == FrameInvariant /\ TimeIsConserved /\ OverrunState

\* What the accumulator keeps of a frame that was begun is what its steps do not pay for.
LEMMA BeginFrameTime ==
  ASSUME FrameInvariant, TimeIsConserved, FixedDelta, NEW elapsed \in Elapsed,
         BeginFrame(elapsed), TimeHistory(elapsed), ~lost'
  PROVE  owed' = accumulator'
<1> DEFINE time == Accumulated(elapsed)
           delta == policy.fixed_delta_ns
           seen == Observed(elapsed)
           run == update_steps'
           dropped == dropped_steps'
<1>1. Accepted /\ accumulator \in 0..Max64 /\ loop_configured /\ accumulator \in Nat
  BY WordsAssumption DEF FrameInvariant, LoopInvariant, LoopState, LoopTypeOK, BeginFrame
<1>2. /\ ~lost /\ accumulator + seen <= Max64 /\ time \div delta <= Max32
      /\ owed' = owed + seen - FrameCost(elapsed)
  <2>1. time \in Nat /\ delta \in Nat \ {0} /\ seen \in Nat /\ Max64 \in Nat /\ Max32 \in Nat
    BY <1>1, TimingFacts, AcceptedFacts, WordsAssumption
  <2>2. time \div delta \in Nat
    BY <2>1, DivisionFacts
  <2>3. ~lost /\ ~(accumulator + seen > Max64) /\ ~(time \div delta > Max32)
    BY DEF TimeHistory
  <2>4. owed' = owed + seen - FrameCost(elapsed)
    BY DEF TimeHistory
  <2> QED BY <1>1, <2>1, <2>2, <2>3, <2>4
<1>3. owed = accumulator
  BY <1>1, <1>2 DEF TimeIsConserved
<1>4. /\ seen \in Nat /\ time \in Nat /\ time = accumulator + seen
      /\ delta \in Nat \ {0} /\ RequestedSteps(elapsed) \in 1..Max32
      /\ time < delta => RequestedSteps(elapsed) = 1
      /\ time >= delta => RequestedSteps(elapsed) = time \div delta
  BY <1>1, <1>2, TimingFacts, AcceptedFacts
<1>5. run + dropped = RequestedSteps(elapsed)
  <2>1. dropped = RequestedSteps(elapsed) - run
    BY DEF BeginFrame
  <2>2. run \in Nat
    BY BeginFrameStep, WordsAssumption DEF FrameInvariant, LoopInvariant, LoopTypeOK
  <2> HIDE DEF run, dropped
  <2> QED BY <1>4, <2>1, <2>2, WordsAssumption
<1>6. in_frame'
  BY BeginFrameStep DEF FrameInvariant
<1>7. PaidSteps(elapsed) = IF time < delta THEN 0 ELSE RequestedSteps(elapsed)
  <2>1. PaidSteps(elapsed) = IF time < delta THEN 0 ELSE run + dropped
    BY DEF PaidSteps
  <2> QED BY <1>5, <2>1
<1>8. accumulator' = time % delta
  BY DEF BeginFrame, Remainder
<1> HIDE DEF time, delta, seen, run, dropped
<1>9. PaidSteps(elapsed) = time \div delta
  <2>1. time < delta <=> time \div delta = 0
    BY <1>4, DivisionFacts
  <2> QED BY <1>4, <1>7, <2>1
<1>10. FrameCost(elapsed) = delta * (time \div delta)
  BY <1>6, <1>9 DEF FrameCost, delta
<1>11. time = delta * (time \div delta) + (time % delta) /\ time % delta \in Nat /\ time \div delta \in Nat
  BY <1>4, DivisionFacts
<1>12. FrameCost(elapsed) \in Nat /\ time = FrameCost(elapsed) + (time % delta)
  <2> DEFINE whole == time \div delta
             rest == time % delta
  <2>1. FrameCost(elapsed) = delta * whole /\ time = delta * whole + rest /\ whole \in Nat /\ delta \in Nat
    BY <1>4, <1>10, <1>11
  <2> HIDE DEF whole, rest
  <2>2. delta * whole \in Nat /\ time = FrameCost(elapsed) + rest
    BY <2>1
  <2> QED BY <2>1, <2>2 DEF rest
<1> QED BY <1>1, <1>2, <1>3, <1>4, <1>8, <1>11, <1>12

\* The timing decision accounts for all the time it observed.
LEMMA TickTime ==
  ASSUME TimeInvariant, NEW elapsed \in Elapsed, Tick(elapsed), TickHistory(elapsed)
  PROVE  TimeIsConserved' /\ OverrunState'
<1> DEFINE time == Accumulated(elapsed)
           delta == policy.fixed_delta_ns
           seen == Observed(elapsed)
<1>0. FrameInvariant /\ TimeIsConserved /\ OverrunState /\ ~in_frame
  BY DEF TimeInvariant, Tick
<1>1. /\ Accepted /\ accumulator \in 0..Max64 /\ loop_configured /\ accumulator \in Nat
      /\ policy' = policy /\ loop_configured' = loop_configured
  <2>1. loop_configured /\ policy' = policy /\ loop_configured' = loop_configured
    BY DEF Tick, BeginFrame, FailFrame
  <2>2. Accepted /\ accumulator \in 0..Max64
    BY <1>0, <2>1 DEF FrameInvariant, LoopInvariant, LoopState, LoopTypeOK
  <2> QED BY <2>1, <2>2, WordsAssumption
<1>2. /\ seen \in Nat /\ time \in Nat /\ RequestedSteps(elapsed) \in 1..Max32 /\ delta \in Nat
      /\ accumulator + seen <= Max64 => time = accumulator + seen
      /\ RequestedSteps(elapsed) > 1 => FixedDelta /\ 2 * delta <= time
      /\ FixedDelta => delta \in Nat \ {0}
      /\ FixedDelta /\ time \div delta <= Max32 /\ time >= delta => RequestedSteps(elapsed) = time \div delta
      /\ Max32 \in Nat /\ Max64 \in Nat
  BY <1>1, TimingFacts, AcceptedFacts, WordsAssumption
<1>3. FixedDelta' <=> FixedDelta
  BY <1>1 DEF FixedDelta
<1>4. FixedDelta /\ ~lost' => /\ ~lost /\ accumulator + seen <= Max64 /\ time \div delta <= Max32
                              /\ owed' = owed + seen - FrameCost(elapsed)
  <2> SUFFICES ASSUME FixedDelta, ~lost'
               PROVE  /\ ~lost /\ accumulator + seen <= Max64 /\ time \div delta <= Max32
                      /\ owed' = owed + seen - FrameCost(elapsed)
    OBVIOUS
  <2>1. time \div delta \in Nat
    BY <1>2, DivisionFacts
  <2>2. TimeHistory(elapsed)
    BY DEF TickHistory
  <2>3. ~lost /\ ~(accumulator + seen > Max64) /\ ~(time \div delta > Max32)
    BY <2>2 DEF TimeHistory
  <2>4. owed' = owed + seen - FrameCost(elapsed)
    BY <2>2 DEF TimeHistory
  <2> QED BY <1>1, <1>2, <2>1, <2>3, <2>4
<1>5. CASE BeginFrame(elapsed)
  <2>1. in_frame'
    BY <1>0, <1>5, BeginFrameStep DEF FrameInvariant
  <2>2. TimeIsConserved'
    <3> SUFFICES ASSUME FixedDelta, ~lost' PROVE owed' = accumulator'
      BY <1>3 DEF TimeIsConserved
    <3> QED BY <1>0, <1>5, BeginFrameTime DEF TickHistory
  <2>3. ~(overran' /\ ~lost')
    <3> SUFFICES ASSUME overran, ~lost' PROVE FALSE
      BY <2>1 DEF TickHistory
    <3>1. ~lost
      BY <1>4 DEF TickHistory
    <3>2. FixedDelta /\ policy.overrun_mode = "FailFast" /\ 2 * delta <= accumulator
      BY <1>0, <1>1, <3>1 DEF OverrunState
    <3>3. time = accumulator + seen /\ time \div delta <= Max32
      BY <1>2, <1>4, <3>2
    <3> HIDE DEF time, delta, seen
    <3>4. 2 * delta <= time /\ time >= delta
      BY <1>1, <1>2, <3>2, <3>3
    <3>5. time \div delta > 1
      BY <1>2, <3>2, <3>4, DivisionFacts
    <3>6. RequestedSteps(elapsed) > 1
      BY <1>2, <3>2, <3>3, <3>4, <3>5
    <3>7. FailsFast(elapsed)
      BY <3>2, <3>6 DEF FailsFast, Overrun
    <3> QED BY <1>5, <3>7 DEF BeginFrame
  <2> QED BY <2>2, <2>3 DEF OverrunState
<1>6. CASE FailFrame(elapsed)
  <2>1. /\ ~in_frame' /\ accumulator' = time /\ FixedDelta /\ 2 * delta <= time
        /\ policy.overrun_mode = "FailFast"
    BY <1>0, <1>2, <1>6 DEF FailFrame, FailsFast, Overrun, in_frame
  <2>2. OverrunState'
    BY <1>1, <1>3, <2>1 DEF OverrunState
  <2>3. TimeIsConserved'
    <3> SUFFICES ASSUME ~lost' PROVE owed' = accumulator'
      BY DEF TimeIsConserved
    <3>1. ~lost /\ time = accumulator + seen /\ owed' = owed + seen - FrameCost(elapsed)
      BY <1>2, <1>4, <2>1
    <3>2. owed = accumulator
      BY <1>0, <1>1, <2>1, <3>1 DEF TimeIsConserved
    <3>3. FrameCost(elapsed) = 0
      BY <2>1 DEF FrameCost
    <3> HIDE DEF time, seen
    <3> QED BY <1>1, <1>2, <2>1, <3>1, <3>2, <3>3
  <2> QED BY <2>2, <2>3
<1> QED BY <1>5, <1>6 DEF Tick

\* Configure forgets the time along with the accumulator.
LEMMA ConfigureTime ==
  ASSUME TimeInvariant, NEW p \in Policies, Configure(p), ConfigureHistory
  PROVE  TimeIsConserved' /\ OverrunState'
<1>0. FrameInvariant /\ TimeIsConserved /\ OverrunState /\ ~in_frame
  BY DEF TimeInvariant, Configure
<1>1. CASE running \/ CleanupPending
  <2>1. UNCHANGED loopVars /\ configured' = FALSE
    BY <1>1 DEF Configure
  <2>2. UNCHANGED <<owed, lost, overran>>
    BY <2>1 DEF ConfigureHistory
  <2> QED BY <1>0, <2>1, <2>2 DEF TimeIsConserved, OverrunState, FixedDelta, in_frame, loopVars, frameVars
<1>2. CASE ~(running \/ CleanupPending) /\ ~ValidateLoopPolicy(p)
  <2>1. loop_configured' = FALSE /\ to_run' = to_run
    BY <1>2 DEF Configure, ConfigureLoop, frameVars
  <2> QED BY <1>0, <2>1 DEF TimeIsConserved, OverrunState, in_frame
<1>3. CASE ~(running \/ CleanupPending) /\ ValidateLoopPolicy(p)
  <2>1. accumulator' = 0 /\ configured'
    BY <1>3 DEF Configure, ConfigureLoop
  <2>2. owed' = 0 /\ overran' = FALSE
    BY <2>1 DEF ConfigureHistory
  <2> QED BY <2>1, <2>2 DEF TimeIsConserved, OverrunState
<1> QED BY <1>1, <1>2, <1>3

\* No time has passed at first.
LEMMA TimeInitial ==
  Init => TimeInvariant
BY FrameInitial DEF Init, HostInit, LoopInit, TimeInvariant, TimeIsConserved, OverrunState, FixedDelta

\* Every step keeps the account of time.
LEMMA TimeKept ==
  TimeInvariant /\ [Next]_vars => TimeInvariant'
<1> SUFFICES ASSUME TimeInvariant, [Next]_vars PROVE TimeIsConserved' /\ OverrunState'
  BY FrameKept DEF TimeInvariant
<1>0. FrameInvariant /\ TimeIsConserved /\ OverrunState
  BY DEF TimeInvariant
<1>1. CASE \E elapsed \in Elapsed : TicksBounded /\ Tick(elapsed) /\ TickHistory(elapsed)
  BY <1>1, TickTime
<1>2. CASE \E p \in Policies : Configure(p) /\ ConfigureHistory
  BY <1>2, ConfigureTime
<1>3. ASSUME UNCHANGED loopVars, UNCHANGED <<owed, lost, overran>> PROVE TimeIsConserved' /\ OverrunState'
  BY <1>0, <1>3 DEF TimeIsConserved, OverrunState, FixedDelta, in_frame, loopVars, frameVars
<1>4. CASE ClientStep /\ StepHistory
  <2>1. UNCHANGED loopVars
    BY <1>4 DEF ClientStep, SetPlatformHost, SetWindowHost, SetInputRuntime, StartFails,
                StartInitialised, Stop
  <2> QED BY <1>3, <1>4, <2>1 DEF StepHistory
<1>5. CASE BeginStage /\ StepHistory
  <2>1. /\ in_frame /\ policy' = policy /\ loop_configured' = loop_configured
        /\ accumulator' = accumulator /\ UNCHANGED <<owed, lost, overran>>
    BY <1>5 DEF BeginStage, ExecuteStage, StepHistory
  <2>2. ~(overran /\ ~lost)
    BY <1>0, <2>1 DEF OverrunState
  <2> QED BY <1>0, <2>1, <2>2 DEF TimeIsConserved, OverrunState, FixedDelta
<1>6. CASE (\E ok \in BOOLEAN : Return(ok)) /\ StepHistory
  <2>1. UNCHANGED loopVars
    BY <1>6 DEF Return
  <2> QED BY <1>3, <1>6, <2>1 DEF StepHistory
<1>7. CASE UNCHANGED vars
  <2>1. UNCHANGED loopVars /\ UNCHANGED <<owed, lost, overran>>
    BY <1>7 DEF vars, hostVars, history
  <2> QED BY <1>3, <2>1
<1> QED BY <1>1, <1>2, <1>4, <1>5, <1>6, <1>7 DEF Next, FrameStep

\* TimeIsConserved for every clock, delta and word size: the fixed-delta accumulator
\* holds what was observed and not paid for by steps, until a word overflows.
THEOREM TimeIsAlwaysConserved ==
  Spec => []TimeIsConserved
<1>1. Init /\ [][Next]_vars => []TimeInvariant
  BY TimeInitial, TimeKept, PTL
<1>2. TimeInvariant => TimeIsConserved
  BY DEF TimeInvariant
<1> QED BY <1>1, <1>2, PTL DEF Spec

\* FailFastNeverSlips: a refused frame keeps at least two deltas in the accumulator, and
\* those refuse every later frame until the runtime is configured again.
THEOREM RefusedFramesStayRefused ==
  Spec => []FailFastNeverSlips
<1>1. Init /\ [][Next]_vars => []TimeInvariant
  BY TimeInitial, TimeKept, PTL
<1>2. TimeInvariant => FailFastNeverSlips
  BY DEF TimeInvariant, OverrunState, FailFastNeverSlips
<1> QED BY <1>1, <1>2, PTL DEF Spec

-----------------------------------------------------------------------------
(***************************************************************************)
(* Faults that degrade.                                                    *)
(***************************************************************************)
\* The render faults that degraded are among those counted.
DegradeState ==
  degraded <= Limits["Render"] /\ (~wrapped => degraded <= counters["Render"])

DegradeInvariant == FrameInvariant /\ DegradeState

\* A fault that degrades is not one that always fails, and is within its limit.
LEMMA DegradeFacts ==
  ASSUME NEW context \in FaultContexts, Disposition(context) = "Degrade"
  PROVE  ~AlwaysFails(context) /\ ~(ObservedCount(context.fault_class) > Limits[context.fault_class])
BY DEF Disposition

\* A counter that does not wrap counts.
LEMMA CountFacts ==
  ASSUME MembersOK, NEW c \in FaultClasses
  PROVE  /\ counters[c] \in Nat /\ ObservedCount(c) \in Nat
         /\ ~(ObservedCount(c) < counters[c]) \/ counters[c] < Max32 => ObservedCount(c) = counters[c] + 1
<1>1. Max32 \in Nat \ {0} /\ counters[c] \in 0..Max32
  BY WordsAssumption DEF MembersOK
<1> DEFINE n == counters[c]
<1>2. n \in Nat /\ n <= Max32 /\ ObservedCount(c) = (n + 1) % (Max32 + 1)
  BY <1>1 DEF ObservedCount
<1> HIDE DEF n
<1>3. n < Max32 => (n + 1) % (Max32 + 1) = n + 1
  BY <1>1, <1>2
<1>4. n = Max32 => (n + 1) % (Max32 + 1) = 0
  BY <1>1, <1>2
<1>5. ObservedCount(c) \in Nat
  BY <1>1, <1>2
<1> QED BY <1>1, <1>2, <1>3, <1>4, <1>5 DEF n

\* Of the faults a callee's failure reports, only a render fault degrades.
LEMMA ReturnDegrade ==
  ASSUME DegradeInvariant, NEW ok \in BOOLEAN, Return(ok), StepHistory, FaultDegraded, ~wrapped'
  PROVE  degraded + 1 <= Limits["Render"] /\ degraded + 1 <= counters'["Render"]
<1> DEFINE stage == Last(executed)
           context == Fault(StageClass(stage), stage \notin RenderStages)
<1>1. /\ counters' # counters /\ Disposition(context) = "Degrade"
      /\ HandleStageFault(context)
  BY DEF FaultDegraded, Return, NoFault, faultVars
<1>2. context \in FaultContexts
  BY StageFacts DEF FaultContexts, Fault
<1>3. context.contract_violation = (stage \notin RenderStages) /\ context.fault_class = StageClass(stage)
  BY DEF Fault
<1> HIDE DEF context
<1>4. ~AlwaysFails(context) /\ ~(ObservedCount(StageClass(stage)) > Limits[StageClass(stage)])
  BY <1>1, <1>2, <1>3, DegradeFacts
<1>5. stage \in RenderStages /\ StageClass(stage) = "Render" /\ fault_configured
  BY <1>3, <1>4 DEF AlwaysFails, StageClass
<1>6. counters' = [counters EXCEPT !["Render"] = ObservedCount("Render")]
  BY <1>1, <1>3, <1>5 DEF HandleStageFault, CountFault
<1>7. "Render" \in FaultClasses
  BY DEF FaultClasses
<1>8. MembersOK /\ degraded \in Nat /\ degraded <= Limits["Render"]
      /\ (~wrapped => degraded <= counters["Render"])
  BY DEF DegradeInvariant, FrameInvariant, HistoryOK, DegradeState
<1>9. counters'["Render"] = ObservedCount("Render")
  BY <1>6, <1>7, <1>8 DEF MembersOK
<1>10. ~wrapped /\ ~(ObservedCount("Render") < counters["Render"])
  BY <1>7, <1>9 DEF StepHistory
<1>11. ObservedCount("Render") = counters["Render"] + 1 /\ counters["Render"] \in Nat
  BY <1>7, <1>8, <1>10, CountFacts
<1>12. Limits["Render"] \in Nat
  <2>1. "Render" \in FaultClasses \ {"Bootstrap"}
    BY <1>7
  <2> QED BY <2>1, LimitsAssumption, WordsAssumption
<1>13. ~(ObservedCount("Render") > Limits["Render"])
  BY <1>4, <1>5
<1> QED BY <1>8, <1>9, <1>10, <1>11, <1>12, <1>13

\* A fault that degrades is counted before it is compared with its limit.
LEMMA StepDegrade ==
  ASSUME DegradeInvariant, ClientStep \/ FrameStep, StepHistory
  PROVE  DegradeState'
<1>0. MembersOK /\ MembersOK' /\ degraded \in Nat /\ degraded <= Limits["Render"]
      /\ (~wrapped => degraded <= counters["Render"])
  BY FrameKept DEF DegradeInvariant, FrameInvariant, HistoryOK, DegradeState, Next
<1>1. CASE FaultDegraded /\ ~wrapped'
  <2>1. ~ClientStep
    BY <1>1 DEF FaultDegraded, ClientStep, SetPlatformHost, SetWindowHost, SetInputRuntime, StartFails,
                StartInitialised, Stop, faultVars
  <2>2. PICK ok \in BOOLEAN : Return(ok)
    BY <1>1, <2>1 DEF FrameStep, BeginStage, FaultDegraded
  <2>3. degraded + 1 <= Limits["Render"] /\ degraded + 1 <= counters'["Render"]
    BY <1>1, <2>2, ReturnDegrade
  <2>4. degraded' = degraded + 1
    BY <1>1 DEF StepHistory
  <2> QED BY <2>3, <2>4 DEF DegradeState
<1>2. CASE ~(FaultDegraded /\ ~wrapped')
  <2>1. degraded' = degraded
    BY <1>2 DEF StepHistory
  <2>2. "Render" \in FaultClasses
    BY DEF FaultClasses
  <2>3. counters["Render"] \in Nat /\ counters'["Render"] \in Nat
    BY <1>0, <2>2, WordsAssumption DEF MembersOK
  <2>4. ~wrapped' => ~wrapped /\ ~(counters'["Render"] < counters["Render"])
    BY <2>2 DEF StepHistory
  <2> QED BY <1>0, <2>1, <2>3, <2>4 DEF DegradeState
<1> QED BY <1>1, <1>2

\* No fault has degraded at first.
LEMMA DegradeInitial ==
  Init => DegradeInvariant
<1> SUFFICES ASSUME Init PROVE DegradeState
  BY FrameInitial DEF DegradeInvariant
<1>1. "Render" \in FaultClasses /\ "Render" \in FaultClasses \ {"Bootstrap"}
  BY DEF FaultClasses
<1>2. counters["Render"] = 0 /\ degraded = 0
  BY <1>1 DEF Init, HostInit, FaultInit, NoFaults
<1>3. Limits["Render"] \in Nat
  BY <1>1, LimitsAssumption, WordsAssumption
<1> QED BY <1>2, <1>3 DEF DegradeState

\* Every step keeps the bound on degraded faults.
LEMMA DegradeKept ==
  DegradeInvariant /\ [Next]_vars => DegradeInvariant'
<1> SUFFICES ASSUME DegradeInvariant, [Next]_vars PROVE DegradeState'
  BY FrameKept DEF DegradeInvariant
<1>0. DegradeState
  BY DEF DegradeInvariant
<1>1. CASE \E elapsed \in Elapsed : TicksBounded /\ Tick(elapsed) /\ TickHistory(elapsed)
  BY <1>0, <1>1 DEF DegradeState, Tick, TickHistory, faultVars
<1>2. ASSUME NEW p \in Policies, Configure(p), ConfigureHistory PROVE DegradeState'
  <2>1. CASE configured'
    <3>1. counters' = NoFaults /\ degraded' = 0
      BY <1>2, <2>1 DEF Configure, ConfigureHistory, ConfigureFaults
    <3>2. "Render" \in FaultClasses /\ "Render" \in FaultClasses \ {"Bootstrap"}
      BY DEF FaultClasses
    <3>3. counters'["Render"] = 0
      BY <3>1, <3>2 DEF NoFaults
    <3>4. Limits["Render"] \in Nat
      BY <3>2, LimitsAssumption, WordsAssumption
    <3> QED BY <3>1, <3>3, <3>4 DEF DegradeState
  <2>2. CASE ~configured'
    <3>1. counters' = counters /\ degraded' = degraded /\ wrapped' = wrapped
      BY <1>2, <2>2 DEF Configure, ConfigureHistory, faultVars
    <3> QED BY <1>0, <3>1 DEF DegradeState
  <2> QED BY <2>1, <2>2
<1>3. CASE (ClientStep \/ FrameStep) /\ StepHistory
  BY <1>3, StepDegrade
<1>4. CASE UNCHANGED vars
  BY <1>0, <1>4 DEF DegradeState, vars, hostVars, history, faultVars
<1> QED BY <1>1, <1>2, <1>3, <1>4 DEF Next

\* DegradeIsBounded for every limit: each fault that degrades was counted, and the count
\* is compared with the limit, so at most the limit degrades between two Configures.
THEOREM DegradeIsAlwaysBounded ==
  Spec => []DegradeIsBounded
<1>1. Init /\ [][Next]_vars => []DegradeInvariant
  BY DegradeInitial, DegradeKept, PTL
<1>2. DegradeInvariant => DegradeIsBounded
  <2> SUFFICES ASSUME DegradeInvariant,
                      NEW context \in FaultContexts, Disposition(context) = "Degrade"
               PROVE  /\ MatrixAllowsDegrade(context)
                      /\ context.fault_class = "Render" /\ ~wrapped /\ counters["Render"] < Max32 =>
                           degraded < Limits["Render"]
    BY DEF DegradeIsBounded, DegradeInvariant, DegradeState
  <2>1. ~AlwaysFails(context) /\ ~(ObservedCount(context.fault_class) > Limits[context.fault_class])
    BY DegradeFacts
  <2>2. context.fault_class \in FaultClasses
    BY DEF FaultContexts
  <2>3. MatrixAllowsDegrade(context)
    BY <2>1, <2>2 DEF MatrixAllowsDegrade, AlwaysFails, FaultClasses
  <2>4. ASSUME context.fault_class = "Render", ~wrapped, counters["Render"] < Max32
        PROVE degraded < Limits["Render"]
    <3>1. MembersOK /\ degraded \in Nat /\ degraded <= counters["Render"]
      BY <2>4 DEF DegradeInvariant, FrameInvariant, HistoryOK, DegradeState
    <3>2. "Render" \in FaultClasses /\ "Render" \in FaultClasses \ {"Bootstrap"}
      BY DEF FaultClasses
    <3>3. ObservedCount("Render") = counters["Render"] + 1 /\ counters["Render"] \in Nat
      BY <2>4, <3>1, <3>2, CountFacts
    <3>4. Limits["Render"] \in Nat
      BY <3>2, LimitsAssumption, WordsAssumption
    <3>5. ~(ObservedCount("Render") > Limits["Render"])
      BY <2>1, <2>4
    <3> QED BY <3>1, <3>3, <3>4, <3>5
  <2> QED BY <2>3, <2>4
<1> QED BY <1>1, <1>2, PTL DEF Spec

-----------------------------------------------------------------------------
(***************************************************************************)
(* What is up.                                                             *)
(***************************************************************************)
Up == (IF platform_initialized THEN {platform_host} ELSE {})
        \cup (IF window_created THEN {window_host} ELSE {})

\* What is up is what the flags say, and a running runtime has all it needs.
LiveState ==
  ~swapped => /\ live = Up
              /\ running => platform_initialized /\ (HasActiveRenderStages => window_created)

LiveInvariant == FrameInvariant /\ LiveState

\* Steps that touch neither hosts nor flags keep their agreement.
LEMMA LiveFlagsKept ==
  ASSUME LiveState, UNCHANGED <<hosts, hostFlags, swapped, active_stages>>
  PROVE  LiveState'
<1>1. /\ platform_host' = platform_host /\ window_host' = window_host /\ running' = running
      /\ platform_initialized' = platform_initialized /\ window_created' = window_created
      /\ live' = live /\ swapped' = swapped /\ active_stages' = active_stages
  BY DEF hosts, hostFlags
<1> QED BY <1>1 DEF LiveState, Up, HasActiveRenderStages

\* A host that is set while another is up counts as swapped.
LEMMA SetHostLive ==
  ASSUME LiveInvariant, StepHistory, UNCHANGED <<loopVars, hostFlags>>,
         platform_host' = platform_host \/ window_host' = window_host
  PROVE  LiveState'
<1> SUFFICES ASSUME ~swapped' PROVE LiveState'
  BY DEF LiveState
<1>1. /\ running' = running /\ platform_initialized' = platform_initialized
      /\ window_created' = window_created /\ live' = live /\ active_stages' = active_stages
  BY DEF hostFlags, loopVars
<1>2. /\ ~swapped /\ (platform_initialized => platform_host' = platform_host)
      /\ (window_created => window_host' = window_host)
  BY <1>1 DEF StepHistory
<1>3. live = Up /\ (running => platform_initialized /\ (HasActiveRenderStages => window_created))
  BY <1>2 DEF LiveInvariant, LiveState
<1>4. Up' = Up
  BY <1>1, <1>2 DEF Up
<1> QED BY <1>1, <1>3, <1>4 DEF LiveState, HasActiveRenderStages

\* Start brings up what its flags say, also when it fails half way.
LEMMA StartLive ==
  ASSUME LiveInvariant, StepHistory,
         StartFails \/ \E ok, t \in BOOLEAN : StartInitialised(ok, t)
  PROVE  LiveState'
<1>1. ~running /\ ~platform_initialized /\ ~window_created /\ active_stages' = active_stages
  BY DEF StartFails, StartInitialised, CanStart, CleanupPending, loopVars
<1> SUFFICES ASSUME ~swapped' PROVE LiveState'
  BY DEF LiveState
<1>2. ~swapped
  BY DEF StepHistory
<1>3. live = {}
  BY <1>1, <1>2 DEF LiveInvariant, LiveState, Up
<1>4. CASE StartFails
  <2>1. /\ running' = running /\ platform_initialized' = platform_initialized
        /\ window_created' = window_created /\ live' = live
    BY <1>4 DEF StartFails, hostFlags
  <2> QED BY <1>1, <1>3, <2>1 DEF LiveState, Up
<1>5. ASSUME NEW ok \in BOOLEAN, NEW t \in BOOLEAN, StartInitialised(ok, t) PROVE LiveState'
  <2>1. PICK p \in PlatformHosts, w \in WindowHosts \cup {None} :
          /\ platform_host' = p /\ window_host' = w
          /\ LET up == HasActiveRenderStages => w # None /\ ok
             IN /\ running' = up
                /\ window_created' = (up /\ HasActiveRenderStages)
                /\ platform_initialized' = (up \/ ~t)
                /\ live' = live \cup (IF platform_initialized' THEN {p} ELSE {})
                                \cup (IF window_created' THEN {w} ELSE {})
    BY <1>5 DEF StartInitialised
  <2>2. live' = Up'
    BY <1>3, <2>1 DEF Up
  <2>3. running' => platform_initialized' /\ (HasActiveRenderStages => window_created')
    BY <2>1
  <2>4. HasActiveRenderStages' <=> HasActiveRenderStages
    BY <1>1 DEF HasActiveRenderStages
  <2> QED BY <2>2, <2>3, <2>4 DEF LiveState
<1> QED BY <1>4, <1>5

\* Stop takes down what it can and keeps the flags of what it cannot.
LEMMA StopLive ==
  ASSUME LiveInvariant, StepHistory, NEW w \in BOOLEAN, NEW p \in BOOLEAN, Stop(w, p)
  PROVE  LiveState'
<1> SUFFICES ASSUME ~swapped' PROVE LiveState'
  BY DEF LiveState
<1>1. ~swapped
  BY DEF StepHistory
<1>2. live = Up /\ live \subseteq PlatformHosts \cup WindowHosts
  BY <1>1 DEF LiveInvariant, LiveState, FrameInvariant, MembersOK
<1>3. /\ platform_initialized => platform_host # None /\ platform_host \in PlatformHosts
      /\ window_created => window_host # None /\ window_host \in WindowHosts
  <2>1. platform_host \in PlatformHosts \cup {None} /\ window_host \in WindowHosts \cup {None}
    BY DEF LiveInvariant, FrameInvariant, MembersOK
  <2>2. /\ platform_initialized => platform_host \in live
        /\ window_created => window_host \in live
    BY <1>2 DEF Up
  <2> QED BY <1>2, <2>1, <2>2, HostsAssumption
<1>4. platform_initialized /\ window_created => platform_host # window_host
  BY <1>3, HostsAssumption
<1>5. /\ platform_host' = platform_host /\ window_host' = window_host /\ running' = FALSE
  BY DEF Stop, hosts
<1>6. /\ window_created' <=> window_created /\ ~w
      /\ platform_initialized' <=> platform_initialized /\ ~p
  BY <1>3 DEF Stop
<1>7. live' = live \ ((IF window_created /\ w THEN {window_host} ELSE {})
                        \cup (IF platform_initialized /\ p THEN {platform_host} ELSE {}))
  BY <1>3 DEF Stop
<1>8. live' = Up'
  BY <1>2, <1>4, <1>5, <1>6, <1>7 DEF Up
<1> QED BY <1>5, <1>8 DEF LiveState

\* Nothing is up at first.
LEMMA LiveInitial ==
  Init => LiveInvariant
BY FrameInitial DEF Init, HostInit, LiveInvariant, LiveState, Up

\* Every step keeps hosts and flags in agreement.
LEMMA LiveKept ==
  LiveInvariant /\ [Next]_vars => LiveInvariant'
<1> SUFFICES ASSUME LiveInvariant, [Next]_vars PROVE LiveState'
  BY FrameKept DEF LiveInvariant
<1>0. LiveState
  BY DEF LiveInvariant
<1>1. CASE \E elapsed \in Elapsed : TicksBounded /\ Tick(elapsed) /\ TickHistory(elapsed)
  BY <1>0, <1>1, LiveFlagsKept DEF Tick, TickHistory, BeginFrame, FailFrame
<1>2. ASSUME NEW p \in Policies, Configure(p), ConfigureHistory PROVE LiveState'
  <2>1. /\ platform_host' = platform_host /\ window_host' = window_host /\ running' = running
        /\ platform_initialized' = platform_initialized /\ window_created' = window_created
        /\ live' = live /\ swapped' = swapped
    BY <1>2 DEF Configure, ConfigureHistory, hosts, hostFlags
  <2>2. running => active_stages' = active_stages
    BY <1>2 DEF Configure, loopVars
  <2>3. Up' = Up
    BY <2>1 DEF Up
  <2>4. running => (HasActiveRenderStages' <=> HasActiveRenderStages)
    BY <2>2 DEF HasActiveRenderStages
  <2> QED BY <1>0, <2>1, <2>3, <2>4 DEF LiveState
<1>3. CASE ClientStep /\ StepHistory
  <2>1. CASE StartFails \/ \E ok, t \in BOOLEAN : StartInitialised(ok, t)
    BY <1>3, <2>1, StartLive
  <2>2. CASE \E w, p \in BOOLEAN : Stop(w, p)
    BY <1>3, <2>2, StopLive
  <2>3. CASE \/ \E h \in PlatformHosts \cup {None} : SetPlatformHost(h)
             \/ \E h \in WindowHosts \cup {None} : SetWindowHost(h)
             \/ \E set \in BOOLEAN : SetInputRuntime(set)
    BY <1>3, <2>3, SetHostLive DEF SetPlatformHost, SetWindowHost, SetInputRuntime
  <2> QED BY <1>3, <2>1, <2>2, <2>3 DEF ClientStep
<1>4. CASE FrameStep /\ StepHistory
  <2>1. UNCHANGED <<hosts, hostFlags>> /\ active_stages' = active_stages
    BY <1>4 DEF FrameStep, BeginStage, ExecuteStage, Return, loopVars
  <2>2. CASE swapped'
    BY <2>2 DEF LiveState
  <2>3. CASE ~swapped'
    <3>1. ~swapped
      BY <1>4, <2>3 DEF StepHistory
    <3>2. swapped' = swapped
      BY <1>4, <2>1, <2>3, <3>1 DEF StepHistory, hosts, LiveInvariant, FrameInvariant, HistoryOK
    <3> QED BY <1>0, <2>1, <3>2, LiveFlagsKept
  <2> QED BY <2>2, <2>3
<1>5. CASE UNCHANGED vars
  BY <1>0, <1>5, LiveFlagsKept DEF vars, hostVars, history, loopVars
<1> QED BY <1>1, <1>2, <1>3, <1>4, <1>5 DEF Next

\* NoHostLeaks for every set of hosts: as long as no host is replaced while it is up,
\* live is what the flags and the pointers say, through failed starts and teardowns.
THEOREM HostsNeverLeak ==
  Spec => []NoHostLeaks
<1>1. Init /\ [][Next]_vars => []LiveInvariant
  BY LiveInitial, LiveKept, PTL
<1>2. LiveInvariant => NoHostLeaks
  <2> SUFFICES ASSUME LiveInvariant, ~swapped PROVE NoHostLeaks
    BY DEF NoHostLeaks
  <2>1. live = Up /\ (running => platform_initialized /\ (HasActiveRenderStages => window_created))
    BY DEF LiveInvariant, LiveState
  <2>2. ASSUME calling, running PROVE Callee(Last(executed)) \in live \cup {None}
    <3> DEFINE stage == Last(executed)
    <3>1. stage \in ToSet(active_stages)
      BY <2>2 DEF LiveInvariant, FrameInvariant, CallState
    <3> HIDE DEF stage
    <3>2. CASE stage \in RenderStages
      <4>1. window_created
        BY <2>1, <2>2, <3>1, <3>2 DEF HasActiveRenderStages
      <4>2. Callee(stage) = window_host
        BY <3>2 DEF Callee, RenderStages
      <4> QED BY <2>1, <4>1, <4>2 DEF Up, stage
    <3>3. CASE stage = "ProcessPlatformEvents"
      <4>1. Callee(stage) = platform_host
        BY <3>3 DEF Callee, RenderStages
      <4> QED BY <2>1, <2>2, <4>1 DEF Up, stage
    <3>4. CASE stage \notin RenderStages /\ stage # "ProcessPlatformEvents"
      BY <3>4 DEF Callee, stage
    <3> QED BY <3>2, <3>3, <3>4
  <2> QED BY <2>1, <2>2 DEF NoHostLeaks, Up
<1> QED BY <1>1, <1>2, PTL DEF Spec
=============================================================================
