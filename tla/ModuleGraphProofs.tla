-------------------------- MODULE ModuleGraphProofs --------------------------
(***************************************************************************)
(* Proofs about ModuleGraph and the dynamic loader: for every module list  *)
(* the loop keeps exact consumer counts, a list is refused exactly when it *)
(* breaks a declaration rule or has a cycle, the orders of a valid list    *)
(* are dependency-first and as small as they can be, and the computation   *)
(* returns what the function ValidateModuleGraph does.                     *)
(***************************************************************************)
EXTENDS MCModuleGraph, OperatorLemmas

\* What is returned once the loop has exited.
ResultInvariant ==
  pc = "done" /\ DeclarationError(modules) = "None" =>
    kahn.ready = {} /\ result = Verdict(adjacency, kahn)

\* What the steps before the loop leave for the later ones.
PhaseInvariant ==
  /\ pc \in {"check", "kahn", "done"}
  /\ pc = "check" => result = Invalid("None")
  /\ pc = "kahn" => DeclarationError(modules) = "None" /\ result = Invalid("None")
  /\ pc # "check" /\ DeclarationError(modules) = "None" => adjacency = Adjacency(modules)
  /\ pc = "done" /\ DeclarationError(modules) # "None" =>
       result = Invalid(DeclarationError(modules))

\* The locals of the loop: the invariant of OperatorLemmas, and the recursive function
\* passes through the same states.
KahnInvariant ==
  IsGraph(adjacency) /\ KahnLoop(adjacency, kahn) /\ IsReached(adjacency, kahn)

\* The inductive invariant of the whole function.
GraphInvariant == modules \in Inputs /\ KahnInvariant /\ ResultInvariant /\ PhaseInvariant

\* The program starts in a state of the invariant: no id is known yet.
LEMMA GraphInit == Init => GraphInvariant
<1> SUFFICES ASSUME Init PROVE GraphInvariant
  OBVIOUS
<1>1. DOMAIN adjacency = {} /\ adjacency \in [DOMAIN adjacency -> SUBSET DOMAIN adjacency]
  BY DEF Init
<1>2. IsGraph(adjacency)
  BY <1>1, FS_EmptySet DEF IsGraph
<1>3. kahn = KahnInit(adjacency)
  BY DEF Init
<1>4. KahnInvariant
  BY <1>2, <1>3, KahnInitOK, ReachedInit DEF KahnInvariant
<1> QED BY <1>4 DEF Init, GraphInvariant, ResultInvariant, PhaseInvariant

\* Every step of ValidateModuleGraph keeps the invariant.
LEMMA GraphStep == GraphInvariant /\ [Next]_vars => GraphInvariant'
<1> SUFFICES ASSUME GraphInvariant, [Next]_vars PROVE GraphInvariant'
  OBVIOUS
<1>i. KahnInvariant /\ ResultInvariant /\ PhaseInvariant /\ modules \in Inputs
  BY DEF GraphInvariant
<1>u. ASSUME UNCHANGED <<adjacency, kahn>> PROVE KahnInvariant'
  BY <1>i, <1>u DEF KahnInvariant
<1>1. CASE Reject
  BY <1>1, <1>i, <1>u DEF Reject, GraphInvariant, ResultInvariant, PhaseInvariant
<1>2. CASE Prepare
  <2>1. modules \in Seq(ModuleSpecs)
    BY <1>i, InputsAreModuleLists
  <2>2. IsGraph(adjacency') /\ kahn' = KahnInit(adjacency')
    BY <1>2, <2>1, AdjacencyOK DEF Prepare
  <2>3. KahnInvariant'
    BY <2>2, KahnInitOK, ReachedInit DEF KahnInvariant
  <2> QED BY <1>2, <1>i, <2>3 DEF Prepare, GraphInvariant, ResultInvariant, PhaseInvariant
<1>3. CASE Emit
  <2>1. kahn' = KahnStep(adjacency, kahn) /\ adjacency' = adjacency /\ kahn.ready # {}
    BY <1>3 DEF Emit
  <2>2. KahnLoop(adjacency, KahnStep(adjacency, kahn))
          /\ IsReached(adjacency, KahnStep(adjacency, kahn))
    BY <1>i, <2>1, KahnStepOK, ReachedStep DEF KahnInvariant
  <2>3. KahnInvariant'
    BY <1>i, <2>1, <2>2 DEF KahnInvariant
  <2> QED BY <1>3, <1>i, <2>3 DEF Emit, GraphInvariant, ResultInvariant, PhaseInvariant
<1>4. CASE Finish
  BY <1>4, <1>i, <1>u DEF Finish, GraphInvariant, ResultInvariant, PhaseInvariant
<1>5. CASE UNCHANGED vars
  BY <1>5, <1>i, <1>u DEF vars, GraphInvariant, ResultInvariant, PhaseInvariant
<1> QED BY <1>1, <1>2, <1>3, <1>4, <1>5 DEF Next

\* The invariant holds in every reachable state.
LEMMA GraphInvariantHolds == Spec => []GraphInvariant
<1> QED BY GraphInit, GraphStep, PTL DEF Spec

\* The computation returns the value of the function.
LEMMA SameResult ==
  ASSUME GraphInvariant, pc = "done"
  PROVE  /\ modules \in Seq(ModuleSpecs) /\ result = ValidateModuleGraph(modules)
         /\ DeclarationError(modules) = "None" =>
              adjacency = Adjacency(modules) /\ kahn = KahnRun(adjacency)
<1>1. KahnInvariant /\ ResultInvariant /\ PhaseInvariant /\ modules \in Seq(ModuleSpecs)
  BY InputsAreModuleLists DEF GraphInvariant
<1>2. CASE DeclarationError(modules) # "None"
  BY <1>1, <1>2 DEF PhaseInvariant, ValidateModuleGraph
<1>3. CASE DeclarationError(modules) = "None"
  <2>1. adjacency = Adjacency(modules) /\ kahn.ready = {} /\ result = Verdict(adjacency, kahn)
    BY <1>1, <1>3 DEF PhaseInvariant, ResultInvariant
  <2>2. kahn = KahnRun(adjacency)
    BY <1>1, <2>1, ReachedEnd DEF KahnInvariant
  <2> QED BY <1>1, <1>3, <2>1, <2>2 DEF ValidateModuleGraph
<1> QED BY <1>2, <1>3

\* For every module list the function that KernelRuntime::ConfigureModules calls in one step
\* returns what the step-by-step execution of ValidateModuleGraph returns.
THEOREM FunctionAlwaysAgrees == Spec => []FunctionAgrees
<1>1. GraphInvariant => FunctionAgrees
  BY SameResult DEF FunctionAgrees
<1> QED BY <1>1, GraphInvariantHolds, PTL

\* For every module list, at every iteration of ValidateModuleGraph, indegree and
\* ready describe exactly the modules not emitted yet.
THEOREM IndegreeIsAlwaysExact == Spec => []IndegreeIsExact
<1>1. GraphInvariant => IndegreeIsExact
  BY DEF GraphInvariant, KahnInvariant, KahnLoop, KahnCounts, LeftIn, EmittedIn,
         IndegreeIsExact, Ids, Emitted
<1> QED BY <1>1, GraphInvariantHolds, PTL

\* For every module list the base order has no repetition and puts each consumer
\* before its dependencies.
THEOREM BaseOrderIsConsumersFirst == Spec => []ConsumersFirst
<1>1. GraphInvariant => ConsumersFirst
  BY DEF GraphInvariant, KahnInvariant, KahnLoop, KahnOrder, ConsumersFirst, Ids
<1> QED BY <1>1, GraphInvariantHolds, PTL

\* For every module list that passes the declaration checks, ValidateModuleGraph
\* reports a cycle if and only if there is one.
THEOREM CycleVerdictIsAlwaysExact == Spec => []CycleVerdictIsExact
<1>1. GraphInvariant => CycleVerdictIsExact
  <2> SUFFICES ASSUME GraphInvariant, pc = "done", DeclarationError(modules) = "None"
               PROVE  result.error = "CycleDetected" <=> \E T \in SUBSET Ids : SelfSupporting(T)
    BY DEF CycleVerdictIsExact
  <2> DEFINE left == LeftIn(adjacency, kahn)
  <2>1. /\ IsGraph(adjacency) /\ KahnLoop(adjacency, kahn)
        /\ kahn.ready = {} /\ result = Verdict(adjacency, kahn)
    BY DEF GraphInvariant, KahnInvariant, ResultInvariant
  <2>2. result.error = "CycleDetected" <=> Len(kahn.base_order) # Cardinality(Ids)
    BY <2>1 DEF Verdict, Invalid, Ids
  <2>3. /\ kahn.base_order \in Seq(Ids) /\ KahnCounts(adjacency, kahn)
        /\ KahnSkipsCycles(adjacency, kahn)
    BY <2>1 DEF KahnLoop, KahnStates, Ids
  <2>4. Emitted \in SUBSET Ids /\ left = Ids \ Emitted
    BY <2>3 DEF Emitted, ToSet, LeftIn, EmittedIn, Ids
  <2>5. Len(kahn.base_order) # Cardinality(Ids) <=> Emitted # Ids
    BY <2>1, <2>3, KahnLength DEF KahnCounts, Emitted, EmittedIn, Ids
  <2>6. ASSUME Emitted # Ids PROVE SelfSupporting(left)
    <3>1. left # {}
      BY <2>4, <2>6
    <3>2. ASSUME NEW d \in left PROVE \E c \in left : d \in adjacency[c]
      <4>1. d \in DOMAIN adjacency /\ kahn.indegree[d] # 0
        BY <2>1, <2>3 DEF KahnCounts, LeftIn
      <4>2. Consumers(adjacency, left, d) # {}
        BY <2>3, <4>1, FS_EmptySet DEF KahnCounts
      <4> QED BY <4>2 DEF Consumers
    <3> QED BY <3>1, <3>2 DEF SelfSupporting
  <2>7. ASSUME NEW T \in SUBSET Ids, SelfSupporting(T) PROVE Emitted # Ids
    BY <2>3, <2>7 DEF KahnSkipsCycles, IsCyclic, SelfSupporting, Emitted, EmittedIn, Ids
  <2> QED BY <2>2, <2>4, <2>5, <2>6, <2>7
<1> QED BY <1>1, GraphInvariantHolds, PTL

-----------------------------------------------------------------------------
(***************************************************************************)
(* The declaration passes.                                                 *)
(***************************************************************************)
\* The first pass refuses an element for a rule it breaks.
LEMMA IdErrorIsTrue ==
  ASSUME modules \in Seq(ModuleSpecs), NEW i \in DOMAIN modules, IdError(modules, i) # "None"
  PROVE  IdError(modules, i) \in DOMAIN BreaksRule /\ BreaksRule[IdError(modules, i)]
<1>1. CASE modules[i].id = EmptyId
  BY <1>1 DEF IdError, BreaksRule
<1>2. CASE modules[i].id # EmptyId
  <2>1. IdError(modules, i) = "DuplicateModuleId" /\ \E j \in 1..(i-1) : modules[j].id = modules[i].id
    BY <1>2 DEF IdError
  <2>2. Cardinality(KnownIds(modules)) < Len(modules)
    BY <2>1, DeclaredIds
  <2>3. /\ "DuplicateModuleId" \in DOMAIN BreaksRule
        /\ BreaksRule["DuplicateModuleId"] = (Cardinality(KnownIds(modules)) < Len(modules))
    BY DEF BreaksRule
  <2> QED BY <2>1, <2>2, <2>3
<1> QED BY <1>1, <1>2

\* The second pass refuses an entry for a rule it breaks.
LEMMA EntryErrorIsTrue ==
  ASSUME modules \in Seq(ModuleSpecs), NEW i \in DOMAIN modules,
         NEW k \in DOMAIN EntriesOf(modules[i]), EntryError(modules, i, k) # "None"
  PROVE  EntryError(modules, i, k) \in DOMAIN BreaksRule /\ BreaksRule[EntryError(modules, i, k)]
<1> DEFINE m == modules[i]  entries == EntriesOf(m)  dependency == entries[k]
           repeated == \E l \in 1..(k - 1) : entries[l] = dependency
           missing == k <= Len(m.required_dependencies) /\ dependency \notin KnownIds(modules)
<1>1. m \in ModuleSpecs /\ dependency \in ToSet(entries) /\ entries \in Seq(Nat) /\ k \in DOMAIN entries
  BY EntriesFacts DEF ToSet
<1>2. EntryError(modules, i, k) = IF dependency = m.id THEN "SelfDependency"
                                  ELSE IF repeated THEN "DuplicateDependencyEntry"
                                  ELSE IF missing THEN "MissingRequiredDependency" ELSE "None"
  BY DEF EntryError
<1>3. /\ BreaksRule.SelfDependency = \E a \in DOMAIN modules : modules[a].id \in ToSet(EntriesOf(modules[a]))
      /\ BreaksRule.DuplicateDependencyEntry =
           \E a \in DOMAIN modules : Cardinality(ToSet(EntriesOf(modules[a]))) < Len(EntriesOf(modules[a]))
      /\ BreaksRule.MissingRequiredDependency =
           \E a \in DOMAIN modules : ~(ToSet(modules[a].required_dependencies) \subseteq KnownIds(modules))
      /\ {"SelfDependency", "DuplicateDependencyEntry", "MissingRequiredDependency"} \subseteq DOMAIN BreaksRule
  BY DEF BreaksRule
<1>4. CASE dependency = m.id
  BY <1>1, <1>2, <1>3, <1>4
<1>5. CASE dependency # m.id /\ repeated
  <2>1. Cardinality(ToSet(entries)) < Len(entries)
    BY <1>1, <1>5, DeclaredEntries
  <2> QED BY <1>2, <1>3, <1>5, <2>1
<1>6. CASE dependency # m.id /\ ~repeated
  <2>1. missing /\ EntryError(modules, i, k) = "MissingRequiredDependency"
    BY <1>2, <1>6
  <2>2. k \in 1..Len(m.required_dependencies)
    BY <1>1, <2>1, EntriesFacts
  <2>3. dependency \in ToSet(m.required_dependencies)
    BY <1>1, <2>2, EntriesFacts DEF ToSet
  <2> QED BY <1>3, <2>1, <2>3
<1> QED BY <1>4, <1>5, <1>6

\* A list without an error breaks no rule.
LEMMA NoRuleBroken ==
  ASSUME modules \in Seq(ModuleSpecs), DeclarationError(modules) = "None"
  PROVE  \A r \in DOMAIN BreaksRule : ~BreaksRule[r]
<1>1. /\ EmptyId \notin KnownIds(modules)
      /\ Cardinality(KnownIds(modules)) = Len(modules) /\ Len(modules) \in Nat
      /\ \A i \in DOMAIN modules :
           /\ modules[i].id \notin ToSet(EntriesOf(modules[i]))
           /\ ~(Cardinality(ToSet(EntriesOf(modules[i]))) < Len(EntriesOf(modules[i])))
           /\ ToSet(modules[i].required_dependencies) \subseteq KnownIds(modules)
  BY AcceptedList
<1>2. ~BreaksRule.InvalidModuleId
  BY <1>1 DEF BreaksRule, KnownIds
<1>3. ~BreaksRule.DuplicateModuleId
  <2>1. ~(Cardinality(KnownIds(modules)) < Len(modules))
    BY <1>1
  <2> QED BY <2>1 DEF BreaksRule
<1>4. ~BreaksRule.SelfDependency /\ ~BreaksRule.DuplicateDependencyEntry
        /\ ~BreaksRule.MissingRequiredDependency
  BY <1>1 DEF BreaksRule
<1>5. DOMAIN BreaksRule = {"InvalidModuleId", "DuplicateModuleId", "SelfDependency",
                           "DuplicateDependencyEntry", "MissingRequiredDependency"}
  BY DEF BreaksRule
<1> QED BY <1>2, <1>3, <1>4, <1>5

\* For every module list the declaration passes of ValidateModuleGraph refuse it if and
\* only if it breaks a documented rule, and name a rule that is broken.
THEOREM DeclarationVerdictIsAlwaysExact == Spec => []DeclarationVerdictIsExact
<1>1. GraphInvariant => DeclarationVerdictIsExact
  <2> SUFFICES ASSUME GraphInvariant, pc = "done"
               PROVE  /\ result.error \in DOMAIN BreaksRule => BreaksRule[result.error]
                      /\ result.error \notin DOMAIN BreaksRule => \A r \in DOMAIN BreaksRule : ~BreaksRule[r]
    BY DEF DeclarationVerdictIsExact
  <2>1. modules \in Seq(ModuleSpecs)
    BY InputsAreModuleLists DEF GraphInvariant
  <2>2. CASE DeclarationError(modules) # "None"
    <3>1. result.error = DeclarationError(modules)
      BY <2>2 DEF GraphInvariant, PhaseInvariant, Invalid
    <3>2. DeclarationError(modules) \in DOMAIN BreaksRule /\ BreaksRule[DeclarationError(modules)]
      <4>1. CASE \E i \in DOMAIN modules : IdError(modules, i) = DeclarationError(modules)
        BY <2>1, <2>2, <4>1, IdErrorIsTrue
      <4>2. CASE \E i \in DOMAIN modules : \E k \in DOMAIN EntriesOf(modules[i]) :
                   EntryError(modules, i, k) = DeclarationError(modules)
        BY <2>1, <2>2, <4>2, EntryErrorIsTrue
      <4> QED BY <2>1, <2>2, <4>1, <4>2, DeclarationErrors
    <3> QED BY <3>1, <3>2
  <2>3. CASE DeclarationError(modules) = "None"
    <3>1. result.error \in {"None", "CycleDetected"}
      BY <2>3 DEF GraphInvariant, ResultInvariant, Verdict, Invalid
    <3>2. result.error \notin DOMAIN BreaksRule
      BY <3>1 DEF BreaksRule
    <3> QED BY <2>1, <2>3, <3>2, NoRuleBroken
  <2> QED BY <2>2, <2>3
<1> QED BY <1>1, GraphInvariantHolds, PTL

-----------------------------------------------------------------------------
(***************************************************************************)
(* The startup order.                                                      *)
(***************************************************************************)
\* What a valid verdict tells of the locals.
LEMMA ValidState ==
  ASSUME GraphInvariant, pc = "done", result.valid
  PROVE  /\ modules \in Seq(ModuleSpecs) /\ DeclarationError(modules) = "None"
         /\ adjacency = Adjacency(modules) /\ Ids = KnownIds(modules) /\ EmptyId \notin Ids
         /\ IsGraph(adjacency) /\ KahnLoop(adjacency, kahn)
         /\ result = ValidateModuleGraph(modules) /\ result.base_order = kahn.base_order
         /\ Len(kahn.base_order) = Cardinality(Ids)
<1>1. modules \in Seq(ModuleSpecs) /\ result = ValidateModuleGraph(modules)
  BY SameResult
<1>2. DeclarationError(modules) = "None"
  BY <1>1, ValidVerdict
<1>3. adjacency = Adjacency(modules) /\ kahn = KahnRun(adjacency)
  BY <1>2, SameResult
<1>4. Ids = KnownIds(modules)
  BY <1>1, <1>3, AdjacencyOK DEF Ids
<1>5. EmptyId \notin Ids /\ Cardinality(Ids) = Len(modules)
  BY <1>1, <1>2, <1>4, AcceptedList
<1>6. result.base_order = kahn.base_order /\ Len(kahn.base_order) = Len(modules)
  BY <1>1, <1>3, ValidVerdict
<1> QED BY <1>1, <1>2, <1>3, <1>4, <1>5, <1>6 DEF GraphInvariant, KahnInvariant

\* The startup order in terms of the locals.
LEMMA StartupState ==
  ASSUME GraphInvariant, pc = "done", result.valid
  PROVE  LET order == result.startup_order
         IN /\ order \in Seq(Ids) /\ Len(order) \in Nat /\ DOMAIN order = 1..Len(order)
            /\ Len(order) = Len(modules)
            /\ \A i, j \in 1..Len(order) : order[i] = order[j] => i = j
            /\ \A d \in Ids : \E i \in 1..Len(order) : order[i] = d
            /\ \A i, j \in 1..Len(order) : order[j] \in adjacency[order[i]] => j < i
<1>1. /\ modules \in Seq(ModuleSpecs) /\ result = ValidateModuleGraph(modules)
      /\ adjacency = Adjacency(modules) /\ Ids = KnownIds(modules)
  BY ValidState
<1>2. ValidateModuleGraph(modules).valid
  BY <1>1
<1> QED BY <1>1, <1>2, StartupOrder, Zenon

\* For every module list a valid verdict carries a startup order with every declared
\* module once, each after all of its declared dependencies.
THEOREM StartupOrderIsAlwaysDependencyFirst == Spec => []StartupOrderIsDependencyFirst
<1>1. GraphInvariant => StartupOrderIsDependencyFirst
  <2> SUFFICES ASSUME GraphInvariant, pc = "done", result.valid
               PROVE  LET order == result.startup_order
                      IN /\ ToSet(order) = KnownIds(modules)
                         /\ Len(order) = Len(modules)
                         /\ \A i \in DOMAIN modules :
                              \A d \in ToSet(EntriesOf(modules[i])) \cap KnownIds(modules) :
                                \E j, k \in DOMAIN order : j < k /\ order[j] = d /\ order[k] = modules[i].id
    BY DEF StartupOrderIsDependencyFirst
  <2> DEFINE order == result.startup_order
  <2>1. /\ order \in Seq(Ids) /\ DOMAIN order = 1..Len(order) /\ Len(order) = Len(modules)
        /\ \A d \in Ids : \E i \in 1..Len(order) : order[i] = d
        /\ \A i, j \in 1..Len(order) : order[j] \in adjacency[order[i]] => j < i
        /\ Ids = KnownIds(modules)
    BY ValidState, StartupState
  <2>2. ToSet(order) = Ids
    BY <2>1 DEF ToSet
  <2>3. ASSUME NEW i \in DOMAIN modules, NEW d \in ToSet(EntriesOf(modules[i])) \cap KnownIds(modules)
        PROVE  \E j, k \in DOMAIN order : j < k /\ order[j] = d /\ order[k] = modules[i].id
    <3>1. modules[i].id \in KnownIds(modules) /\ d \in KnownIds(modules)
      BY DEF KnownIds
    <3>2. d \in adjacency[modules[i].id]
      BY <3>1, ValidState DEF Adjacency
    <3> HIDE DEF order
    <3>3. PICK j \in 1..Len(order) : order[j] = d
      BY <2>1, <3>1
    <3>4. PICK k \in 1..Len(order) : order[k] = modules[i].id
      BY <2>1, <3>1
    <3>5. j < k
      BY <2>1, <3>2, <3>3, <3>4
    <3> QED BY <2>1, <3>3, <3>4, <3>5
  <2> QED BY <2>1, <2>2, <2>3
<1> QED BY <1>1, GraphInvariantHolds, PTL

\* For every module list the base order is the lexicographically smallest of all orders
\* that put consumers first: ties are broken by the module id and by nothing else.
THEOREM BaseOrderIsAlwaysSmallest == Spec => []BaseOrderIsSmallest
<1>1. GraphInvariant => BaseOrderIsSmallest
  <2> SUFFICES ASSUME GraphInvariant, pc = "done", result.valid,
                      NEW s \in SetToSeqs(KnownIds(modules)), IsConsumersFirstOrder(s),
                      Before(s, result.base_order)
               PROVE  FALSE
    BY DEF BaseOrderIsSmallest
  <2> DEFINE base == kahn.base_order  n == Cardinality(Ids)
  <2>1. /\ result.base_order = base /\ Ids = KnownIds(modules) /\ IsFiniteSet(Ids) /\ Ids \subseteq Nat
        /\ base \in Seq(Ids) /\ Len(base) = n /\ n \in Nat /\ DOMAIN base = 1..n
    BY ValidState, FS_CardinalityType DEF IsGraph, KahnLoop, KahnStates, Ids
  <2>2. \A j \in 1..n : \A d \in Ids : FreeIn(adjacency, kahn, j, d) => base[j] <= d
    BY <2>1, ValidState DEF KahnLoop, KahnIsGreedy, Ids
  <2>3. s \in [1..n -> Ids] /\ \A i, j \in 1..n : i # j => s[i] # s[j]
    BY <2>1 DEF SetToSeqs
  <2>4. \A c \in Ids : \E k \in 1..n : s[k] = c
    <3>1. s \in Injection(1..n, Ids)
      BY <2>3 DEF Injection, IsInjective
    <3>2. Cardinality(1..n) = n
      BY <2>1, FS_Interval
    <3>3. s \in Surjection(1..n, Ids)
      BY <2>1, <3>1, <3>2, FS_Injection
    <3> QED BY <3>3 DEF Surjection
  <2>5. PICK i \in 1..n : s[i] < base[i] /\ \A j \in 1..(i-1) : s[j] = base[j]
    BY <2>1, <2>3 DEF Before
  <2>6. \A i1, j \in 1..n : s[j] \in adjacency[s[i1]] => i1 < j
    BY <2>3 DEF IsConsumersFirstOrder
  <2> HIDE DEF n
  <2>7. FreeIn(adjacency, kahn, i, s[i])
    <3>1. \A j \in 1..(i - 1) : j \in 1..n /\ j # i
      BY <2>1
    <3>2. \A j \in 1..(i - 1) : base[j] # s[i]
      BY <2>3, <2>5, <3>1
    <3>3. ASSUME NEW c \in Ids, s[i] \in adjacency[c] PROVE \E j \in 1..(i - 1) : base[j] = c
      <4>1. PICK k \in 1..n : s[k] = c
        BY <2>4
      <4>2. k < i
        BY <2>6, <3>3, <4>1
      <4>3. k \in 1..(i - 1)
        BY <2>1, <4>2
      <4> QED BY <2>5, <4>1, <4>3
    <3> QED BY <3>2, <3>3 DEF FreeIn, Ids
  <2>8. base[i] <= s[i] /\ s[i] \in Nat /\ base[i] \in Nat
    BY <2>1, <2>2, <2>3, <2>7
  <2> HIDE DEF base
  <2> QED BY <2>5, <2>8
<1> QED BY <1>1, GraphInvariantHolds, PTL

-----------------------------------------------------------------------------
(***************************************************************************)
(* The dynamic loader.                                                     *)
(***************************************************************************)
\* A manifest of version 1 is valid exactly when its module breaks none of these rules.
LEMMA ManifestRules ==
  ASSUME NEW m \in ModuleSpecs
  PROVE  LET entries == EntriesOf(m)
         IN ValidateDynamicModuleManifest(m, 1) <=>
              /\ m.id # EmptyId /\ EmptyId \notin ToSet(entries) /\ m.id \notin ToSet(entries)
              /\ ~(Cardinality(ToSet(entries)) < Len(entries))
<1> DEFINE entries == EntriesOf(m)
<1>1. entries \in Seq(Nat)
  BY EntriesFacts
<1>2. 1 # EmptyId
  BY DEF EmptyId
<1>3. ValidateDynamicModuleManifest(m, 1) <=>
        /\ m.id # EmptyId
        /\ \A k \in DOMAIN entries : entries[k] \notin {EmptyId, m.id}
        /\ IsInjective(entries)
  BY <1>2 DEF ValidateDynamicModuleManifest
<1> HIDE DEF entries
<1>4. (\A k \in DOMAIN entries : entries[k] \notin {EmptyId, m.id}) <=>
        EmptyId \notin ToSet(entries) /\ m.id \notin ToSet(entries)
  BY DEF ToSet
<1>5. IsInjective(entries) <=> ~(Cardinality(ToSet(entries)) < Len(entries))
  <2>1. /\ Len(entries) \in Nat /\ DOMAIN entries = 1..Len(entries)
        /\ Cardinality(ToSet(entries)) < Len(entries) <=>
             \E k \in DOMAIN entries : \E l \in 1..(k - 1) : entries[l] = entries[k]
    BY <1>1, DeclaredEntries
  <2>2. ASSUME NEW k \in DOMAIN entries, NEW l \in 1..(k - 1), entries[l] = entries[k]
        PROVE  ~IsInjective(entries)
    <3>1. l \in DOMAIN entries /\ l # k
      BY <2>1
    <3> QED BY <2>2, <3>1 DEF IsInjective
  <2>3. ASSUME NEW k \in DOMAIN entries, NEW l \in DOMAIN entries, entries[l] = entries[k], l # k
        PROVE  \E a \in DOMAIN entries : \E b \in 1..(a - 1) : entries[b] = entries[a]
    <3>1. l \in 1..(k - 1) \/ k \in 1..(l - 1)
      BY <2>1, <2>3
    <3> QED BY <2>3, <3>1
  <2> QED BY <2>1, <2>2, <2>3 DEF IsInjective
<1> QED BY <1>3, <1>4, <1>5 DEF entries

\* For every module list the check of the manifests and the validation of the graph do
\* not contradict each other.
THEOREM ManifestsAlwaysAgreeWithGraph == Spec => []ManifestsAgreeWithGraph
<1>1. GraphInvariant /\ DeclarationVerdictIsExact => ManifestsAgreeWithGraph
  <2> DEFINE valid(i) == ValidateDynamicModuleManifest(modules[i], 1)
             entries(i) == EntriesOf(modules[i])
  <2> SUFFICES ASSUME GraphInvariant, DeclarationVerdictIsExact, pc = "done"
               PROVE  /\ (\A i \in DOMAIN modules : valid(i)) =>
                           result.error \notin {"InvalidModuleId", "SelfDependency", "DuplicateDependencyEntry"}
                      /\ result.valid =>
                           \A i \in DOMAIN modules :
                             valid(i) \/ EmptyId \in ToSet(modules[i].optional_dependencies)
    BY DEF ManifestsAgreeWithGraph
  <2>1. modules \in Seq(ModuleSpecs) /\ \A i \in DOMAIN modules : modules[i] \in ModuleSpecs
    BY InputsAreModuleLists DEF GraphInvariant
  <2>2. \A i \in DOMAIN modules :
          valid(i) <=> /\ modules[i].id # EmptyId
                       /\ EmptyId \notin ToSet(entries(i)) /\ modules[i].id \notin ToSet(entries(i))
                       /\ ~(Cardinality(ToSet(entries(i))) < Len(entries(i)))
    BY <2>1, ManifestRules
  <2>3. /\ BreaksRule["InvalidModuleId"] = \E i \in DOMAIN modules : modules[i].id = EmptyId
        /\ BreaksRule["SelfDependency"] = \E i \in DOMAIN modules : modules[i].id \in ToSet(entries(i))
        /\ BreaksRule["DuplicateDependencyEntry"] =
             \E i \in DOMAIN modules : Cardinality(ToSet(entries(i))) < Len(entries(i))
        /\ BreaksRule["MissingRequiredDependency"] =
             \E i \in DOMAIN modules : ~(ToSet(modules[i].required_dependencies) \subseteq KnownIds(modules))
        /\ DOMAIN BreaksRule = {"InvalidModuleId", "DuplicateModuleId", "SelfDependency",
                                "DuplicateDependencyEntry", "MissingRequiredDependency"}
    BY DEF BreaksRule
  <2>4. ASSUME \A i \in DOMAIN modules : valid(i)
        PROVE  result.error \notin {"InvalidModuleId", "SelfDependency", "DuplicateDependencyEntry"}
    <3>1. ~BreaksRule["InvalidModuleId"] /\ ~BreaksRule["SelfDependency"]
            /\ ~BreaksRule["DuplicateDependencyEntry"]
      BY <2>2, <2>3, <2>4
    <3>2. result.error \in DOMAIN BreaksRule => BreaksRule[result.error]
      BY DEF DeclarationVerdictIsExact
    <3> QED BY <2>3, <3>1, <3>2
  <2>5. ASSUME result.valid, NEW i \in DOMAIN modules
        PROVE  valid(i) \/ EmptyId \in ToSet(modules[i].optional_dependencies)
    <3>1. \A r \in DOMAIN BreaksRule : ~BreaksRule[r]
      BY <2>5, ValidState, NoRuleBroken
    <3>2. /\ modules[i].id # EmptyId /\ modules[i].id \notin ToSet(entries(i))
          /\ ~(Cardinality(ToSet(entries(i))) < Len(entries(i)))
          /\ ToSet(modules[i].required_dependencies) \subseteq KnownIds(modules)
          /\ EmptyId \notin KnownIds(modules)
      BY <2>3, <3>1 DEF KnownIds
    <3>3. EmptyId \in ToSet(entries(i)) => EmptyId \in ToSet(modules[i].optional_dependencies)
      BY <2>1, <3>2, EntriesFacts
    <3> QED BY <2>2, <3>2, <3>3
  <2> QED BY <2>4, <2>5
<1> QED BY <1>1, GraphInvariantHolds, DeclarationVerdictIsAlwaysExact, PTL

\* What the first n items of a sequence are.
LEMMA PrefixFacts ==
  ASSUME NEW S, NEW s \in Seq(S), NEW n \in 0..Len(s)
  PROVE  /\ SubSeq(s, 1, n) \in Seq(S) /\ Len(SubSeq(s, 1, n)) = n
         /\ \A i \in 1..n : SubSeq(s, 1, n)[i] = s[i]
         /\ ToSet(SubSeq(s, 1, n)) = {s[i] : i \in 1..n}
<1>1. /\ SubSeq(s, 1, n) \in Seq(S) /\ Len(SubSeq(s, 1, n)) = n
      /\ \A i \in 1..n : SubSeq(s, 1, n)[i] = s[i]
  BY SubSeqProperties
<1>2. DOMAIN SubSeq(s, 1, n) = 1..n
  BY <1>1
<1>3. ToSet(SubSeq(s, 1, n)) = {s[i] : i \in 1..n}
  BY <1>1, <1>2 DEF ToSet
<1> QED BY <1>1, <1>3

\* The rollback plan from the f-th of n loaded modules: the last one first, the f-th last.
UnloadsFromTop(plan, order, n, f) ==
  /\ Len(plan) = (n - f) + 1
  /\ \A k \in 1..((n - f) + 1) : plan[k] = order[(n - k) + 1]

\* That is the plan the loader builds.
LEMMA RollbackPlan ==
  ASSUME NEW S, NEW order \in Seq(S), IsInjective(order),
         EmptyId \notin S, NEW n \in 1..Len(order), NEW f \in 1..n,
         NEW plan, plan = BuildDynamicRollbackPlan(SubSeq(order, 1, n), order[f]).unload_order
  PROVE  plan \in Seq(S) /\ UnloadsFromTop(plan, order, n, f)
<1> DEFINE loaded == SubSeq(order, 1, n)
           last == CHOOSE i \in DOMAIN loaded :
                     /\ loaded[i] = order[f]
                     /\ \A j \in DOMAIN loaded : j > i => loaded[j] # order[f]
           tail == SubSeq(loaded, f, n)
<1>1. n \in Nat /\ f \in Nat /\ 1 <= f /\ f <= n /\ n <= Len(order) /\ Len(order) \in Nat /\ n \in 0..Len(order)
  OBVIOUS
<1>2. /\ loaded \in Seq(S) /\ Len(loaded) = n /\ DOMAIN loaded = 1..n
      /\ \A i \in 1..n : loaded[i] = order[i]
      /\ ToSet(loaded) = {order[i] : i \in 1..n}
  BY <1>1, PrefixFacts
<1>p. plan = BuildDynamicRollbackPlan(loaded, order[f]).unload_order
  OBVIOUS
<1> HIDE DEF loaded
<1>3. \A i \in 1..n : loaded[i] = order[f] => i = f
  BY <1>1, <1>2 DEF IsInjective
<1>4. f \in DOMAIN loaded /\ loaded[f] = order[f]
  BY <1>1, <1>2
<1>5. last = f
  <2>1. \A j \in DOMAIN loaded : j > f => loaded[j] # order[f]
    BY <1>1, <1>2, <1>3
  <2> QED BY <1>2, <1>3, <1>4, <2>1
<1>6. order[f] \in ToSet(loaded) /\ order[f] # EmptyId
  BY <1>1, <1>2
<1>7. BuildDynamicRollbackPlan(loaded, order[f]) =
        [required |-> TRUE, unload_order |-> Reverse(SubSeq(loaded, last, Len(loaded)))]
  BY <1>6 DEF BuildDynamicRollbackPlan
<1>8. plan = Reverse(tail)
  <2>1. SubSeq(loaded, last, Len(loaded)) = tail
    BY <1>2, <1>5
  <2> HIDE DEF last, tail
  <2> QED BY <1>p, <1>7, <2>1
<1> HIDE DEF last
<1>9. /\ tail \in Seq(S) /\ Len(tail) = (n - f) + 1
      /\ \A i \in 1..((n - f) + 1) : tail[i] = loaded[(f + i) - 1]
  BY <1>1, <1>2, SubSeqProperties
<1> HIDE DEF tail
<1>10. /\ plan \in Seq(S) /\ Len(plan) = (n - f) + 1
       /\ \A k \in 1..((n - f) + 1) : plan[k] = tail[(((n - f) + 1) - k) + 1]
  <2>1. /\ Reverse(tail) \in Seq(S) /\ Len(Reverse(tail)) = Len(tail)
        /\ \A k \in 1..Len(tail) : Reverse(tail)[k] = tail[(Len(tail) - k) + 1]
    BY <1>9, ReverseFacts
  <2> QED BY <1>8, <1>9, <2>1
<1>11. ASSUME NEW k \in 1..((n - f) + 1) PROVE plan[k] = order[(n - k) + 1]
  <2> DEFINE a == (((n - f) + 1) - k) + 1
  <2>1. a \in 1..((n - f) + 1) /\ (f + a) - 1 = (n - k) + 1 /\ (n - k) + 1 \in 1..n
    BY <1>1
  <2>2. plan[k] = tail[a]
    BY <1>10
  <2> HIDE DEF a
  <2>3. tail[a] = loaded[(f + a) - 1]
    BY <1>9, <2>1
  <2> QED BY <1>2, <2>1, <2>2, <2>3
<1> QED BY <1>10, <1>11 DEF UnloadsFromTop

\* For every valid module list a load in startup order is never refused, and a rollback
\* from any of its modules unloads what came after it, none of it with a loaded dependent.
THEOREM RollbackAlwaysUndoesLoad == Spec => []RollbackUndoesLoad
<1>1. GraphInvariant => RollbackUndoesLoad
  <2> DEFINE order == result.startup_order
             loaded(n) == ToSet(SubSeq(order, 1, n))
             mayLoad(n) == EvaluateDynamicLoadRequest("Running", order[n] \in loaded(n - 1),
                             adjacency[order[n]] \subseteq loaded(n - 1)) = "None"
             plan(n, f) == BuildDynamicRollbackPlan(SubSeq(order, 1, n), order[f]).unload_order
             left(n, f, k) == loaded(n) \ ToSet(SubSeq(plan(n, f), 1, k))
             refused(n, f) == {k \in DOMAIN plan(n, f) :
               EvaluateDynamicUnloadRequest("Running", TRUE, plan(n, f)[k] \in left(n, f, k - 1),
                 Dependents(plan(n, f)[k], left(n, f, k - 1)) # {}) # "None"}
             failed(n, f) == Subsequence(plan(n, f), refused(n, f))
  <2> SUFFICES ASSUME GraphInvariant, pc = "done", result.valid, NEW n \in DOMAIN order
               PROVE  /\ mayLoad(n)
                      /\ \A f \in 1..n :
                           /\ AssessDynamicRollbackResult(failed(n, f) = <<>>, Len(failed(n, f)), failed(n, f))
                                = "None"
                           /\ left(n, f, Len(plan(n, f))) = loaded(f - 1)
    BY DEF RollbackUndoesLoad
  <2>1. /\ order \in Seq(Ids) /\ Len(order) \in Nat /\ DOMAIN order = 1..Len(order)
        /\ \A i, j \in 1..Len(order) : order[i] = order[j] => i = j
        /\ \A d \in Ids : \E i \in 1..Len(order) : order[i] = d
        /\ \A i, j \in 1..Len(order) : order[j] \in adjacency[order[i]] => j < i
        /\ EmptyId \notin Ids /\ adjacency \in [Ids -> SUBSET Ids]
    BY ValidState, StartupState DEF IsGraph, Ids
  <2> HIDE DEF order
  <2>2. n \in Nat /\ 1 <= n /\ n <= Len(order)
    BY <2>1
  <2>3. \A m \in 0..Len(order) : loaded(m) = {order[i] : i \in 1..m}
    BY <2>1, PrefixFacts
  <2> HIDE DEF loaded
  <2>4. mayLoad(n)
    <3>1. n - 1 \in 0..Len(order)
      BY <2>1, <2>2
    <3>2. order[n] \notin loaded(n - 1)
      BY <2>1, <2>2, <2>3, <3>1
    <3>3. ASSUME NEW d \in adjacency[order[n]] PROVE d \in loaded(n - 1)
      <4>1. d \in Ids
        BY <2>1
      <4>2. PICK i \in 1..Len(order) : order[i] = d
        BY <2>1, <4>1
      <4>3. i < n
        BY <2>1, <3>3, <4>2
      <4>4. i \in 1..(n - 1)
        BY <2>2, <4>3
      <4> QED BY <2>3, <3>1, <4>2, <4>4
    <3> QED BY <3>2, <3>3 DEF EvaluateDynamicLoadRequest
  <2>5. ASSUME NEW f \in 1..n
        PROVE  /\ AssessDynamicRollbackResult(failed(n, f) = <<>>, Len(failed(n, f)), failed(n, f)) = "None"
               /\ left(n, f, Len(plan(n, f))) = loaded(f - 1)
    <3> DEFINE p == plan(n, f)  last == (n - f) + 1
    <3>1. f \in Nat /\ 1 <= f /\ f <= n /\ last \in Nat /\ f - 1 \in 0..Len(order) /\ n \in 0..Len(order)
      BY <2>1, <2>2
    <3>2. p \in Seq(Ids) /\ Len(p) = last /\ DOMAIN p = 1..last
          /\ \A k \in 1..last : p[k] = order[(n - k) + 1]
      <4>1. order \in Seq(Ids) /\ n \in 1..Len(order) /\ IsInjective(order) /\ EmptyId \notin Ids
        BY <2>1 DEF IsInjective
      <4>2. p \in Seq(Ids) /\ Len(p) = last /\ \A k \in 1..last : p[k] = order[(n - k) + 1]
        <5>1. p = BuildDynamicRollbackPlan(SubSeq(order, 1, n), order[f]).unload_order
          OBVIOUS
        <5> HIDE DEF p
        <5>2. p \in Seq(Ids) /\ UnloadsFromTop(p, order, n, f)
          BY <4>1, <5>1, RollbackPlan
        <5> QED BY <5>2 DEF UnloadsFromTop
      <4> HIDE DEF p
      <4> QED BY <3>1, <4>2
    <3> HIDE DEF p
    <3>3. ASSUME NEW k \in 0..last
          PROVE  loaded(n) \ ToSet(SubSeq(p, 1, k)) = {order[i] : i \in 1..(n - k)}
      <4>1. ToSet(SubSeq(p, 1, k)) = {p[a] : a \in 1..k}
        BY <3>2, PrefixFacts
      <4>2. loaded(n) = {order[i] : i \in 1..n}
        BY <2>3, <3>1
      <4>3. ASSUME NEW a \in 1..k PROVE p[a] = order[(n - a) + 1] /\ (n - a) + 1 \in (n - k + 1)..n
        BY <2>2, <3>1, <3>2
      <4>4. ASSUME NEW i \in (n - k + 1)..n PROVE \E a \in 1..k : p[a] = order[i]
        <5>1. (n - i) + 1 \in 1..k /\ (n - ((n - i) + 1)) + 1 = i
          BY <2>2, <3>1, SMTT(30)
        <5>2. p[(n - i) + 1] = order[(n - ((n - i) + 1)) + 1]
          BY <4>3, <5>1
        <5> QED BY <5>1, <5>2
      <4>5. \A i \in 1..n : i \in 1..(n - k) \/ i \in (n - k + 1)..n
        BY <2>2, <3>1
      <4>6. \A i \in 1..(n - k) : \A j \in (n - k + 1)..n :
              i \in 1..n /\ i \in 1..Len(order) /\ j \in 1..Len(order) /\ i # j
        BY <2>1, <2>2, <3>1, SMTT(30)
      <4>7. \A i \in 1..(n - k) : i \in 1..n
        BY <2>2, <3>1
      <4>8. ASSUME NEW i \in 1..(n - k) PROVE order[i] \notin ToSet(SubSeq(p, 1, k))
        <5> SUFFICES ASSUME NEW a \in 1..k, p[a] = order[i] PROVE FALSE
          BY <4>1
        <5> DEFINE j == (n - a) + 1
        <5>1. j \in (n - k + 1)..n /\ order[j] = order[i]
          BY <4>3
        <5> HIDE DEF j
        <5> QED BY <2>1, <4>6, <5>1
      <4>9. ASSUME NEW i \in 1..n, order[i] \notin ToSet(SubSeq(p, 1, k)) PROVE i \in 1..(n - k)
        BY <4>1, <4>4, <4>5, <4>9
      <4> QED BY <4>2, <4>7, <4>8, <4>9
    <3>4. ASSUME NEW k \in DOMAIN p
          PROVE  LET l == loaded(n) \ ToSet(SubSeq(p, 1, k - 1))
                 IN p[k] \in l /\ Dependents(p[k], l) = {}
      <4> DEFINE l == loaded(n) \ ToSet(SubSeq(p, 1, k - 1))  top == (n - k) + 1
      <4>1. k - 1 \in 0..last /\ n - (k - 1) = top /\ top \in 1..top /\ top \in Nat /\ top <= n
        BY <2>2, <3>1, <3>2
      <4>2. l = {order[i] : i \in 1..top}
        BY <3>3, <4>1
      <4>3. p[k] = order[top]
        BY <3>2
      <4> HIDE DEF l, top
      <4>4. p[k] \in l
        BY <4>1, <4>2, <4>3
      <4>5. ASSUME NEW c \in l, p[k] \in adjacency[c] PROVE FALSE
        <5>1. PICK i \in 1..top : c = order[i]
          BY <4>2
        <5>2. i \in 1..Len(order) /\ top \in 1..Len(order)
          BY <2>1, <2>2, <4>1
        <5>3. top < i
          BY <2>1, <4>3, <4>5, <5>1, <5>2
        <5> QED BY <4>1, <5>3
      <4> QED BY <4>4, <4>5 DEF Dependents, l
    <3>5. refused(n, f) = {}
      BY <3>4 DEF EvaluateDynamicUnloadRequest, p
    <3>6. failed(n, f) = <<>> /\ Len(failed(n, f)) = 0
      <4>1. Cardinality(refused(n, f)) = 0
        BY <3>5, FS_EmptySet
      <4> DEFINE r == refused(n, f)  q == plan(n, f)
      <4>2. Subsequence(q, r) = [k \in 1..Cardinality(r) |-> q[Place(r, k)]]
        BY DEF Subsequence
      <4> HIDE DEF r, q
      <4>3. Cardinality(r) = 0 /\ 1..0 = {}
        BY <4>1 DEF r
      <4>4. Subsequence(q, r) = <<>>
        BY <4>2, <4>3
      <4>5. failed(n, f) = <<>>
        BY <4>4 DEF r, q
      <4> QED BY <4>5
    <3>7. loaded(n) \ ToSet(SubSeq(p, 1, last)) = loaded(f - 1)
      <4>1. last \in 0..last /\ n - last = f - 1
        BY <2>2, <3>1
      <4> QED BY <2>3, <3>1, <3>3, <4>1
    <3> QED BY <3>2, <3>6, <3>7 DEF AssessDynamicRollbackResult, p
  <2> QED BY <2>4, <2>5
<1> QED BY <1>1, GraphInvariantHolds, PTL

-----------------------------------------------------------------------------
\* For every module list the locals of ValidateModuleGraph have their types and the code
\* it returns is one of its error codes.
THEOREM GraphTypeCorrect == Spec => []TypeOK
<1>1. GraphInvariant => TypeOK
  <2> SUFFICES ASSUME GraphInvariant PROVE TypeOK
    OBVIOUS
  <2>1. /\ IsGraph(adjacency) /\ kahn \in KahnStates(adjacency)
        /\ PhaseInvariant /\ ResultInvariant /\ modules \in Seq(ModuleSpecs) /\ modules \in Inputs
    BY InputsAreModuleLists DEF GraphInvariant, KahnInvariant, KahnLoop
  <2>2. result.valid \in BOOLEAN /\ result.error \in ErrorCodes
    <3>1. CASE pc = "done"
      BY <3>1, SameResult, ResultType
    <3>2. CASE pc # "done"
      <4>1. result = Invalid("None")
        BY <2>1, <3>2 DEF PhaseInvariant
      <4> QED BY <4>1 DEF Invalid, ErrorCodes
    <3> QED BY <3>1, <3>2
  <2> QED BY <2>1, <2>2 DEF TypeOK, IsGraph, KahnStates, PhaseInvariant, Ids
<1> QED BY <1>1, GraphInvariantHolds, PTL
=============================================================================
