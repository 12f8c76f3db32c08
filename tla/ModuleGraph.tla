----------------------------- MODULE ModuleGraph -----------------------------
(***************************************************************************)
(* ValidateModuleGraph as a computation: the declaration passes in one     *)
(* step, then one step per iteration of the topological loop, then the     *)
(* verdict.  KernelRuntime::ConfigureModules calls the same operators in   *)
(* one step (see Kernel), nothing runs in between.                         *)
(***************************************************************************)
EXTENDS ModuleGraphOps

CONSTANT Inputs  \* the module lists handed to ValidateModuleGraph

ASSUME InputsAreModuleLists == Inputs \subseteq Seq(ModuleSpecs)

VARIABLES
  modules,   \* the argument
  pc,        \* "check", "kahn" (the while loop) or "done"
  adjacency, \* id -> set of declared dependencies
  kahn,      \* [indegree, ready, base_order], the locals of the loop
  result     \* the value returned, meaningful when pc = "done"

vars == <<modules, pc, adjacency, kahn, result>>

Init ==
  /\ modules \in Inputs
  /\ pc = "check"
  /\ adjacency = [id \in {} |-> {}]
  /\ kahn = KahnInit(adjacency)
  /\ result = Invalid("None")

\* The id pass and the dependency pass found an error: return it.
Reject ==
  /\ pc = "check"
  /\ DeclarationError(modules) # "None"
  /\ result' = Invalid(DeclarationError(modules))
  /\ pc' = "done"
  /\ UNCHANGED <<modules, adjacency, kahn>>

\* Both passes succeeded: adjacency, indegree and ready are initialised.
Prepare ==
  /\ pc = "check"
  /\ DeclarationError(modules) = "None"
  /\ adjacency' = Adjacency(modules)
  /\ kahn' = KahnInit(Adjacency(modules))
  /\ pc' = "kahn"
  /\ UNCHANGED <<modules, result>>

Emit ==
  /\ pc = "kahn"
  /\ kahn.ready # {}
  /\ kahn' = KahnStep(adjacency, kahn)
  /\ UNCHANGED <<modules, pc, adjacency, result>>

Finish ==
  /\ pc = "kahn"
  /\ kahn.ready = {}
  /\ result' = Verdict(adjacency, kahn)
  /\ pc' = "done"
  /\ UNCHANGED <<modules, adjacency, kahn>>

Next == Reject \/ Prepare \/ Emit \/ Finish

Spec == Init /\ [][Next]_vars /\ WF_vars(Next)

-----------------------------------------------------------------------------
(***************************************************************************)
(* Properties.                                                             *)
(***************************************************************************)
Ids == DOMAIN adjacency
Emitted == ToSet(kahn.base_order)

\* The locals of the function have their types; the dependency pass leaves edges
\* between declared modules only.
TypeOK ==
  /\ modules \in Inputs
  /\ pc \in {"check", "kahn", "done"}
  /\ Ids \subseteq Nat
  /\ adjacency \in [Ids -> SUBSET Ids]
  /\ kahn \in [indegree : [Ids -> Nat], ready : SUBSET Ids, base_order : Seq(Ids)]
  /\ result.valid \in BOOLEAN
  /\ result.error \in ErrorCodes

\* A set of modules each of which is a dependency of another member of the set.
\* In a finite graph such a set exists exactly when there is a cycle.
SelfSupporting(S) == S # {} /\ \A d \in S : \E c \in S : d \in adjacency[c]

\* The loop's bookkeeping is exact: indegree counts the consumers that were not
\* emitted yet and ready is the set of unemitted modules without such consumers.
\* The `count > 0` test of the loop never hides a wrong count.
IndegreeIsExact ==
  pc # "check" =>
    /\ \A d \in Ids : kahn.indegree[d] = Cardinality(Consumers(adjacency, Ids \ Emitted, d))
    /\ kahn.ready = {d \in Ids \ Emitted : kahn.indegree[d] = 0}

\* Base order T: every consumer comes before each of its dependencies, and no
\* module is emitted twice (module-contract-dag-semantics, base order T).
ConsumersFirst ==
  /\ \A i, j \in DOMAIN kahn.base_order : kahn.base_order[i] = kahn.base_order[j] => i = j
  /\ \A c \in Ids : \A j \in DOMAIN kahn.base_order :
       kahn.base_order[j] \in adjacency[c] =>
         \E i \in DOMAIN kahn.base_order : i < j /\ kahn.base_order[i] = c

\* The verdict is exact: a list that passed the declaration checks is refused
\* if and only if its dependency graph has a cycle.
CycleVerdictIsExact ==
  pc = "done" /\ DeclarationError(modules) = "None" =>
    (result.error = "CycleDetected" <=> \E S \in SUBSET Ids : SelfSupporting(S))

\* A valid verdict carries a startup order that lists every declared module once
\* and starts a module only after all of its declared dependencies.
StartupOrderIsDependencyFirst ==
  pc = "done" /\ result.valid =>
    LET order == result.startup_order
    IN /\ ToSet(order) = KnownIds(modules)
       /\ Len(order) = Len(modules)
       /\ \A i \in DOMAIN modules : \A d \in ToSet(EntriesOf(modules[i])) \cap KnownIds(modules) :
            \E j, k \in DOMAIN order : j < k /\ order[j] = d /\ order[k] = modules[i].id

Before(s, t) == \E i \in DOMAIN s : s[i] < t[i] /\ \A j \in 1..(i-1) : s[j] = t[j]
IsConsumersFirstOrder(s) ==
  \A i, j \in DOMAIN s : s[j] \in adjacency[s[i]] => i < j

\* Tie-break by module id: among all orders that put consumers first the base
\* order is the lexicographically smallest one, so it depends on the declared
\* graph only, never on the order of the declarations.
BaseOrderIsSmallest ==
  pc = "done" /\ result.valid =>
    \A s \in SetToSeqs(KnownIds(modules)) :
      IsConsumersFirstOrder(s) => ~Before(s, result.base_order)

\* The documented declaration rules, each stated over the whole list.
BreaksRule ==
  LET deps(i) == EntriesOf(modules[i])
      required(i) == ToSet(modules[i].required_dependencies)
  IN [InvalidModuleId |-> \E i \in DOMAIN modules : modules[i].id = EmptyId,
      DuplicateModuleId |-> Cardinality(KnownIds(modules)) < Len(modules),
      SelfDependency |-> \E i \in DOMAIN modules : modules[i].id \in ToSet(deps(i)),
      DuplicateDependencyEntry |->
        \E i \in DOMAIN modules : Cardinality(ToSet(deps(i))) < Len(deps(i)),
      MissingRequiredDependency |->
        \E i \in DOMAIN modules : ~(required(i) \subseteq KnownIds(modules))]

\* The declaration passes are exact: a list is refused by them if and only if it
\* breaks one of the documented rules, and the code returned names a rule that the
\* list really breaks.
DeclarationVerdictIsExact ==
  pc = "done" =>
    /\ result.error \in DOMAIN BreaksRule => BreaksRule[result.error]
    /\ result.error \notin DOMAIN BreaksRule => \A r \in DOMAIN BreaksRule : ~BreaksRule[r]

\* The function called inside one step of KernelRuntime::ConfigureModules
\* computes what the step-by-step execution computes.
FunctionAgrees == pc = "done" => result = ValidateModuleGraph(modules)
=============================================================================
