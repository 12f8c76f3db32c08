--------------------------- MODULE ModuleGraphOps ---------------------------
(***************************************************************************)
(* The operators ValidateModuleGraph (src/module_graph.cpp) is made of.    *)
(*                                                                         *)
(* A module list is a sequence of records                                  *)
(*   [id, required_dependencies, optional_dependencies],                   *)
(* the two dependency lists being sequences of ids.  Ids are naturals: the *)
(* code compares them as strings, in std::set order, and only that order   *)
(* matters.  The id 0 stands for the empty string.                         *)
(***************************************************************************)
EXTENDS Naturals, Sequences, FiniteSets, SequencesExt

ModuleSpecs == [id : Nat, required_dependencies : Seq(Nat), optional_dependencies : Seq(Nat)]

EmptyId == 0

ErrorCodes == {"None", "InvalidModuleId", "DuplicateModuleId", "SelfDependency",
               "DuplicateDependencyEntry", "MissingRequiredDependency", "CycleDetected"}

\* Wrong version of Smallest: ties go to the greatest id.
Greatest(S) == CHOOSE x \in S : \A y \in S : x >= y

Smallest(S) == CHOOSE x \in S : \A y \in S : x <= y

KnownIds(modules) == {modules[i].id : i \in DOMAIN modules}

(***************************************************************************)
(* First pass: the ids, in declaration order.                              *)
(***************************************************************************)
IdError(modules, i) ==
  IF modules[i].id = EmptyId THEN "InvalidModuleId"
  ELSE IF \E j \in 1..(i-1) : modules[j].id = modules[i].id THEN "DuplicateModuleId"
  ELSE "None"

(***************************************************************************)
(* Second pass: every dependency entry of every module, the required ones  *)
(* of a module before its optional ones.                                   *)
(***************************************************************************)
EntriesOf(m) ==
  m.required_dependencies \o m.optional_dependencies

\* Wrong version of EntryError: a module may depend on itself.
EntryErrorSelfAllowed(modules, i, k) ==
  LET m == modules[i]
      dependency == EntriesOf(m)[k]
  IN IF \E l \in 1..(k-1) : EntriesOf(m)[l] = dependency THEN "DuplicateDependencyEntry"
     ELSE IF k <= Len(m.required_dependencies) /\ dependency \notin KnownIds(modules)
          THEN "MissingRequiredDependency"
     ELSE "None"

EntryError(modules, i, k) ==
  LET m == modules[i]
      dependency == EntriesOf(m)[k]
  IN IF dependency = m.id THEN "SelfDependency"
     ELSE IF \E l \in 1..(k-1) : EntriesOf(m)[l] = dependency THEN "DuplicateDependencyEntry"
     ELSE IF k <= Len(m.required_dependencies) /\ dependency \notin KnownIds(modules)
          THEN "MissingRequiredDependency"
     ELSE "None"

\* Fail-fast: the first offending element, in the order of the loops, names
\* the error of the list.
DeclarationError(modules) ==
  LET badIds == {i \in DOMAIN modules : IdError(modules, i) # "None"}
      badEntries(i) == {k \in DOMAIN EntriesOf(modules[i]) : EntryError(modules, i, k) # "None"}
      badModules == {i \in DOMAIN modules : badEntries(i) # {}}
  IN IF badIds # {} THEN IdError(modules, Smallest(badIds))
     ELSE IF badModules # {}
          THEN LET i == Smallest(badModules) IN EntryError(modules, i, Smallest(badEntries(i)))
          ELSE "None"

\* adjacency[id]: the declared dependencies of id.  An optional dependency that
\* no module declares leaves no edge.
Adjacency(modules) ==
  [id \in KnownIds(modules) |->
    {d \in KnownIds(modules) :
       \E i \in DOMAIN modules : modules[i].id = id /\ d \in ToSet(EntriesOf(modules[i]))}]

(***************************************************************************)
(* Third pass: Kahn's algorithm from consumers to dependencies.  A state   *)
(* of the loop is [indegree, ready, base_order].                           *)
(***************************************************************************)
Consumers(adjacency, S, d) == {c \in S : d \in adjacency[c]}

\* Wrong version of KahnInit: every module is ready at once.
KahnInitAllReady(adjacency) ==
  LET ids == DOMAIN adjacency
  IN [indegree |-> [d \in ids |-> Cardinality(Consumers(adjacency, ids, d))],
      ready |-> ids, base_order |-> <<>>]

KahnInit(adjacency) ==
  LET ids == DOMAIN adjacency
      indegree == [d \in ids |-> Cardinality(Consumers(adjacency, ids, d))]
  IN [indegree |-> indegree,
      ready |-> {d \in ids : indegree[d] = 0},
      base_order |-> <<>>]

\* Wrong version of KahnStep: the dependencies keep their counts.
KahnStepUncounted(adjacency, s) ==
  LET current == Smallest(s.ready)
  IN [s EXCEPT !.ready = @ \ {current}, !.base_order = Append(@, current)]

\* One iteration of the while loop: the smallest ready id is emitted and its
\* dependencies lose one consumer.
KahnStep(adjacency, s) ==
  LET current == Smallest(s.ready)
      indegree == [d \in DOMAIN adjacency |->
                     IF d \in adjacency[current] /\ s.indegree[d] > 0
                     THEN s.indegree[d] - 1 ELSE s.indegree[d]]
  IN [indegree |-> indegree,
      ready |-> (s.ready \ {current}) \cup {d \in adjacency[current] : indegree[d] = 0},
      base_order |-> Append(s.base_order, current)]

\* Wrong version of KahnRun: the loop body runs once.
KahnRunOnce(adjacency) ==
  LET s == KahnInit(adjacency)
  IN IF s.ready = {} THEN s ELSE KahnStep(adjacency, s)

\* The state in which the loop exits.
KahnRun(adjacency) ==
  LET n == Cardinality(DOMAIN adjacency)
      run[k \in 0..n] ==
        IF k = 0 THEN KahnInit(adjacency)
        ELSE IF run[k-1].ready = {} THEN run[k-1] ELSE KahnStep(adjacency, run[k-1])
  IN run[n]

Invalid(code) == [valid |-> FALSE, error |-> code, base_order |-> <<>>, startup_order |-> <<>>]

\* Wrong versions of Verdict: no cycle check; the base order is not reversed.
VerdictUnchecked(adjacency, s) ==
  [valid |-> TRUE, error |-> "None", base_order |-> s.base_order,
   startup_order |-> Reverse(s.base_order)]
VerdictUnreversed(adjacency, s) ==
  IF Len(s.base_order) # Cardinality(DOMAIN adjacency)
  THEN Invalid("CycleDetected")
  ELSE [valid |-> TRUE, error |-> "None", base_order |-> s.base_order,
        startup_order |-> s.base_order]

\* The verdict once the loop has exited in state s.
Verdict(adjacency, s) ==
  IF Len(s.base_order) # Cardinality(DOMAIN adjacency)
  THEN Invalid("CycleDetected")
  ELSE [valid |-> TRUE, error |-> "None", base_order |-> s.base_order,
        startup_order |-> Reverse(s.base_order)]

\* The whole function, as the callers of the code see it.
ValidateModuleGraph(modules) ==
  IF DeclarationError(modules) # "None"
  THEN Invalid(DeclarationError(modules))
  ELSE Verdict(Adjacency(modules), KahnRun(Adjacency(modules)))
=============================================================================
