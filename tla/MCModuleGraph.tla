---------------------------- MODULE MCModuleGraph ----------------------------
(***************************************************************************)
(* Inputs for ModuleGraph.  GraphInputs: every directed graph over three   *)
(* modules (self loops excluded) declared in two orders, every edge        *)
(* required or optional.  FourModuleInputs: every graph on four modules    *)
(* with required edges only.  MalformedInputs: every list of at most two   *)
(* modules with at most MaxEntries dependency entries each, so that every  *)
(* declaration error occurs, alone and together with others.               *)
(***************************************************************************)
EXTENDS ModuleGraph, DynamicLoader, Subsequences

CONSTANT MaxEntries
ASSUME MaxEntriesIsNat == MaxEntries \in Nat

Module(id, req, opt) ==
  [id |-> id, required_dependencies |-> req, optional_dependencies |-> opt]

Sorted(S) == SetToSortSeq(S, LAMBDA a, b : a < b)

EdgeKinds == {"none", "required", "optional"}
ThreeModuleGraphs == [{e \in (1..3) \X (1..3) : e[1] # e[2]} -> EdgeKinds]

GraphInputs ==
  {[i \in 1..3 |->
      LET c == order[i]
          deps(kind) == {d \in (1..3) \ {c} : g[<<c, d>>] = kind}
      IN Module(c, Sorted(deps("required")), Sorted(deps("optional")))]
    : g \in ThreeModuleGraphs, order \in {<<1, 2, 3>>, <<3, 1, 2>>}}

FourModuleInputs ==
  {[i \in 1..4 |-> Module(i, Sorted(g[i] \ {i}), <<>>)] : g \in [1..4 -> SUBSET (1..4)]}

DependencyLists ==
  {d \in BoundedSeq(0..2, MaxEntries) \X BoundedSeq(0..2, MaxEntries) :
     Len(d[1]) + Len(d[2]) <= MaxEntries}

MalformedInputs ==
  BoundedSeq({Module(id, d[1], d[2]) : id \in 0..2, d \in DependencyLists}, 2)

MCInputs == GraphInputs \cup FourModuleInputs \cup MalformedInputs

-----------------------------------------------------------------------------
Dependents(id, loaded) == {c \in loaded : id \in adjacency[c]}

\* A valid graph can be loaded module by module in its startup order, and a rollback from
\* any module of any such load can be carried out: no request of its plan meets a loaded
\* dependent, it succeeds, and what stays loaded is what was loaded before the module.
RollbackUndoesLoad ==
  pc = "done" /\ result.valid =>
    LET order == result.startup_order
        mayLoad(n) == EvaluateDynamicLoadRequest("Running", order[n] \in ToSet(SubSeq(order, 1, n - 1)),
                        adjacency[order[n]] \subseteq ToSet(SubSeq(order, 1, n - 1))) = "None"
        plan(n, f) == BuildDynamicRollbackPlan(SubSeq(order, 1, n), order[f]).unload_order
        left(n, f, k) == ToSet(SubSeq(order, 1, n)) \ ToSet(SubSeq(plan(n, f), 1, k))
        refused(n, f) == {k \in DOMAIN plan(n, f) :
          EvaluateDynamicUnloadRequest("Running", TRUE, plan(n, f)[k] \in left(n, f, k - 1),
            Dependents(plan(n, f)[k], left(n, f, k - 1)) # {}) # "None"}
        failed(n, f) == Subsequence(plan(n, f), refused(n, f))
    IN \A n \in DOMAIN order :
         /\ mayLoad(n)
         /\ \A f \in 1..n :
              /\ AssessDynamicRollbackResult(failed(n, f) = <<>>, Len(failed(n, f)), failed(n, f))
                   = "None"
              /\ left(n, f, Len(plan(n, f))) = ToSet(SubSeq(order, 1, f - 1))

\* The manifest check and the graph validation agree: valid manifests never give an id,
\* self or duplicate error, and the modules of a valid graph have valid manifests, unless
\* one names the empty id as an optional dependency, which only the manifest check refuses.
ManifestsAgreeWithGraph ==
  LET valid(i) == ValidateDynamicModuleManifest(modules[i], 1)
  IN pc = "done" =>
       /\ (\A i \in DOMAIN modules : valid(i)) =>
            result.error \notin {"InvalidModuleId", "SelfDependency", "DuplicateDependencyEntry"}
       /\ result.valid =>
            \A i \in DOMAIN modules : valid(i) \/ EmptyId \in ToSet(modules[i].optional_dependencies)
=============================================================================
