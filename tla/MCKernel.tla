------------------------------ MODULE MCKernel ------------------------------
(***************************************************************************)
(* Kernel instances over three modules: module 1 requires 2 and module 3   *)
(* uses 1 if it is declared, so the startup order is 2, 1, 3.              *)
(***************************************************************************)
EXTENDS Kernel

M1 == [id |-> 1, required_dependencies |-> <<2>>, optional_dependencies |-> <<>>]
M2 == [id |-> 2, required_dependencies |-> <<>>, optional_dependencies |-> <<>>]
M3 == [id |-> 3, required_dependencies |-> <<>>, optional_dependencies |-> <<1>>]

\* The whole graph, a list whose optional dependency is missing, and a list
\* whose required dependency is missing.
MCConfigurations == {<<M1, M2, M3>>, <<M3>>, <<M1>>}

MCRecordedOrders == {<<2, 1>>}

Hook(bootstrap, initialize, module, bus, limit, platform) ==
  [bootstrap |-> bootstrap, initialize |-> initialize, module |-> module,
   bus |-> bus, limit |-> limit, platform |-> platform]

\* Every module handler, every drain policy and both bootstraps occur.
MCHooks ==
  {Hook("default", FALSE, "lifecycle", "drain_all", 0, 1),
   Hook("custom", TRUE, "stop", "drain_bounded", 1, 0),
   Hook("default", TRUE, "none", "discard", 0, 0),
   Hook("custom", TRUE, "lifecycle", "none", 0, 1)}
=============================================================================
