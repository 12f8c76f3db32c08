--------------------------- MODULE MCMultiprocess ---------------------------
(* Instances of Multiprocess for TLC. *)
EXTENDS Multiprocess

Node(name, role, restart, max) ==
  [name |-> name, role |-> role, auto_restart |-> restart, max_restart_attempts |-> max]
Application(multi, transport, nodes) == [multi |-> multi, transport |-> transport, nodes |-> nodes]

\* A single-process application, and behind a primary entry one child that is
\* restarted once and one that is not restarted.
MCSpecs ==
  {Application(FALSE, FALSE, <<>>),
   Application(TRUE, TRUE, <<Node("ui", "Primary", FALSE, 0), Node("db", "Backend", TRUE, 1),
                             Node("job", "Worker", FALSE, 1)>>)}

\* One child, without transport.
MCOneSpec == {Application(TRUE, FALSE, <<Node("db", "Backend", TRUE, 1)>>)}
=============================================================================
