--------------------------- MODULE ServiceContext ---------------------------
(***************************************************************************)
(* framekit::runtime::ServiceContext: the phased registry of services.     *)
(* Every public operation holds the context's mutex, so each is one step.  *)
(* A key stands for the pair (contract type, key string).  Values are      *)
(* abstracted to the two attributes the context itself tells apart: who    *)
(* owns the instance and the sequence number of its registration.          *)
(***************************************************************************)
EXTENDS Naturals, Sequences, FiniteSets

CONSTANT Keys

Phases == {"Open", "Frozen", "Teardown"}
Ownerships == {"ContextOwned", "ExternalOwned"}

VARIABLES
  phase,                  \* phase_
  entries,                \* entries_: key -> [ownership, sequence]
  registration_sequence,  \* registration_sequence_
  freeze_count,           \* freeze_count_
  last_teardown_order     \* last_teardown_order_, the keys of its records

contextVars == <<phase, entries, registration_sequence, freeze_count,
                 last_teardown_order>>

NoEntries == [k \in {} |-> {}]

ContextInit ==
  /\ phase = "Open"
  /\ entries = NoEntries
  /\ registration_sequence = 0
  /\ freeze_count = 0
  /\ last_teardown_order = <<>>

Registered == DOMAIN entries

\* The guards of Register, in the code's order (a null service is never stored).
CanRegister(k, replace_existing) ==
  /\ phase = "Open"
  /\ k \in Registered => replace_existing

\* A replacement keeps the sequence number of the entry it replaces.
WithEntry(es, k, ownership, next_sequence) ==
  LET sequence == IF k \in DOMAIN es THEN es[k].sequence ELSE next_sequence
  IN [x \in DOMAIN es \cup {k} |->
        IF x = k THEN [ownership |-> ownership, sequence |-> sequence] ELSE es[x]]

Register(k, ownership, replace_existing) ==
  /\ CanRegister(k, replace_existing)
  /\ entries' = WithEntry(entries, k, ownership, registration_sequence)
  /\ registration_sequence' =
       IF k \in Registered THEN registration_sequence ELSE registration_sequence + 1
  /\ UNCHANGED <<phase, freeze_count, last_teardown_order>>

\* Wrong version of Freeze: any context can be frozen.
FreezeUnguarded ==
  /\ phase' = "Frozen"
  /\ freeze_count' = freeze_count + 1
  /\ UNCHANGED <<entries, registration_sequence, last_teardown_order>>

Freeze ==
  /\ phase = "Open"
  /\ phase' = "Frozen"
  /\ freeze_count' = freeze_count + 1
  /\ UNCHANGED <<entries, registration_sequence, last_teardown_order>>

Owned == {k \in Registered : entries[k].ownership = "ContextOwned"}

\* Wrong version of IsDescending: registration order.
IsAscending(order) ==
  \A i, j \in DOMAIN order : i < j => entries[order[i]].sequence < entries[order[j]].sequence

\* What std::sort leaves behind: descending sequence numbers.
IsDescending(order) ==
  \A i, j \in DOMAIN order : i < j => entries[order[i]].sequence > entries[order[j]].sequence

\* From phase Teardown the call returns true and changes nothing.
BeginTeardown ==
  /\ phase # "Teardown"
  /\ phase' = "Teardown"
  /\ last_teardown_order' \in [1..Cardinality(Owned) -> Owned]
  /\ IsDescending(last_teardown_order')
  /\ entries' = [k \in Registered \ Owned |-> entries[k]]
  /\ UNCHANGED <<registration_sequence, freeze_count>>

ResetForNextStartCycle ==
  /\ phase # "Frozen"
  /\ phase' = "Open"
  /\ entries' = NoEntries
  /\ registration_sequence' = 0
  /\ UNCHANGED <<freeze_count, last_teardown_order>>

\* Find returns an entry's instance, or nothing.  (An external instance may be
\* gone as well: the context holds it by a weak pointer.)
Findable(k) == phase # "Teardown" /\ k \in Registered

ContextNext ==
  \/ \E k \in Keys, o \in Ownerships, r \in BOOLEAN : Register(k, o, r)
  \/ Freeze
  \/ BeginTeardown
  \/ ResetForNextStartCycle

-----------------------------------------------------------------------------
\* The members have their types; a teardown order lists registrable keys.
ContextTypeOK ==
  /\ phase \in Phases
  /\ Registered \subseteq Keys /\ IsFiniteSet(Registered)
  /\ entries \in [Registered -> [ownership : Ownerships, sequence : Nat]]
  /\ registration_sequence \in Nat
  /\ freeze_count \in Nat
  /\ last_teardown_order \in Seq(Keys)
=============================================================================
