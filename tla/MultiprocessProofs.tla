------------------------- MODULE MultiprocessProofs -------------------------
(***************************************************************************)
(* Proofs about Multiprocess: for every topology, every number of          *)
(* processes and every answer of the launcher the records of the runtime   *)
(* agree with the processes and channels it is responsible for.            *)
(***************************************************************************)
EXTENDS Multiprocess, OperatorLemmas

-----------------------------------------------------------------------------
(***************************************************************************)
(* The inductive invariant: what each operation in progress knows.         *)
(***************************************************************************)
DistinctIds(identities) ==
  \A i, j \in DOMAIN identities : identities[i].process_id = identities[j].process_id => i = j

Items(s) == {s[i] : i \in DOMAIN s}

\* A launch or a rollback belongs to a runtime that is not running, a tick to one
\* that is; no child has been restarted since the Start in progress began.
OperationInvariant ==
  /\ op.kind \in {"launch", "rollback"} => ~running /\ relaunched = [n \in Names |-> 0]
  /\ op.kind = "tick" => running
  /\ op.kind = "launch" => op.kept = <<>>

\* The rollback holds each child at most once, either still to be stopped or kept.
RollbackInvariant ==
  op.kind = "rollback" =>
    /\ DistinctIds(op.todo) /\ DistinctIds(op.kept)
    /\ PidsOf(op.todo) \cap PidsOf(op.kept) = {}
    /\ \A pid \in PidsOf(op.todo) \cup PidsOf(op.kept) : pid < next_pid

\* What a rollback or a Stop has still to visit, or could not stop, is all that is alive.
StoppingInvariant ==
  /\ op.kind = "rollback" => alive \subseteq PidsOf(op.todo) \cup refused /\ PidsOf(op.kept) \subseteq refused
  /\ op.kind = "stop" => alive \subseteq Items(op.todo) \cup refused

TrackingInvariant ==
  TypeOK /\ OperationInvariant /\ ChildrenAreTracked /\ RollbackInvariant /\ NoChannelLeaks

-----------------------------------------------------------------------------
(***************************************************************************)
(* Lists of identities with distinct process ids.                          *)
(***************************************************************************)

\* A process with a new id is added to the list.
LEMMA AppendIds ==
  ASSUME NEW s \in Seq(Identities), DistinctIds(s),
         NEW e \in Identities, e.process_id \notin PidsOf(s)
  PROVE  /\ Append(s, e) \in Seq(Identities)
         /\ DistinctIds(Append(s, e))
         /\ PidsOf(Append(s, e)) = PidsOf(s) \cup {e.process_id}
<1> DEFINE r == Append(s, e)
<1>1. /\ r \in Seq(Identities) /\ Len(s) \in Nat
      /\ DOMAIN s = 1..Len(s) /\ DOMAIN r = 1..(Len(s) + 1)
      /\ \A i \in 1..Len(s) : r[i] = s[i]
      /\ r[Len(s) + 1] = e
  BY AppendFacts
<1> HIDE DEF r
<1>2. \A i \in 1..(Len(s) + 1) : i \in 1..Len(s) \/ i = Len(s) + 1
  BY <1>1
<1>3. 1..Len(s) \subseteq 1..(Len(s) + 1) /\ Len(s) + 1 \in 1..(Len(s) + 1)
  BY <1>1
<1>4. DistinctIds(r)
  BY <1>1, <1>2 DEF DistinctIds, PidsOf
<1>5. PidsOf(r) = PidsOf(s) \cup {e.process_id}
  BY <1>1, <1>2, <1>3 DEF PidsOf
<1> QED BY <1>1, <1>4, <1>5 DEF r

\* The first process is taken off the list.
LEMMA TailIds ==
  ASSUME NEW s \in Seq(Identities), s # <<>>
  PROVE  /\ Head(s) \in Identities /\ Tail(s) \in Seq(Identities)
         /\ PidsOf(s) = {Head(s).process_id} \cup PidsOf(Tail(s))
         /\ DistinctIds(s) => DistinctIds(Tail(s)) /\ Head(s).process_id \notin PidsOf(Tail(s))
<1> DEFINE r == Tail(s)
<1>1. /\ r \in Seq(Identities) /\ Len(s) \in Nat \ {0}
      /\ Head(s) = s[1] /\ Head(s) \in Identities
      /\ DOMAIN s = 1..Len(s) /\ DOMAIN r = 1..(Len(s) - 1)
      /\ \A i \in 1..(Len(s) - 1) : r[i] = s[i + 1]
  BY TailFacts
<1> HIDE DEF r
<1>2. \A i \in 1..Len(s) : i = 1 \/ i - 1 \in 1..(Len(s) - 1)
  BY <1>1
<1>3. \A i \in 1..(Len(s) - 1) : i + 1 \in 1..Len(s) /\ i + 1 # 1 /\ 1 \in 1..Len(s)
  BY <1>1
<1>4. \A i \in 1..Len(s) : i # 1 => s[i] = r[i - 1]
  <2> SUFFICES ASSUME NEW i \in 1..Len(s), i # 1 PROVE s[i] = r[i - 1]
    OBVIOUS
  <2>1. i - 1 \in 1..(Len(s) - 1) /\ (i - 1) + 1 = i
    BY <1>1
  <2> QED BY <1>1, <2>1
<1>5. PidsOf(s) = {Head(s).process_id} \cup PidsOf(r)
  <2>1. ASSUME NEW i \in 1..Len(s) PROVE s[i].process_id \in {Head(s).process_id} \cup PidsOf(r)
    BY <1>1, <1>2, <1>4 DEF PidsOf
  <2>2. ASSUME NEW i \in 1..(Len(s) - 1) PROVE r[i].process_id \in PidsOf(s)
    BY <1>1, <1>3 DEF PidsOf
  <2>3. Head(s).process_id \in PidsOf(s)
    BY <1>1 DEF PidsOf
  <2>4. PidsOf(s) \subseteq {Head(s).process_id} \cup PidsOf(r)
    BY <1>1, <2>1 DEF PidsOf
  <2>5. PidsOf(r) \subseteq PidsOf(s)
    BY <1>1, <2>2 DEF PidsOf
  <2> QED BY <2>3, <2>4, <2>5
<1>6. ASSUME DistinctIds(s) PROVE DistinctIds(r) /\ Head(s).process_id \notin PidsOf(r)
  <2>1. ASSUME NEW i \in 1..(Len(s) - 1), NEW j \in 1..(Len(s) - 1),
               r[i].process_id = r[j].process_id
        PROVE  i = j
    <3>1. i + 1 = j + 1
      BY <1>1, <1>3, <1>6, <2>1 DEF DistinctIds
    <3> QED BY <3>1
  <2>2. ASSUME NEW i \in 1..(Len(s) - 1) PROVE r[i].process_id # Head(s).process_id
    BY <1>1, <1>3, <1>6 DEF DistinctIds
  <2> QED BY <1>1, <2>1, <2>2 DEF DistinctIds, PidsOf
<1> QED BY <1>1, <1>5, <1>6 DEF r

\* The list is reversed.
LEMMA ReverseIds ==
  ASSUME NEW s \in Seq(Identities)
  PROVE  /\ Reverse(s) \in Seq(Identities)
         /\ PidsOf(Reverse(s)) = PidsOf(s)
         /\ DistinctIds(s) => DistinctIds(Reverse(s))
<1> DEFINE r == Reverse(s)
           n == Len(s)
<1>1. /\ r \in Seq(Identities) /\ n \in Nat
      /\ DOMAIN s = 1..n /\ DOMAIN r = 1..n
      /\ \A i \in 1..n : r[i] = s[(n - i) + 1]
  BY ReverseFacts
<1> HIDE DEF r, n
<1>2. \A i \in 1..n : (n - i) + 1 \in 1..n /\ (n - ((n - i) + 1)) + 1 = i
  BY <1>1
<1>3. PidsOf(r) = PidsOf(s)
  <2>1. ASSUME NEW i \in 1..n PROVE r[i].process_id \in PidsOf(s)
    BY <1>1, <1>2 DEF PidsOf
  <2>2. ASSUME NEW i \in 1..n PROVE s[i].process_id \in PidsOf(r)
    <3>1. r[(n - i) + 1] = s[i]
      BY <1>1, <1>2
    <3> QED BY <1>1, <1>2, <3>1 DEF PidsOf
  <2> QED BY <1>1, <2>1, <2>2 DEF PidsOf
<1>4. ASSUME DistinctIds(s) PROVE DistinctIds(r)
  <2>1. ASSUME NEW i \in 1..n, NEW j \in 1..n, r[i].process_id = r[j].process_id
        PROVE  i = j
    <3>1. (n - i) + 1 = (n - j) + 1
      BY <1>1, <1>2, <1>4, <2>1 DEF DistinctIds
    <3> QED BY <1>1, <3>1
  <2> QED BY <1>1, <2>1 DEF DistinctIds
<1> QED BY <1>1, <1>3, <1>4 DEF r

\* The process at a position is removed from the list.
LEMMA RemoveIds ==
  ASSUME NEW s \in Seq(Identities), DistinctIds(s), NEW k \in DOMAIN s
  PROVE  /\ RemoveAt(s, k) \in Seq(Identities)
         /\ PidsOf(RemoveAt(s, k)) = PidsOf(s) \ {s[k].process_id}
         /\ DistinctIds(RemoveAt(s, k))
<1> DEFINE r == RemoveAt(s, k)
           n == Len(s)
           from(j) == IF j < k THEN j ELSE j + 1
<1>1. /\ r \in Seq(Identities) /\ n \in Nat /\ k \in 1..n
      /\ DOMAIN s = 1..n /\ DOMAIN r = 1..(n - 1)
      /\ \A j \in 1..(n - 1) : r[j] = IF j < k THEN s[j] ELSE s[j + 1]
  BY RemoveAtFacts
<1> HIDE DEF r, n
<1>2. \A j \in 1..(n - 1) : from(j) \in 1..n /\ from(j) # k /\ r[j] = s[from(j)]
  BY <1>1
<1>3. \A i, j \in 1..(n - 1) : from(i) = from(j) => i = j
  BY <1>1
<1>4. \A i \in 1..n : i # k => \E j \in 1..(n - 1) : from(j) = i
  <2> SUFFICES ASSUME NEW i \in 1..n, i # k PROVE \E j \in 1..(n - 1) : from(j) = i
    OBVIOUS
  <2>1. CASE i < k
    <3>1. i \in 1..(n - 1) /\ from(i) = i
      BY <1>1, <2>1
    <3> QED BY <3>1
  <2>2. CASE i > k
    <3>1. i - 1 \in 1..(n - 1) /\ from(i - 1) = i
      BY <1>1, <2>2
    <3> QED BY <3>1
  <2> QED BY <1>1, <2>1, <2>2
<1> HIDE DEF from
<1>5. DistinctIds(r)
  BY <1>1, <1>2, <1>3 DEF DistinctIds
<1>6. PidsOf(r) = PidsOf(s) \ {s[k].process_id}
  <2>1. ASSUME NEW j \in 1..(n - 1) PROVE r[j].process_id \in PidsOf(s) \ {s[k].process_id}
    BY <1>1, <1>2 DEF PidsOf, DistinctIds
  <2>2. ASSUME NEW i \in 1..n, s[i].process_id # s[k].process_id PROVE s[i].process_id \in PidsOf(r)
    <3>1. PICK j \in 1..(n - 1) : from(j) = i
      BY <1>4, <2>2
    <3> QED BY <1>1, <1>2, <3>1 DEF PidsOf
  <2>3. PidsOf(r) \subseteq PidsOf(s) \ {s[k].process_id}
    BY <1>1, <2>1 DEF PidsOf
  <2>4. PidsOf(s) \ {s[k].process_id} \subseteq PidsOf(r)
    BY <1>1, <2>2 DEF PidsOf
  <2> QED BY <2>3, <2>4
<1> QED BY <1>1, <1>5, <1>6 DEF r

\* The process at a position is replaced by one with a new id.
LEMMA ReplaceIds ==
  ASSUME NEW s \in Seq(Identities), DistinctIds(s), NEW k \in DOMAIN s,
         NEW e \in Identities, e.process_id \notin PidsOf(s)
  PROVE  /\ [s EXCEPT ![k] = e] \in Seq(Identities)
         /\ PidsOf([s EXCEPT ![k] = e]) = (PidsOf(s) \ {s[k].process_id}) \cup {e.process_id}
         /\ DistinctIds([s EXCEPT ![k] = e])
<1> DEFINE r == [s EXCEPT ![k] = e]
<1>1. /\ r \in Seq(Identities) /\ DOMAIN r = DOMAIN s
      /\ \A i \in DOMAIN s : r[i] = IF i = k THEN e ELSE s[i]
  BY ExceptSeq
<1> HIDE DEF r
<1>2. DistinctIds(r)
  BY <1>1 DEF DistinctIds, PidsOf
<1>3. PidsOf(r) = (PidsOf(s) \ {s[k].process_id}) \cup {e.process_id}
  <2>1. ASSUME NEW i \in DOMAIN s
        PROVE  r[i].process_id \in (PidsOf(s) \ {s[k].process_id}) \cup {e.process_id}
    BY <1>1 DEF PidsOf, DistinctIds
  <2>2. ASSUME NEW i \in DOMAIN s, s[i].process_id # s[k].process_id
        PROVE  s[i].process_id \in PidsOf(r)
    BY <1>1, <2>2 DEF PidsOf
  <2>3. e.process_id \in PidsOf(r)
    BY <1>1 DEF PidsOf
  <2>4. PidsOf(r) \subseteq (PidsOf(s) \ {s[k].process_id}) \cup {e.process_id}
    BY <1>1, <2>1 DEF PidsOf
  <2>5. PidsOf(s) \ {s[k].process_id} \subseteq PidsOf(r)
    BY <1>1, <2>2 DEF PidsOf
  <2> QED BY <2>3, <2>4, <2>5
<1> QED BY <1>1, <1>2, <1>3 DEF r

\* A recorded process is found at a position of the list.
LEMMA IndexOfFacts ==
  ASSUME children \in Seq(Identities), DistinctIds(children), NEW pid \in PidsOf(children)
  PROVE  /\ IndexOf(pid) \in DOMAIN children
         /\ children[IndexOf(pid)].process_id = pid
         /\ children[IndexOf(pid)] \in Identities
<1>1. PICK i \in DOMAIN children : children[i].process_id = pid
  BY DEF PidsOf
<1>2. \A j \in 1..(i-1) : children[j].process_id # pid
  <2> SUFFICES ASSUME NEW j \in 1..(i-1), children[j].process_id = pid PROVE FALSE
    OBVIOUS
  <2>1. j \in DOMAIN children /\ j # i
    BY <1>1
  <2> QED BY <1>1, <2>1 DEF DistinctIds
<1>3. /\ IndexOf(pid) \in DOMAIN children
      /\ children[IndexOf(pid)].process_id = pid
  BY <1>1, <1>2 DEF IndexOf
<1> QED BY <1>3

-----------------------------------------------------------------------------
(***************************************************************************)
(* Types and tracking.                                                     *)
(***************************************************************************)
LEMMA IdleFacts == Idle.kind = "idle" /\ Idle.todo = <<>> /\ Idle.kept = <<>>
BY DEF Idle

\* The operation in progress has the fields its kind says.
LEMMA OpFacts ==
  ASSUME TypeOK
  PROVE  /\ op.kind \in {"idle", "launch", "rollback", "tick", "stop"}
         /\ op.kind = "idle" <=> op = Idle
         /\ op = [kind |-> op.kind, todo |-> op.todo, kept |-> op.kept]
         /\ op.kept \in Seq(Identities)
         /\ op.kind = "launch" => op.todo \in Seq(Nodes)
         /\ op.kind = "rollback" => op.todo \in Seq(Identities)
         /\ op.kind \in {"tick", "stop"} => op.todo \in Seq(Pids)
<1>1. CASE op = Idle BY <1>1 DEF Idle
<1>2. CASE op \in Operations("launch", Nodes) BY <1>2 DEF Operations, Idle
<1>3. CASE op \in Operations("rollback", Identities) BY <1>3 DEF Operations, Idle
<1>4. CASE op \in Operations("tick", Pids) BY <1>4 DEF Operations, Idle
<1>5. CASE op \in Operations("stop", Pids) BY <1>5 DEF Operations, Idle
<1> QED BY <1>1, <1>2, <1>3, <1>4, <1>5 DEF TypeOK

\* A new runtime has no children and no channel.
LEMMA TrackingInit == Init => TrackingInvariant
<1> SUFFICES ASSUME Init PROVE TrackingInvariant
  OBVIOUS
<1>1. TypeOK
  <2>1. next_pid \in 1..(MaxPid + 1) /\ 0 \in 0..MaxHeartbeats
    BY BoundsAssumption DEF Init
  <2>2. handshakes \in [Pids -> HandshakeStates] /\ heartbeats \in [Pids -> 0..MaxHeartbeats]
    BY <2>1 DEF Init, HandshakeStates
  <2>3. restarts \in [Names -> Nat] /\ relaunched \in [Names -> Nat] /\ children \in Seq(Identities)
    BY DEF Init
  <2> QED BY <2>1, <2>2, <2>3 DEF Init, TypeOK
<1>2. op.kind = "idle"
  BY DEF Init, Idle
<1>3. ChildrenAreTracked
  BY DEF Init, ChildrenAreTracked, Tracked, PidsOf
<1>4. NoChannelLeaks
  BY DEF Init, NoChannelLeaks
<1> QED BY <1>1, <1>2, <1>3, <1>4 DEF TrackingInvariant, OperationInvariant, RollbackInvariant

\* The list of the process ids the walks of Tick and Stop copy.
LEMMA ProcessIdsFacts ==
  ASSUME children \in Seq(Identities)
  PROVE  ProcessIds \in Seq(Pids) /\ Items(ProcessIds) = PidsOf(children)
<1>1. Len(children) \in Nat /\ DOMAIN children = 1..Len(children)
  OBVIOUS
<1>2. \A i \in DOMAIN children : children[i].process_id \in Pids
  <2>1. \A i \in DOMAIN children : children[i] \in Identities
    OBVIOUS
  <2> QED BY <2>1 DEF Identities
<1>3. ProcessIds \in [1..Len(children) -> Pids]
  BY <1>1, <1>2 DEF ProcessIds
<1>4. ProcessIds \in Seq(Pids)
  BY <1>1, <1>3, SeqDef
<1>5. Items(ProcessIds) = PidsOf(children)
  BY DEF Items, PidsOf, ProcessIds
<1> QED BY <1>4, <1>5

\* A fresh process id is the id of no child.
LEMMA FreshPid ==
  ASSUME TypeOK, ChildrenAreTracked
  PROVE  next_pid \notin PidsOf(children) /\ DistinctIds(children)
<1>1. next_pid \in Nat
  BY BoundsAssumption DEF TypeOK
<1>2. ASSUME next_pid \in PidsOf(children) PROVE FALSE
  BY <1>1, <1>2 DEF ChildrenAreTracked, Tracked
<1> QED BY <1>2 DEF ChildrenAreTracked, DistinctIds

\* RestartChild replaces the child, or leaves the list alone.
LEMMA RestartFacts ==
  ASSUME TypeOK, ChildrenAreTracked, NEW pid, RestartChild(pid)
  PROVE  /\ children' \in Seq(Identities) /\ DistinctIds(children')
         /\ handshakes' \in [Pids -> HandshakeStates]
         /\ heartbeats' \in [Pids -> 0..MaxHeartbeats]
         /\ restarts' \in [Names -> Nat] /\ relaunched' \in [Names -> Nat]
         /\ next_pid' \in 1..(MaxPid + 1) /\ alive' \subseteq Pids /\ refused' \subseteq Pids
         /\ UNCHANGED <<config, running, channel, wire, open_channels>>
         /\ \/ UNCHANGED <<children, handshakes, next_pid>>
            \/ /\ next_pid' = next_pid + 1
               /\ PidsOf(children') = (PidsOf(children) \ {pid}) \cup {next_pid}
               /\ handshakes' = [handshakes EXCEPT ![next_pid] = "Spawned"]
<1> DEFINE child == children[IndexOf(pid)]
           new == [child EXCEPT !.process_id = next_pid]
<1>1. pid \in PidsOf(children)
  BY DEF RestartChild
<1>2. DistinctIds(children) /\ children \in Seq(Identities) /\ next_pid \notin PidsOf(children)
  BY FreshPid DEF TypeOK
<1>3. /\ IndexOf(pid) \in DOMAIN children /\ child.process_id = pid /\ child \in Identities
      /\ child.name \in Names /\ pid \in Pids
  BY <1>1, <1>2, IndexOfFacts DEF Identities
<1>4. CASE ~HasRestartBudget(child)
  <2>1. UNCHANGED <<records, world, history>> /\ UNCHANGED <<config, running, channel>>
    BY <1>4 DEF RestartChild
  <2> QED BY <1>2, <2>1 DEF records, world, history, TypeOK, DistinctIds
<1>5. ASSUME HasRestartBudget(child)
      PROVE  restarts' \in [Names -> Nat] /\ UNCHANGED <<wire, open_channels, config, running, channel>>
  <2>1. /\ ConsumeRestartBudget(child)
        /\ UNCHANGED <<wire, open_channels, config, running, channel>>
    BY <1>5 DEF RestartChild
  <2> QED BY <1>3, <2>1 DEF ConsumeRestartBudget, TypeOK
<1>6. CASE HasRestartBudget(child) /\ RelaunchChild(child)
  <2>1. new \in Identities /\ new.process_id = next_pid /\ next_pid \in Pids
    BY <1>3, <1>6 DEF Identities, RelaunchChild
  <2>2. /\ children' = [children EXCEPT ![IndexOf(pid)] = new]
        /\ handshakes' = [handshakes EXCEPT ![next_pid] = "Spawned"]
        /\ heartbeats' = [heartbeats EXCEPT ![next_pid] = 0]
        /\ relaunched' = [relaunched EXCEPT ![child.name] = @ + 1]
        /\ alive' = (alive \ {pid}) \cup {next_pid} /\ next_pid' = next_pid + 1
        /\ UNCHANGED refused
    BY <1>3, <1>6, <2>1 DEF RelaunchChild
  <2> HIDE DEF new, child
  <2>3. /\ children' \in Seq(Identities) /\ DistinctIds(children')
        /\ PidsOf(children') = (PidsOf(children) \ {pid}) \cup {next_pid}
    <3>1. children[IndexOf(pid)].process_id = pid
      BY <1>3 DEF child
    <3>2. new.process_id \notin PidsOf(children) /\ new.process_id = next_pid
      BY <1>2, <2>1
    <3>3. IndexOf(pid) \in DOMAIN children
      BY <1>3
    <3> DEFINE r == [children EXCEPT ![IndexOf(pid)] = new]
    <3>4. /\ r \in Seq(Identities) /\ DistinctIds(r)
          /\ PidsOf(r) = (PidsOf(children) \ {children[IndexOf(pid)].process_id}) \cup {new.process_id}
      BY <1>2, <2>1, <3>2, <3>3, ReplaceIds
    <3> HIDE DEF r
    <3>5. children' = r
      BY <2>2 DEF r
    <3> QED BY <3>1, <3>2, <3>4, <3>5
  <2>4. /\ handshakes' \in [Pids -> HandshakeStates] /\ heartbeats' \in [Pids -> 0..MaxHeartbeats]
        /\ relaunched' \in [Names -> Nat]
    <3>1. /\ handshakes \in [Pids -> HandshakeStates] /\ heartbeats \in [Pids -> 0..MaxHeartbeats]
          /\ relaunched \in [Names -> Nat] /\ 0 \in 0..MaxHeartbeats
      BY BoundsAssumption DEF TypeOK
    <3>2. child.name \in Names
      BY <1>3 DEF child
    <3>3. handshakes' \in [Pids -> HandshakeStates] /\ heartbeats' \in [Pids -> 0..MaxHeartbeats]
      BY <2>2, <3>1 DEF HandshakeStates
    <3>4. relaunched' \in [Names -> Nat]
      BY <2>2, <3>1, <3>2
    <3> QED BY <3>3, <3>4
  <2>5. next_pid' \in 1..(MaxPid + 1) /\ alive' \subseteq Pids /\ refused' \subseteq Pids
    <3>1. alive \subseteq Pids /\ refused \subseteq Pids
      BY DEF TypeOK
    <3>2. next_pid \in 1..MaxPid
      BY <2>1 DEF Pids
    <3>3. next_pid + 1 \in 1..(MaxPid + 1)
      BY <3>2, BoundsAssumption
    <3> QED BY <2>1, <2>2, <3>1, <3>3
  <2> QED BY <1>5, <1>6, <2>2, <2>3, <2>4, <2>5
<1>7. ASSUME HasRestartBudget(child), NEW stopped \in BOOLEAN, RelaunchFails(child, stopped)
      PROVE  /\ UNCHANGED <<next_pid, children, handshakes, heartbeats, relaunched>>
             /\ alive' \subseteq Pids /\ refused' \subseteq Pids
  BY <1>3, <1>7 DEF RelaunchFails, StopChild, TypeOK
<1>8. CASE HasRestartBudget(child) /\ \E stopped \in BOOLEAN : RelaunchFails(child, stopped)
  <2>1. /\ UNCHANGED <<next_pid, children, handshakes, heartbeats, relaunched>>
        /\ alive' \subseteq Pids /\ refused' \subseteq Pids
    BY <1>7, <1>8
  <2> QED BY <1>2, <1>5, <1>8, <2>1 DEF TypeOK, DistinctIds
<1>9. HasRestartBudget(child) => RelaunchChild(child) \/ \E stopped \in BOOLEAN : RelaunchFails(child, stopped)
  BY DEF RestartChild
<1> QED BY <1>4, <1>6, <1>8, <1>9

\* StopAndForget removes the child that was stopped from the list.
LEMMA StopAndForgetFacts ==
  ASSUME TypeOK, ChildrenAreTracked, NEW pid, NEW stopped \in BOOLEAN, StopAndForget(pid, stopped)
  PROVE  /\ children' \in Seq(Identities) /\ DistinctIds(children')
         /\ handshakes' \in [Pids -> HandshakeStates]
         /\ heartbeats' \in [Pids -> 0..MaxHeartbeats]
         /\ alive' \subseteq Pids /\ refused' \subseteq Pids
         /\ UNCHANGED <<config, running, restarts, channel, next_pid, wire, open_channels, relaunched>>
         /\ pid \in PidsOf(children)
         /\ PidsOf(children') = IF stopped THEN PidsOf(children) \ {pid} ELSE PidsOf(children)
         /\ \A p \in Pids : p # pid => handshakes'[p] = handshakes[p]
         /\ ~stopped => UNCHANGED handshakes
<1>1. pid \in PidsOf(children) /\ StopChild(pid, stopped)
      /\ UNCHANGED <<config, running, restarts, channel, next_pid, wire, open_channels, relaunched>>
  BY DEF StopAndForget
<1>2. DistinctIds(children) /\ children \in Seq(Identities)
  BY FreshPid DEF TypeOK
<1>3. IndexOf(pid) \in DOMAIN children /\ children[IndexOf(pid)].process_id = pid /\ pid \in Pids
  BY <1>1, <1>2, IndexOfFacts DEF Identities
<1>4. alive' \subseteq Pids /\ refused' \subseteq Pids
  BY <1>1, <1>3 DEF StopChild, TypeOK
<1>5. CASE stopped
  <2>1. /\ children' = RemoveAt(children, IndexOf(pid))
        /\ handshakes' = [handshakes EXCEPT ![pid] = "Absent"]
        /\ heartbeats' = [heartbeats EXCEPT ![pid] = 0]
    BY <1>5 DEF StopAndForget
  <2>2. /\ children' \in Seq(Identities) /\ DistinctIds(children')
        /\ PidsOf(children') = PidsOf(children) \ {pid}
    BY <1>2, <1>3, <2>1, RemoveIds
  <2>3. handshakes' \in [Pids -> HandshakeStates] /\ heartbeats' \in [Pids -> 0..MaxHeartbeats]
    <3>1. /\ handshakes \in [Pids -> HandshakeStates] /\ heartbeats \in [Pids -> 0..MaxHeartbeats]
          /\ 0 \in 0..MaxHeartbeats
      BY BoundsAssumption DEF TypeOK
    <3> QED BY <2>1, <3>1 DEF HandshakeStates
  <2>4. \A p \in Pids : p # pid => handshakes'[p] = handshakes[p]
    BY <2>1 DEF TypeOK
  <2> QED BY <1>1, <1>4, <1>5, <2>2, <2>3, <2>4
<1>6. CASE ~stopped
  <2>1. UNCHANGED <<children, handshakes, heartbeats>>
    BY <1>6 DEF StopAndForget
  <2> QED BY <1>1, <1>2, <1>4, <1>6, <2>1 DEF TypeOK, DistinctIds
<1> QED BY <1>5, <1>6

\* A list without children has no processes.
LEMMA NoChildrenFacts ==
  ASSUME NoChildren
  PROVE  /\ children' \in Seq(Identities) /\ DistinctIds(children') /\ PidsOf(children') = {}
         /\ handshakes' \in [Pids -> HandshakeStates]
         /\ heartbeats' \in [Pids -> 0..MaxHeartbeats]
         /\ restarts' \in [Names -> Nat] /\ relaunched' \in [Names -> Nat]
         /\ relaunched' = [n \in Names |-> 0] /\ restarts' = [n \in Names |-> 0]
<1>1. children' = <<>>
  BY DEF NoChildren
<1>2. DistinctIds(children') /\ PidsOf(children') = {} /\ children' \in Seq(Identities)
  BY <1>1 DEF DistinctIds, PidsOf
<1> QED BY <1>2, BoundsAssumption DEF NoChildren, HandshakeStates

\* A step that leaves the records of the children alone keeps track of them.
LEMMA SameChildren ==
  ASSUME ChildrenAreTracked, UNCHANGED <<children, handshakes, next_pid>>
  PROVE  ChildrenAreTracked'
BY DEF ChildrenAreTracked, Tracked, PidsOf

\* One work item is done.
LEMMA NextItem ==
  ASSUME TypeOK, op.todo # <<>>, op.kind # "idle", NEW kept \in Seq(Identities),
         op' = [op EXCEPT !.todo = Tail(@), !.kept = kept]
  PROVE  /\ op' \in Operations("launch", Nodes) \cup Operations("rollback", Identities)
                      \cup Operations("tick", Pids) \cup Operations("stop", Pids) \cup {Idle}
         /\ op'.kind = op.kind /\ op'.todo = Tail(op.todo) /\ op'.kept = kept
<1>1. op = [kind |-> op.kind, todo |-> op.todo, kept |-> op.kept]
  BY OpFacts
<1>2. op' = [kind |-> op.kind, todo |-> Tail(op.todo), kept |-> kept]
  BY <1>1
<1>3. CASE op.kind = "launch"
  <2>1. Tail(op.todo) \in Seq(Nodes)
    BY <1>3, OpFacts, TailFacts
  <2> QED BY <1>2, <1>3, <2>1 DEF Operations
<1>4. CASE op.kind = "rollback"
  <2>1. Tail(op.todo) \in Seq(Identities)
    BY <1>4, OpFacts, TailFacts
  <2> QED BY <1>2, <1>4, <2>1 DEF Operations
<1>5. CASE op.kind \in {"tick", "stop"}
  <2>1. Tail(op.todo) \in Seq(Pids)
    BY <1>5, OpFacts, TailFacts
  <2> QED BY <1>2, <1>5, <2>1 DEF Operations
<1> QED BY <1>3, <1>4, <1>5, OpFacts

\* Every host call, step of an operation, report and crash keeps the invariant.
LEMMA TrackingStep == TrackingInvariant /\ [Next]_vars => TrackingInvariant'
<1> SUFFICES ASSUME TrackingInvariant, [Next]_vars PROVE TrackingInvariant'
  OBVIOUS
<1>0. TypeOK /\ OperationInvariant /\ ChildrenAreTracked /\ RollbackInvariant /\ NoChannelLeaks
  BY DEF TrackingInvariant
<1> USE <1>0
<1> DEFINE Ops == Operations("launch", Nodes) \cup Operations("rollback", Identities)
                    \cup Operations("tick", Pids) \cup Operations("stop", Pids) \cup {Idle}
<1>a. op \in Ops /\ Idle \in Ops
  BY DEF TypeOK
<1>b. /\ op = Idle <=> op.kind = "idle"
      /\ channel \in {"None", "Open"} /\ running \in BOOLEAN
  BY OpFacts DEF TypeOK
<1> HIDE DEF Ops
\* Steps that change neither the records of the children nor the operation.
<1>1. ASSUME UNCHANGED <<records, op, world, history, channel>>, spec' \in Specs,
             launcher' \in BOOLEAN, factory' \in BOOLEAN, running' \in BOOLEAN,
             UNCHANGED running \/ (op = Idle /\ running')
      PROVE  TrackingInvariant'
  <2>1. TypeOK'
    BY <1>1 DEF TypeOK, records, world, history, Operations, Idle
  <2>2. ChildrenAreTracked'
    BY <1>1, SameChildren DEF records, world
  <2>3. OperationInvariant' /\ RollbackInvariant'
    BY <1>1, IdleFacts DEF OperationInvariant, RollbackInvariant, history, world
  <2>4. NoChannelLeaks'
    BY <1>1 DEF NoChannelLeaks, history
  <2> QED BY <2>1, <2>2, <2>3, <2>4 DEF TrackingInvariant
<1>2. ASSUME NEW s \in Specs, Configure(s) PROVE TrackingInvariant'
  BY <1>1, <1>2 DEF Configure, TypeOK
<1>3. CASE SetProcessLauncher
  BY <1>1, <1>3 DEF SetProcessLauncher, TypeOK
<1>4. CASE SetTransportFactory
  BY <1>1, <1>4 DEF SetTransportFactory, TypeOK
<1>5. CASE StartSingle
  BY <1>1, <1>5 DEF StartSingle, TypeOK, config
\* Steps that begin, advance or end an operation without touching the records.
<1>6. ASSUME UNCHANGED <<config, records, channel, world, history>>, running' \in BOOLEAN,
             op' \in Ops, OperationInvariant', RollbackInvariant', op' = Idle => running'
      PROVE  TrackingInvariant'
  <2>1. TypeOK'
    BY <1>6 DEF TypeOK, config, records, world, history, Operations, Idle, Ops
  <2>2. ChildrenAreTracked'
    BY <1>6, SameChildren DEF records, world
  <2>3. NoChannelLeaks'
    BY <1>6 DEF NoChannelLeaks, history
  <2> QED BY <1>6, <2>1, <2>2, <2>3 DEF TrackingInvariant
\* Steps that end with an empty list of children.
<1>7. ASSUME NoChildren, UNCHANGED <<config, world, refused>>, running' \in BOOLEAN,
             channel' \in {"None", "Open"}, open_channels' = (IF channel' = "Open" THEN 1 ELSE 0),
             op' \in Ops, op'.kind \in {"launch", "idle"},
             op'.kind = "launch" => ~running' /\ op'.kept = <<>>,
             op' = Idle => channel' = "None"
      PROVE  TrackingInvariant'
  <2>1. TypeOK'
    <3>1. open_channels' \in Nat
      BY <1>7
    <3> QED BY <1>7, <3>1, NoChildrenFacts DEF TypeOK, config, world, Ops
  <2>2. ChildrenAreTracked'
    BY <1>7, NoChildrenFacts DEF ChildrenAreTracked, Tracked, DistinctIds
  <2>3. OperationInvariant' /\ RollbackInvariant'
    BY <1>7, NoChildrenFacts DEF OperationInvariant, RollbackInvariant
  <2>4. NoChannelLeaks'
    BY <1>7 DEF NoChannelLeaks
  <2> QED BY <2>1, <2>2, <2>3, <2>4 DEF TrackingInvariant
<1>8. CASE StartMulti
  <2>1. /\ NoChildren /\ op' = Doing("launch", spec.nodes) /\ ~running /\ op = Idle
        /\ UNCHANGED <<config, world, refused>> /\ running' = running
    BY <1>8 DEF StartMulti
  <2>2. spec.nodes \in Seq(Nodes)
    BY SpecsAssumption DEF TypeOK
  <2>3. op' \in Ops /\ op'.kind = "launch" /\ op'.kept = <<>> /\ op' # Idle
    BY <2>1, <2>2, IdleFacts DEF Doing, Ops, Operations
  <2>4. channel' \in {"None", "Open"} /\ open_channels' = (IF channel' = "Open" THEN 1 ELSE 0)
    BY <1>8, <2>1 DEF StartMulti, NoChannelLeaks
  <2> QED BY <1>b, <1>7, <2>1, <2>3, <2>4
\* Closing the channel.
<1>9. ASSUME CloseChannel
      PROVE  channel' = "None" /\ open_channels' = (IF channel' = "Open" THEN 1 ELSE 0)
  BY <1>9 DEF CloseChannel, NoChannelLeaks
<1>10. CASE StartWithoutLauncher
  BY <1>a, <1>b, <1>7, <1>9, <1>10, IdleFacts DEF StartWithoutLauncher
<1>11. CASE SkipPrimary
  <2>1. op.kind = "launch" /\ op.todo # <<>> /\ op' = [op EXCEPT !.todo = Tail(@)] /\ op.kept = <<>>
        /\ UNCHANGED <<config, running, records, channel, world, history>>
    BY <1>11 DEF SkipPrimary, OperationInvariant
  <2>2. op' = [op EXCEPT !.todo = Tail(@), !.kept = op.kept] /\ op.kept \in Seq(Identities)
    BY <2>1, OpFacts
  <2>3. op' \in Ops /\ op'.kind = "launch" /\ op'.kept = <<>>
    BY <2>1, <2>2, NextItem DEF Ops
  <2>4. OperationInvariant' /\ RollbackInvariant' /\ op' # Idle
    BY <2>1, <2>3, IdleFacts DEF OperationInvariant, RollbackInvariant, history
  <2> QED BY <1>b, <1>6, <2>1, <2>3, <2>4
<1>12. CASE LaunchChild
  <2> DEFINE node == Head(op.todo)
             new == Launched(node)
  <2>1. /\ op.kind = "launch" /\ op.todo # <<>> /\ next_pid \in Pids
        /\ op' = [op EXCEPT !.todo = Tail(@)] /\ op.kept = <<>> /\ ~running
        /\ children' = Append(children, new)
        /\ handshakes' = [handshakes EXCEPT ![next_pid] = "Spawned"]
        /\ heartbeats' = [heartbeats EXCEPT ![next_pid] = 0]
        /\ restarts' = [restarts EXCEPT ![node.name] = 0]
        /\ alive' = alive \cup {next_pid} /\ next_pid' = next_pid + 1
        /\ UNCHANGED <<config, running, channel, wire, history>>
    BY <1>12 DEF LaunchChild, OperationInvariant
  <2>2. op' = [op EXCEPT !.todo = Tail(@), !.kept = op.kept] /\ op.kept \in Seq(Identities)
    BY <2>1, OpFacts
  <2>3. op' \in Ops /\ op'.kind = "launch" /\ op'.kept = <<>>
    BY <2>1, <2>2, NextItem DEF Ops
  <2>4. new \in Identities /\ new.process_id = next_pid /\ node.name \in Names
    <3>1. node \in Nodes
      BY <2>1, OpFacts, TailFacts
    <3> HIDE DEF node
    <3> QED BY <2>1, <3>1 DEF Nodes, Identities, Launched
  <2> HIDE DEF new, node
  <2>5. /\ children' \in Seq(Identities) /\ DistinctIds(children')
        /\ PidsOf(children') = PidsOf(children) \cup {next_pid}
    <3>1. children \in Seq(Identities) /\ DistinctIds(children) /\ new.process_id \notin PidsOf(children)
      BY <2>4, FreshPid DEF TypeOK
    <3> QED BY <2>1, <2>4, <3>1, AppendIds
  <2>6. TypeOK'
    <3>1. next_pid \in 1..MaxPid /\ next_pid + 1 \in 1..(MaxPid + 1) /\ 0 \in 0..MaxHeartbeats
      BY <2>1, BoundsAssumption DEF Pids
    <3>2. handshakes' \in [Pids -> HandshakeStates] /\ heartbeats' \in [Pids -> 0..MaxHeartbeats]
      BY <2>1, <3>1 DEF TypeOK, HandshakeStates
    <3>3. restarts' \in [Names -> Nat] /\ alive' \subseteq Pids
      BY <2>1 DEF TypeOK
    <3> QED BY <2>1, <2>3, <2>5, <3>1, <3>2, <3>3 DEF TypeOK, config, history, Ops
  <2>7. ChildrenAreTracked'
    <3>1. ASSUME NEW p \in PidsOf(children) \cup {next_pid}
          PROVE  p < next_pid + 1 /\ handshakes'[p] # "Absent"
      <4>1. p \in Pids /\ next_pid \in Nat /\ Pids \subseteq Nat
        <5>1. \A c \in DOMAIN children : children[c] \in Identities
          BY DEF TypeOK
        <5> QED BY <2>1, <5>1, BoundsAssumption DEF PidsOf, Identities, Pids
      <4>2. handshakes \in [Pids -> HandshakeStates]
        BY DEF TypeOK
      <4> QED BY <2>1, <4>1, <4>2 DEF ChildrenAreTracked, Tracked
    <3> QED BY <2>1, <2>5, <3>1 DEF ChildrenAreTracked, Tracked, DistinctIds
  <2>8. OperationInvariant' /\ RollbackInvariant' /\ NoChannelLeaks'
    BY <2>1, <2>3, IdleFacts DEF OperationInvariant, RollbackInvariant, NoChannelLeaks, history
  <2> QED BY <2>6, <2>7, <2>8 DEF TrackingInvariant
<1>13. CASE LaunchFails
  <2>1. /\ op.kind = "launch" /\ op' = Doing("rollback", Reverse(children))
        /\ UNCHANGED <<config, running, records, channel, world, history>>
    BY <1>13 DEF LaunchFails
  <2>2. /\ Reverse(children) \in Seq(Identities) /\ DistinctIds(Reverse(children))
        /\ PidsOf(Reverse(children)) = PidsOf(children)
    BY FreshPid, ReverseIds DEF TypeOK
  <2>3. /\ op' \in Ops /\ op'.kind = "rollback" /\ op'.kept = <<>> /\ op'.todo = Reverse(children)
        /\ op' # Idle
    BY <2>1, <2>2, IdleFacts DEF Doing, Ops, Operations
  <2>4. RollbackInvariant'
    <3>1. PidsOf(<<>>) = {} /\ DistinctIds(<<>>)
      BY DEF PidsOf, DistinctIds
    <3> QED BY <2>1, <2>2, <2>3, <3>1 DEF RollbackInvariant, ChildrenAreTracked, Tracked, world
  <2>5. OperationInvariant'
    BY <2>1, <2>3 DEF OperationInvariant, history
  <2> QED BY <1>b, <1>6, <2>1, <2>3, <2>4, <2>5
<1>14. CASE StartSucceeds
  BY <1>a, <1>6, <1>14, IdleFacts DEF StartSucceeds, OperationInvariant, RollbackInvariant
<1>15. ASSUME NEW stopped \in BOOLEAN, RollbackChild(stopped) PROVE TrackingInvariant'
  <2> DEFINE child == Head(op.todo)
             kept == IF stopped THEN op.kept ELSE Append(op.kept, child)
  <2>1. /\ op.kind = "rollback" /\ op.todo # <<>> /\ StopChild(child.process_id, stopped)
        /\ UNCHANGED <<config, running, records, channel, next_pid, wire, open_channels, relaunched>>
    BY <1>15 DEF RollbackChild
  <2>2. /\ op.todo \in Seq(Identities) /\ op.kept \in Seq(Identities)
        /\ DistinctIds(op.todo) /\ DistinctIds(op.kept)
        /\ PidsOf(op.todo) \cap PidsOf(op.kept) = {}
        /\ \A pid \in PidsOf(op.todo) \cup PidsOf(op.kept) : pid < next_pid
    BY <2>1, OpFacts DEF RollbackInvariant
  <2>3. /\ child \in Identities /\ DistinctIds(Tail(op.todo))
        /\ PidsOf(op.todo) = {child.process_id} \cup PidsOf(Tail(op.todo))
        /\ child.process_id \notin PidsOf(Tail(op.todo))
    BY <2>1, <2>2, TailIds
  <2>4. /\ kept \in Seq(Identities) /\ DistinctIds(kept)
        /\ PidsOf(kept) \subseteq PidsOf(op.kept) \cup {child.process_id}
    BY <2>2, <2>3, AppendIds
  <2>5. op' = [op EXCEPT !.todo = Tail(@), !.kept = kept]
    BY <1>15 DEF RollbackChild
  <2> HIDE DEF child, kept
  <2>6. op' \in Ops /\ op'.kind = "rollback" /\ op'.todo = Tail(op.todo) /\ op'.kept = kept
    BY <2>1, <2>4, <2>5, NextItem DEF Ops
  <2>7. RollbackInvariant'
    <3>1. PidsOf(Tail(op.todo)) \cap PidsOf(kept) = {}
      BY <2>2, <2>3, <2>4
    <3>2. \A pid \in PidsOf(Tail(op.todo)) \cup PidsOf(kept) : pid < next_pid
      BY <2>2, <2>3, <2>4
    <3> QED BY <2>1, <2>3, <2>4, <2>6, <3>1, <3>2 DEF RollbackInvariant
  <2>8. OperationInvariant' /\ NoChannelLeaks'
    BY <2>1, <2>6, IdleFacts DEF OperationInvariant, NoChannelLeaks
  <2>9. ChildrenAreTracked'
    BY <2>1, SameChildren DEF records
  <2>10. TypeOK'
    <3>1. alive' \subseteq Pids /\ refused' \subseteq Pids
      BY <2>1, <2>3 DEF StopChild, TypeOK, Identities
    <3> QED BY <2>1, <2>6, <3>1 DEF TypeOK, config, records, Ops
  <2> QED BY <2>7, <2>8, <2>9, <2>10 DEF TrackingInvariant
<1>16. CASE RollbackEnds
  <2>1. /\ op.kind = "rollback" /\ children' = Reverse(op.kept) /\ op' = Idle
        /\ handshakes' = [p \in Pids |-> IF p \in PidsOf(op.kept) THEN "Spawned" ELSE "Absent"]
        /\ heartbeats' = [p \in Pids |-> 0] /\ restarts' = [n \in Names |-> 0]
        /\ CloseChannel /\ UNCHANGED <<config, running, world, refused, relaunched>>
    BY <1>16 DEF RollbackEnds
  <2>2. /\ op.kept \in Seq(Identities) /\ DistinctIds(op.kept)
        /\ \A pid \in PidsOf(op.kept) : pid < next_pid /\ pid \in Pids
    <3>1. op.kept \in Seq(Identities)
      BY OpFacts
    <3>2. \A i \in DOMAIN op.kept : op.kept[i] \in Identities
      BY <3>1
    <3> QED BY <2>1, <3>1, <3>2 DEF RollbackInvariant, PidsOf, Identities
  <2>3. /\ children' \in Seq(Identities) /\ DistinctIds(children')
        /\ PidsOf(children') = PidsOf(op.kept)
    BY <2>1, <2>2, ReverseIds
  <2>4. ChildrenAreTracked'
    BY <2>1, <2>2, <2>3 DEF ChildrenAreTracked, Tracked, DistinctIds, world
  <2>5. NoChannelLeaks' /\ channel' = "None" /\ open_channels' \in Nat
    BY <1>9, <2>1 DEF NoChannelLeaks
  <2>6. OperationInvariant' /\ RollbackInvariant'
    BY <2>1, IdleFacts DEF OperationInvariant, RollbackInvariant
  <2>7. TypeOK'
    <3>1. handshakes' \in [Pids -> HandshakeStates] /\ heartbeats' \in [Pids -> 0..MaxHeartbeats]
      BY <2>1, BoundsAssumption DEF HandshakeStates
    <3>2. restarts' \in [Names -> Nat]
      BY <2>1
    <3> QED BY <2>1, <2>3, <2>5, <3>1, <3>2 DEF TypeOK, config, world
  <2> QED BY <2>4, <2>5, <2>6, <2>7 DEF TrackingInvariant
\* RestartChild, inside and outside a Tick.
<1>17. ASSUME NEW pid, RestartChild(pid), op' \in Ops, op'.kind = op.kind, op.kind \in {"idle", "tick"}
       PROVE  TrackingInvariant'
  <2>1. TypeOK'
    BY <1>17, RestartFacts DEF TypeOK, config, Ops
  <2>2. \A p \in PidsOf(children) : p \in Pids /\ p < next_pid /\ handshakes[p] # "Absent"
    <3>1. \A c \in DOMAIN children : children[c] \in Identities
      BY DEF TypeOK
    <3> QED BY <3>1 DEF PidsOf, Identities, ChildrenAreTracked, Tracked
  <2>3. ChildrenAreTracked'
    <3>1. CASE UNCHANGED <<children, handshakes, next_pid>>
      BY <3>1, SameChildren
    <3>2. CASE /\ next_pid' = next_pid + 1
               /\ PidsOf(children') = (PidsOf(children) \ {pid}) \cup {next_pid}
               /\ handshakes' = [handshakes EXCEPT ![next_pid] = "Spawned"]
      <4>1. next_pid \in Nat /\ \A p \in Pids : p \in Nat
        BY BoundsAssumption DEF TypeOK, Pids
      <4>2. ASSUME NEW p \in PidsOf(children') PROVE p < next_pid' /\ handshakes'[p] # "Absent"
        <5>0. p \in Pids
          <6>1. children' \in Seq(Identities)
            BY <1>17, RestartFacts
          <6>2. \A i \in DOMAIN children' : children'[i] \in Identities
            BY <6>1
          <6> QED BY <4>2, <6>2 DEF PidsOf, Identities
        <5>1. handshakes \in [Pids -> HandshakeStates] /\ p \in Pids
          BY <5>0 DEF TypeOK
        <5>2. CASE p = next_pid
          BY <3>2, <4>1, <5>1, <5>2
        <5>3. CASE p # next_pid
          BY <2>2, <3>2, <4>1, <4>2, <5>1, <5>3
        <5> QED BY <5>2, <5>3
      <4> QED BY <1>17, <4>2, RestartFacts DEF ChildrenAreTracked, Tracked, DistinctIds
    <3> QED BY <1>17, <3>1, <3>2, RestartFacts
  <2>4. OperationInvariant' /\ RollbackInvariant'
    BY <1>17, RestartFacts DEF OperationInvariant, RollbackInvariant
  <2>5. NoChannelLeaks'
    <3>1. UNCHANGED <<running, channel, open_channels>>
      BY <1>17, RestartFacts
    <3>2. op' = Idle /\ ~running' => op = Idle /\ ~running
      BY <1>b, <1>17, <3>1, IdleFacts
    <3> QED BY <3>1, <3>2 DEF NoChannelLeaks
  <2> QED BY <2>1, <2>3, <2>4, <2>5 DEF TrackingInvariant
<1>18. ASSUME NEW pid \in Pids, HostRestartsChild(pid) PROVE TrackingInvariant'
  BY <1>a, <1>17, <1>18, IdleFacts DEF HostRestartsChild
<1>19. CASE Tick
  <2>1. /\ op' = Doing("tick", ProcessIds) /\ running
        /\ UNCHANGED <<config, running, records, channel, world, history>>
    BY <1>19 DEF Tick
  <2>2. ProcessIds \in Seq(Pids)
    BY ProcessIdsFacts DEF TypeOK
  <2>3. op' \in Ops /\ op'.kind = "tick"
    BY <2>1, <2>2 DEF Doing, Ops, Operations
  <2> QED BY <1>b, <1>6, <2>1, <2>3 DEF OperationInvariant, RollbackInvariant
<1>20. ASSUME NEW answer \in SupervisorAnswers, TickChild(answer) PROVE TrackingInvariant'
  <2>1. op.kind = "tick" /\ op.todo # <<>> /\ op' = [op EXCEPT !.todo = Tail(@)] /\ running
    BY <1>20 DEF TickChild, OperationInvariant
  <2>2. op' = [op EXCEPT !.todo = Tail(@), !.kept = op.kept] /\ op.kept \in Seq(Identities)
    BY <2>1, OpFacts
  <2>3. op' \in Ops /\ op'.kind = "tick"
    BY <2>1, <2>2, NextItem DEF Ops
  <2>4. \/ RestartChild(Head(op.todo))
        \/ UNCHANGED <<config, running, records, channel, world, history>>
    BY <1>20 DEF TickChild
  <2>5. CASE UNCHANGED <<config, running, records, channel, world, history>>
    BY <1>b, <1>6, <2>1, <2>3, <2>5 DEF OperationInvariant, RollbackInvariant
  <2> QED BY <1>17, <2>1, <2>3, <2>4, <2>5
<1>21. CASE TickEnds
  BY <1>a, <1>b, <1>6, <1>21, IdleFacts DEF TickEnds, OperationInvariant, RollbackInvariant
\* StopAndForget, inside and outside a Stop.
<1>22. ASSUME NEW pid, NEW stopped \in BOOLEAN, StopAndForget(pid, stopped),
              op' \in Ops, op'.kind = op.kind, op.kind \in {"idle", "stop"}
       PROVE  TrackingInvariant'
  <2>1. TypeOK'
    BY <1>22, StopAndForgetFacts DEF TypeOK, config, Ops
  <2>2. ChildrenAreTracked'
    <3>1. \A p \in PidsOf(children) : p \in Pids
      <4>1. \A c \in DOMAIN children : children[c] \in Identities
        BY DEF TypeOK
      <4> QED BY <4>1 DEF PidsOf, Identities
    <3>2. ASSUME NEW p \in PidsOf(children') PROVE p < next_pid' /\ handshakes'[p] # "Absent"
      <4>1. p \in PidsOf(children) /\ next_pid' = next_pid /\ (stopped => p # pid)
        BY <1>22, <3>2, StopAndForgetFacts
      <4>2. p < next_pid /\ handshakes[p] # "Absent" /\ p \in Pids
        BY <3>1, <4>1 DEF ChildrenAreTracked, Tracked
      <4> QED BY <1>22, <4>1, <4>2, StopAndForgetFacts
    <3> QED BY <1>22, <3>2, StopAndForgetFacts DEF ChildrenAreTracked, Tracked, DistinctIds
  <2>3. OperationInvariant' /\ RollbackInvariant'
    BY <1>22, StopAndForgetFacts DEF OperationInvariant, RollbackInvariant
  <2>4. NoChannelLeaks'
    <3>1. UNCHANGED <<running, channel, open_channels>>
      BY <1>22, StopAndForgetFacts
    <3>2. op' = Idle /\ ~running' => op = Idle /\ ~running
      BY <1>b, <1>22, <3>1, IdleFacts
    <3> QED BY <3>1, <3>2 DEF NoChannelLeaks
  <2> QED BY <2>1, <2>2, <2>3, <2>4 DEF TrackingInvariant
<1>23. ASSUME NEW pid \in Pids, NEW stopped \in BOOLEAN, GracefulStopChild(pid, stopped)
       PROVE  TrackingInvariant'
  BY <1>a, <1>22, <1>23, IdleFacts DEF GracefulStopChild
<1>24. CASE Stop
  <2>1. /\ op' = Doing("stop", ProcessIds)
        /\ UNCHANGED <<config, running, records, channel, world, history>>
    BY <1>24 DEF Stop
  <2>2. ProcessIds \in Seq(Pids)
    BY ProcessIdsFacts DEF TypeOK
  <2>3. op' \in Ops /\ op'.kind = "stop" /\ op' # Idle
    BY <2>1, <2>2, IdleFacts DEF Doing, Ops, Operations
  <2> QED BY <1>b, <1>6, <2>1, <2>3 DEF OperationInvariant, RollbackInvariant
<1>25. ASSUME NEW stopped \in BOOLEAN, StopNextChild(stopped) PROVE TrackingInvariant'
  <2>1. /\ op.kind = "stop" /\ op.todo # <<>> /\ op' = [op EXCEPT !.todo = Tail(@)]
        /\ StopAndForget(Head(op.todo), stopped)
    BY <1>25 DEF StopNextChild
  <2>2. op' = [op EXCEPT !.todo = Tail(@), !.kept = op.kept] /\ op.kept \in Seq(Identities)
    BY <2>1, OpFacts
  <2>3. op' \in Ops /\ op'.kind = "stop"
    BY <2>1, <2>2, NextItem DEF Ops
  <2> QED BY <1>22, <2>1, <2>3
<1>26. CASE StopEnds
  BY <1>a, <1>7, <1>9, <1>26, IdleFacts DEF StopEnds
\* Reports about children, and the children themselves.
<1>27. ASSUME NEW pid \in Pids, NEW state \in ReportedStates, SetChildHandshakeState(pid, state)
       PROVE  TrackingInvariant'
  <2>1. /\ handshakes' = [handshakes EXCEPT ![pid] = state]
        /\ UNCHANGED <<config, running, children, heartbeats, restarts, channel, op, world, history>>
    BY <1>27 DEF SetChildHandshakeState
  <2>2. state \in HandshakeStates /\ state # "Absent"
    BY PolicyAssumption
  <2>3. handshakes' \in [Pids -> HandshakeStates]
    BY <2>1, <2>2 DEF TypeOK
  <2>4. TypeOK'
    BY <2>1, <2>3 DEF TypeOK, config, world, history
  <2>5. ChildrenAreTracked'
    BY <2>1, <2>2 DEF ChildrenAreTracked, Tracked, TypeOK, world, PidsOf
  <2>6. OperationInvariant' /\ RollbackInvariant' /\ NoChannelLeaks'
    BY <2>1 DEF OperationInvariant, RollbackInvariant, NoChannelLeaks, history, world
  <2> QED BY <2>4, <2>5, <2>6 DEF TrackingInvariant
<1>28. ASSUME NEW pid \in Pids, RecordHeartbeat(pid) PROVE TrackingInvariant'
  <2>1. /\ heartbeats[pid] < MaxHeartbeats /\ heartbeats' = [heartbeats EXCEPT ![pid] = @ + 1]
        /\ wire' = wire \ {pid}
        /\ UNCHANGED <<config, running, children, handshakes, restarts, channel, op, alive, next_pid,
                       history>>
    BY <1>28 DEF RecordHeartbeat
  <2>2. heartbeats' \in [Pids -> 0..MaxHeartbeats]
    <3>1. heartbeats \in [Pids -> 0..MaxHeartbeats]
      BY DEF TypeOK
    <3>2. heartbeats[pid] + 1 \in 0..MaxHeartbeats
      BY <2>1, <3>1, BoundsAssumption
    <3> QED BY <2>1, <3>1, <3>2
  <2>3. TypeOK'
    BY <2>1, <2>2 DEF TypeOK, config, history
  <2>4. ChildrenAreTracked'
    BY <2>1, SameChildren
  <2>5. OperationInvariant' /\ RollbackInvariant' /\ NoChannelLeaks'
    BY <2>1 DEF OperationInvariant, RollbackInvariant, NoChannelLeaks, history
  <2> QED BY <2>3, <2>4, <2>5 DEF TrackingInvariant
<1>29. ASSUME UNCHANGED <<config, running, records, channel, op, next_pid, history>>,
              alive' \subseteq Pids, wire' \subseteq Pids
       PROVE  TrackingInvariant'
  <2>1. TypeOK'
    BY <1>29 DEF TypeOK, config, records, history
  <2>2. ChildrenAreTracked'
    BY <1>29, SameChildren DEF records
  <2>3. OperationInvariant' /\ RollbackInvariant' /\ NoChannelLeaks'
    BY <1>29 DEF OperationInvariant, RollbackInvariant, NoChannelLeaks, history
  <2> QED BY <2>1, <2>2, <2>3 DEF TrackingInvariant
<1>30. ASSUME NEW pid \in Pids, SendHeartbeat(pid) PROVE TrackingInvariant'
  BY <1>29, <1>30 DEF SendHeartbeat, TypeOK
<1>31. ASSUME NEW pid \in Pids, Crash(pid) PROVE TrackingInvariant'
  BY <1>29, <1>31 DEF Crash, TypeOK
<1>32. CASE UNCHANGED vars
  BY <1>29, <1>32 DEF vars, world, TypeOK
<1> HIDE <1>0
<1> QED
  BY <1>2, <1>3, <1>4, <1>5, <1>8, <1>10, <1>11, <1>12, <1>13, <1>14, <1>15, <1>16, <1>18, <1>19,
     <1>20, <1>21, <1>23, <1>24, <1>25, <1>26, <1>27, <1>28, <1>30, <1>31, <1>32
     DEF Next, RuntimeStep

\* The invariant holds in every reachable state.
LEMMA TrackingHolds == Spec => []TrackingInvariant
BY TrackingInit, TrackingStep, PTL DEF Spec

\* The members of the runtime keep their types, whatever the launcher answers.
THEOREM MultiprocessTypeCorrect == Spec => []TypeOK
<1>1. TrackingInvariant => TypeOK
  BY DEF TrackingInvariant
<1> QED BY <1>1, TrackingHolds, PTL

\* Every recorded child has its own process id and a handshake entry, for every
\* topology and however launches, restarts, rollbacks and stops interleave with it.
THEOREM ChildrenAreAlwaysTracked == Spec => []ChildrenAreTracked
<1>1. TrackingInvariant => ChildrenAreTracked
  BY DEF TrackingInvariant
<1> QED BY <1>1, TrackingHolds, PTL

\* The runtime never holds more than one control channel, and none when it is idle
\* and not running.
THEOREM ChannelsNeverLeak == Spec => []NoChannelLeaks
<1>1. TrackingInvariant => NoChannelLeaks
  BY DEF TrackingInvariant
<1> QED BY <1>1, TrackingHolds, PTL

-----------------------------------------------------------------------------
(***************************************************************************)
(* The restart budget.                                                     *)
(***************************************************************************)
NoRestarts(f) == f = [n \in Names |-> 0]

\* A restart is allowed by an entry of the topology in force that carries the name.
LEMMA BudgetFacts ==
  ASSUME TypeOK, NEW child \in Identities, HasRestartBudget(child)
  PROVE  \E b \in Budget(child.name) : b \in Nat /\ restarts[child.name] < b
<1>1. PICK node \in FindProcessSpec(child) :
        node.auto_restart /\ restarts[node.name] < node.max_restart_attempts
  BY DEF HasRestartBudget
<1>2. PICK i \in DOMAIN spec.nodes : node = spec.nodes[i] /\ Matches(spec.nodes[i], child)
  BY DEF FindProcessSpec
<1>3. spec \in Specs /\ spec.nodes \in Seq(Nodes)
  BY SpecsAssumption DEF TypeOK
<1>4. node \in Nodes
  BY <1>2, <1>3
<1>5. node.name = child.name /\ node.max_restart_attempts \in Nat
  BY <1>2, <1>4 DEF Matches, Nodes
<1>6. node \in UNION {ToSet(s.nodes) : s \in Specs}
  BY <1>2, <1>3 DEF ToSet
<1>7. node.max_restart_attempts \in Budget(child.name)
  BY <1>1, <1>5, <1>6 DEF Budget
<1> QED BY <1>1, <1>5, <1>7

\* RestartChild counts the attempt whether it succeeds or not.
LEMMA RestartSpendsBudget ==
  ASSUME TypeOK, ChildrenAreTracked, RestartBudgetRespected, NEW pid, RestartChild(pid)
  PROVE  RestartBudgetRespected'
<1> DEFINE child == children[IndexOf(pid)]
<1>1. pid \in PidsOf(children) /\ DistinctIds(children) /\ children \in Seq(Identities)
  BY FreshPid DEF TypeOK, RestartChild
<1>2. child \in Identities /\ child.name \in Names
  BY <1>1, IndexOfFacts DEF Identities
<1>3. CASE ~HasRestartBudget(child)
  <2>1. UNCHANGED <<restarts, relaunched>>
    BY <1>3 DEF RestartChild, records, history
  <2> QED BY <2>1 DEF RestartBudgetRespected
<1>4. CASE HasRestartBudget(child)
  <2>1. restarts' = [restarts EXCEPT ![child.name] = @ + 1]
    BY <1>4 DEF RestartChild, ConsumeRestartBudget
  <2>2. relaunched' = [relaunched EXCEPT ![child.name] = @ + 1] \/ relaunched' = relaunched
    BY <1>4 DEF RestartChild, RelaunchChild, RelaunchFails
  <2>3. PICK b \in Budget(child.name) : b \in Nat /\ restarts[child.name] < b
    BY <1>2, <1>4, BudgetFacts
  <2>4. restarts \in [Names -> Nat] /\ relaunched \in [Names -> Nat]
    BY DEF TypeOK
  <2> HIDE DEF child
  <2>5. ASSUME NEW name \in Names
        PROVE  /\ relaunched'[name] <= restarts'[name]
               /\ restarts'[name] > 0 => \E c \in Budget(name) : restarts'[name] <= c
    <3>1. /\ relaunched[name] <= restarts[name]
          /\ restarts[name] > 0 => \E c \in Budget(name) : restarts[name] <= c
      BY DEF RestartBudgetRespected
    <3>2. CASE name = child.name
      <4>1. restarts'[name] = restarts[name] + 1 /\ restarts[name] \in Nat /\ relaunched[name] \in Nat
        BY <2>1, <2>4, <3>2
      <4>2. relaunched'[name] \in {relaunched[name], relaunched[name] + 1}
        BY <2>2, <2>4, <3>2
      <4>3. restarts[name] + 1 <= b
        BY <2>3, <3>2, <4>1
      <4> QED BY <2>3, <3>1, <3>2, <4>1, <4>2, <4>3
    <3>3. CASE name # child.name
      BY <2>1, <2>2, <2>4, <3>1, <3>3
    <3> QED BY <3>2, <3>3
  <2>6. \A name \in Names : Budget(name)' = Budget(name)
    BY DEF Budget
  <2> QED BY <2>5, <2>6 DEF RestartBudgetRespected
<1> QED BY <1>3, <1>4

\* Counters that start again from zero respect every budget.
LEMMA ZeroRespectsBudget ==
  ASSUME restarts \in [Names -> Nat], NoRestarts(restarts)', NoRestarts(relaunched)'
  PROVE  RestartBudgetRespected'
BY DEF NoRestarts, RestartBudgetRespected

\* Only a restart counts against a budget, after it was compared with it.
LEMMA BudgetStep ==
  TrackingInvariant /\ RestartBudgetRespected /\ [Next]_vars => RestartBudgetRespected'
<1> SUFFICES ASSUME TrackingInvariant, RestartBudgetRespected, [Next]_vars
             PROVE  RestartBudgetRespected'
  OBVIOUS
<1> USE DEF config, records, world, history
<1>1. /\ TypeOK /\ ChildrenAreTracked
      /\ restarts \in [Names -> Nat] /\ relaunched \in [Names -> Nat]
      /\ op.kind \in {"launch", "rollback"} => NoRestarts(relaunched)
  BY DEF TrackingInvariant, TypeOK, OperationInvariant, NoRestarts
<1>2. ASSUME UNCHANGED <<restarts, relaunched>> PROVE RestartBudgetRespected'
  BY <1>2 DEF RestartBudgetRespected
<1>3. ASSUME NoChildren PROVE RestartBudgetRespected'
  BY <1>1, <1>3, ZeroRespectsBudget DEF NoChildren, NoRestarts
<1>4. CASE LaunchChild
  <2>1. /\ NoRestarts(relaunched) /\ UNCHANGED relaunched /\ op.todo \in Seq(Nodes) /\ op.todo # <<>>
        /\ restarts' = [restarts EXCEPT ![Head(op.todo).name] = 0]
    BY <1>1, <1>4, OpFacts DEF LaunchChild
  <2>2. Head(op.todo).name \in Names
    <3>1. Head(op.todo) \in Nodes
      BY <2>1, TailFacts
    <3> QED BY <3>1 DEF Nodes
  <2>3. \A name \in Names : restarts'[name] = 0 \/ restarts'[name] = restarts[name]
    BY <1>1, <2>1
  <2>4. \A name \in Names : relaunched'[name] = 0 /\ restarts'[name] \in Nat
    BY <1>1, <2>1, <2>3 DEF NoRestarts
  <2> QED BY <2>3, <2>4 DEF RestartBudgetRespected
<1>5. CASE RollbackEnds
  BY <1>1, <1>5, ZeroRespectsBudget DEF RollbackEnds, NoRestarts
<1>6. ASSUME NEW pid \in Pids, HostRestartsChild(pid) PROVE RestartBudgetRespected'
  BY <1>1, <1>6, RestartSpendsBudget DEF HostRestartsChild
<1>7. ASSUME NEW answer \in SupervisorAnswers, TickChild(answer) PROVE RestartBudgetRespected'
  <2>1. RestartChild(Head(op.todo)) \/ UNCHANGED <<restarts, relaunched>>
    BY <1>7 DEF TickChild
  <2> QED BY <1>1, <1>2, <2>1, RestartSpendsBudget
<1>8. ASSUME NEW stopped \in BOOLEAN, NEW pid, StopAndForget(pid, stopped) PROVE RestartBudgetRespected'
  BY <1>2, <1>8 DEF StopAndForget
<1>9. CASE UNCHANGED vars
  BY <1>2, <1>9 DEF vars
<1>10. CASE StartMulti \/ StartWithoutLauncher \/ StopEnds
  BY <1>3, <1>10 DEF StartMulti, StartWithoutLauncher, StopEnds
<1>11. CASE \/ \E s \in Specs : Configure(s)
            \/ SetProcessLauncher \/ SetTransportFactory \/ StartSingle
            \/ SkipPrimary \/ LaunchFails \/ StartSucceeds \/ Tick \/ TickEnds \/ Stop
  BY <1>2, <1>11 DEF Configure, SetProcessLauncher, SetTransportFactory, StartSingle, SkipPrimary,
                     LaunchFails, StartSucceeds, Tick, TickEnds, Stop
<1>12. ASSUME NEW stopped \in BOOLEAN, RollbackChild(stopped) PROVE RestartBudgetRespected'
  BY <1>2, <1>12 DEF RollbackChild
<1>13. ASSUME NEW stopped \in BOOLEAN, StopNextChild(stopped) PROVE RestartBudgetRespected'
  BY <1>8, <1>13 DEF StopNextChild
<1>14. ASSUME NEW pid \in Pids, NEW stopped \in BOOLEAN, GracefulStopChild(pid, stopped)
       PROVE  RestartBudgetRespected'
  BY <1>8, <1>14 DEF GracefulStopChild
<1>15. ASSUME NEW pid \in Pids,
              \/ \E state \in ReportedStates : SetChildHandshakeState(pid, state)
              \/ RecordHeartbeat(pid) \/ SendHeartbeat(pid) \/ Crash(pid)
       PROVE  RestartBudgetRespected'
  BY <1>2, <1>15 DEF SetChildHandshakeState, RecordHeartbeat, SendHeartbeat, Crash
<1> QED
  BY <1>4, <1>5, <1>6, <1>7, <1>9, <1>10, <1>11, <1>12, <1>13, <1>14, <1>15 DEF Next, RuntimeStep

\* Between two Starts no process name is relaunched more often than some topology
\* entry of that name allows, for every budget and every sequence of host calls,
\* ticks and launcher failures; a failed attempt is counted too.
THEOREM RestartBudgetAlwaysRespected == Spec => []RestartBudgetRespected
<1>1. Init => RestartBudgetRespected
  BY DEF Init, RestartBudgetRespected
<1> QED BY <1>1, BudgetStep, TrackingHolds, PTL DEF Spec

-----------------------------------------------------------------------------
(***************************************************************************)
(* No process is forgotten.                                                *)
(***************************************************************************)
\* The first item is taken off a work list.
LEMMA TailItems ==
  ASSUME NEW S, NEW s \in Seq(S), s # <<>>
  PROVE  Items(s) = {Head(s)} \cup Items(Tail(s))
<1> DEFINE r == Tail(s)
           n == Len(s)
<1>1. /\ n \in Nat \ {0} /\ Head(s) = s[1]
      /\ DOMAIN s = 1..n /\ DOMAIN r = 1..(n - 1)
      /\ \A i \in 1..(n - 1) : r[i] = s[i + 1]
  BY TailFacts
<1> HIDE DEF r, n
<1>2. ASSUME NEW i \in 1..n PROVE s[i] \in {Head(s)} \cup Items(r)
  <2>1. CASE i = 1
    BY <1>1, <2>1
  <2>2. CASE i # 1
    <3>1. i - 1 \in 1..(n - 1) /\ (i - 1) + 1 = i
      BY <1>1, <2>2
    <3> QED BY <1>1, <3>1 DEF Items
  <2> QED BY <2>1, <2>2
<1>3. ASSUME NEW i \in 1..(n - 1) PROVE r[i] \in Items(s)
  <2>1. i + 1 \in 1..n
    BY <1>1
  <2> QED BY <1>1, <2>1 DEF Items
<1>4. Head(s) \in Items(s)
  BY <1>1 DEF Items
<1>5. Items(s) \subseteq {Head(s)} \cup Items(r) /\ Items(r) \subseteq Items(s)
  BY <1>1, <1>2, <1>3 DEF Items
<1> QED BY <1>4, <1>5 DEF r

\* RestartChild replaces the old process by a recorded one, or records nothing new.
LEMMA RestartAlive ==
  ASSUME TypeOK, ChildrenAreTracked, NEW pid, RestartChild(pid)
  PROVE  \/ PidsOf(children') = PidsOf(children) /\ alive' \subseteq alive /\ refused \subseteq refused'
         \/ /\ alive' = (alive \ {pid}) \cup {next_pid} /\ refused' = refused
            /\ PidsOf(children') = (PidsOf(children) \ {pid}) \cup {next_pid}
<1> DEFINE child == children[IndexOf(pid)]
<1>1. pid \in PidsOf(children) /\ DistinctIds(children) /\ children \in Seq(Identities)
  BY FreshPid DEF TypeOK, RestartChild
<1>2. child.process_id = pid
  BY <1>1, IndexOfFacts
<1>3. CASE ~HasRestartBudget(child)
  BY <1>3 DEF RestartChild, records, world, history
<1>4. CASE RelaunchChild(child)
  <2>1. /\ alive' = (alive \ {pid}) \cup {next_pid} /\ refused' = refused /\ next_pid' = next_pid + 1
        /\ next_pid \in Nat
    BY <1>2, <1>4, BoundsAssumption DEF RelaunchChild, TypeOK
  <2>2. next_pid' # next_pid
    BY <2>1
  <2> QED BY <2>1, <2>2, RestartFacts
<1>5. ASSUME NEW stopped \in BOOLEAN, RelaunchFails(child, stopped)
      PROVE  children' = children /\ alive' \subseteq alive /\ refused \subseteq refused'
  BY <1>5 DEF RelaunchFails, StopChild
<1> QED BY <1>3, <1>4, <1>5 DEF RestartChild

ForgettingInvariant == NoProcessForgotten /\ StoppingInvariant

\* The children are not recorded, or stopped, or started, by the step.
LEMMA SameForgetting ==
  ASSUME ForgettingInvariant, UNCHANGED <<children, running, op>>,
         alive' \subseteq alive, refused \subseteq refused'
  PROVE  ForgettingInvariant'
BY DEF ForgettingInvariant, NoProcessForgotten, StoppingInvariant, Tracked, PidsOf, Items

\* Every step leaves each live process recorded, being launched, or refused by the launcher.
LEMMA ForgettingStep ==
  ASSUME RestartWhenStopped = FALSE
  PROVE  TrackingInvariant /\ ForgettingInvariant /\ [Next]_vars => ForgettingInvariant'
<1> SUFFICES ASSUME TrackingInvariant, ForgettingInvariant, [Next]_vars
             PROVE  ForgettingInvariant'
  OBVIOUS
<1> USE DEF config, records, world, history
<1>0. TypeOK /\ ChildrenAreTracked /\ OperationInvariant
  BY DEF TrackingInvariant
<1>1. /\ alive \subseteq PidsOf(children) \cup refused
      /\ op = Idle /\ ~running => PidsOf(children) \subseteq refused
      /\ op.kind = "rollback" => alive \subseteq PidsOf(op.todo) \cup refused /\ PidsOf(op.kept) \subseteq refused
      /\ op.kind = "stop" => alive \subseteq Items(op.todo) \cup refused
  BY DEF ForgettingInvariant, NoProcessForgotten, StoppingInvariant, Tracked
<1>2. op.kind = "idle" <=> op = Idle
  BY <1>0, OpFacts
<1>3. ASSUME alive' \subseteq PidsOf(children') \cup refused',
             op'.kind \notin {"idle", "rollback", "stop"} \/ (op' = Idle /\ running')
      PROVE  ForgettingInvariant'
  BY <1>3, IdleFacts DEF ForgettingInvariant, NoProcessForgotten, StoppingInvariant, Tracked, PidsOf
<1>4. ASSUME alive' \subseteq refused', PidsOf(children') \subseteq refused', op' = Idle
      PROVE  ForgettingInvariant'
  BY <1>4, IdleFacts DEF ForgettingInvariant, NoProcessForgotten, StoppingInvariant, Tracked, PidsOf
<1>5. ASSUME NoChildren PROVE PidsOf(children') = {}
  BY <1>5 DEF NoChildren, PidsOf
<1>6. CASE StartMulti
  <2>1. op' = Doing("launch", spec.nodes) /\ NoChildren /\ UNCHANGED <<alive, refused>> /\ op = Idle /\ ~running
    BY <1>6 DEF StartMulti
  <2>2. op'.kind = "launch"
    BY <2>1 DEF Doing
  <2> QED BY <1>1, <1>3, <1>5, <2>1, <2>2
<1>7. CASE StartWithoutLauncher
  BY <1>1, <1>4, <1>5, <1>7 DEF StartWithoutLauncher
<1>8. CASE StartSingle \/ StartSucceeds
  BY <1>1, <1>3, <1>8 DEF StartSingle, StartSucceeds, PidsOf
<1>9. CASE SkipPrimary
  <2>1. op' = [op EXCEPT !.todo = Tail(@)] /\ op.kind = "launch" /\ UNCHANGED <<children, alive, refused>>
    BY <1>9 DEF SkipPrimary
  <2>2. op'.kind = "launch"
    BY <1>0, <2>1, OpFacts
  <2> QED BY <1>1, <1>3, <2>1, <2>2 DEF PidsOf
<1>10. CASE LaunchChild
  <2>1. /\ op' = [op EXCEPT !.todo = Tail(@)] /\ op.kind = "launch" /\ UNCHANGED refused
        /\ alive' = alive \cup {next_pid} /\ next_pid \in Pids
        /\ children' = Append(children, Launched(Head(op.todo))) /\ op.todo # <<>> /\ op.todo \in Seq(Nodes)
    BY <1>0, <1>10, OpFacts DEF LaunchChild
  <2>2. op'.kind = "launch"
    BY <1>0, <2>1, OpFacts
  <2>3. Head(op.todo) \in Nodes
    BY <2>1, TailFacts
  <2>4. Launched(Head(op.todo)) \in Identities /\ Launched(Head(op.todo)).process_id = next_pid
    BY <2>1, <2>3 DEF Launched, Identities, Nodes
  <2>5. /\ children \in Seq(Identities) /\ DistinctIds(children)
        /\ Launched(Head(op.todo)).process_id \notin PidsOf(children)
    BY <1>0, <2>4, FreshPid DEF TypeOK
  <2>6. PidsOf(children') = PidsOf(children) \cup {next_pid}
    BY <2>1, <2>4, <2>5, AppendIds
  <2> QED BY <1>1, <1>3, <2>1, <2>2, <2>6
<1>11. CASE LaunchFails
  <2>1. op' = Doing("rollback", Reverse(children)) /\ UNCHANGED <<children, alive, refused>>
    BY <1>11 DEF LaunchFails
  <2>2. PidsOf(Reverse(children)) = PidsOf(children)
    BY <1>0, ReverseIds DEF TypeOK
  <2>3. op'.kind = "rollback" /\ op'.todo = Reverse(children) /\ PidsOf(op'.kept) = {} /\ op' # Idle
    BY <2>1 DEF Doing, PidsOf, Idle
  <2>4. alive' \subseteq PidsOf(op'.todo) \cup refused' /\ PidsOf(op'.kept) \subseteq refused'
    BY <1>1, <2>1, <2>2, <2>3
  <2>5. alive' \subseteq PidsOf(children') \cup refused'
    BY <1>1, <2>1 DEF PidsOf
  <2> QED BY <2>3, <2>4, <2>5 DEF ForgettingInvariant, NoProcessForgotten, StoppingInvariant, Tracked, PidsOf
<1>12. ASSUME NEW stopped \in BOOLEAN, RollbackChild(stopped) PROVE ForgettingInvariant'
  <2> DEFINE child == Head(op.todo)
  <2>1. /\ op.kind = "rollback" /\ op.todo # <<>> /\ UNCHANGED children
        /\ StopChild(child.process_id, stopped)
        /\ op' = [op EXCEPT !.todo = Tail(@), !.kept = IF stopped THEN @ ELSE Append(@, child)]
    BY <1>12 DEF RollbackChild
  <2>2. op.todo \in Seq(Identities) /\ op.kept \in Seq(Identities)
    BY <1>0, <2>1, OpFacts
  <2>3. PidsOf(op.todo) = {child.process_id} \cup PidsOf(Tail(op.todo)) /\ child \in Identities
    BY <2>1, <2>2, TailIds
  <2>4. PidsOf(Append(op.kept, child)) \subseteq PidsOf(op.kept) \cup {child.process_id}
    <3> DEFINE r == Append(op.kept, child)
               n == Len(op.kept)
    <3>1. /\ DOMAIN op.kept = 1..n /\ DOMAIN r = 1..(n + 1) /\ n \in Nat
          /\ \A i \in 1..n : r[i] = op.kept[i]
          /\ r[n + 1] = child
      BY <2>2, <2>3, AppendFacts
    <3> HIDE DEF r, n, child
    <3>2. \A i \in 1..(n + 1) : i \in 1..n \/ i = n + 1
      BY <3>1
    <3>3. PidsOf(r) \subseteq PidsOf(op.kept) \cup {child.process_id}
      BY <3>1, <3>2 DEF PidsOf
    <3> QED BY <3>3 DEF r
  <2> HIDE DEF child
  <2>5. /\ op'.kind = "rollback" /\ op'.todo = Tail(op.todo)
        /\ op'.kept = IF stopped THEN op.kept ELSE Append(op.kept, child)
    BY <1>0, <2>1, OpFacts
  <2>6. /\ stopped => alive' = alive \ {child.process_id} /\ refused' = refused
        /\ ~stopped => alive' = alive /\ refused' = refused \cup {child.process_id}
    BY <2>1 DEF StopChild
  <2>7. PidsOf(op'.kept) \subseteq refused'
    BY <1>1, <2>1, <2>4, <2>5, <2>6
  <2>8. alive' \subseteq PidsOf(op'.todo) \cup refused' /\ alive' \subseteq PidsOf(children) \cup refused'
    BY <1>1, <2>1, <2>3, <2>5, <2>6
  <2>9. op' # Idle
    BY <2>5, IdleFacts
  <2> QED
    BY <2>1, <2>5, <2>7, <2>8, <2>9
       DEF ForgettingInvariant, NoProcessForgotten, StoppingInvariant, Tracked, PidsOf
<1>13. CASE RollbackEnds
  <2>1. /\ op.kind = "rollback" /\ op.todo = <<>> /\ children' = Reverse(op.kept)
        /\ op' = Idle /\ UNCHANGED <<alive, refused>>
    BY <1>13 DEF RollbackEnds
  <2>2. PidsOf(children') = PidsOf(op.kept)
    BY <1>0, <2>1, OpFacts, ReverseIds
  <2>3. PidsOf(op.todo) = {}
    BY <2>1 DEF PidsOf
  <2> QED BY <1>1, <1>4, <2>1, <2>2, <2>3
<1>14. ASSUME NEW pid, RestartChild(pid), op'.kind = "tick" \/ op' = Idle, running
       PROVE  ForgettingInvariant'
  <2>1. alive' \subseteq PidsOf(children') \cup refused'
    BY <1>0, <1>1, <1>14, RestartAlive
  <2>2. running'
    BY <1>14 DEF RestartChild
  <2> QED BY <1>3, <1>14, <2>1, <2>2
<1>15. ASSUME NEW pid \in Pids, HostRestartsChild(pid) PROVE ForgettingInvariant'
  BY <1>14, <1>15 DEF HostRestartsChild
<1>16. CASE Tick
  <2>1. op'.kind = "tick" /\ UNCHANGED <<children, alive, refused>>
    BY <1>16 DEF Tick, Doing
  <2> QED BY <1>1, <1>3, <2>1 DEF PidsOf
<1>17. ASSUME NEW answer \in SupervisorAnswers, TickChild(answer) PROVE ForgettingInvariant'
  <2>1. op.kind = "tick" /\ op' = [op EXCEPT !.todo = Tail(@)]
    BY <1>17 DEF TickChild
  <2>2. op'.kind = "tick" /\ running
    BY <1>0, <2>1, OpFacts DEF OperationInvariant
  <2>3. RestartChild(Head(op.todo)) \/ UNCHANGED <<children, alive, refused>>
    BY <1>17 DEF TickChild
  <2>4. CASE UNCHANGED <<children, alive, refused>>
    BY <1>1, <1>3, <2>2, <2>4 DEF PidsOf
  <2> QED BY <1>14, <2>2, <2>3, <2>4
<1>18. CASE TickEnds
  BY <1>0, <1>1, <1>3, <1>18 DEF TickEnds, OperationInvariant, PidsOf
<1>19. ASSUME NEW pid, NEW stopped \in BOOLEAN, StopAndForget(pid, stopped)
       PROVE  /\ alive' \subseteq PidsOf(children') \cup refused' /\ UNCHANGED running
              /\ PidsOf(children') \subseteq PidsOf(children)
              /\ refused \subseteq refused' /\ alive' \subseteq alive
              /\ pid \notin alive' \ refused'
  <2>1. /\ stopped => alive' = alive \ {pid} /\ refused' = refused
        /\ ~stopped => alive' = alive /\ refused' = refused \cup {pid}
    BY <1>19 DEF StopAndForget, StopChild
  <2>2. PidsOf(children') = IF stopped THEN PidsOf(children) \ {pid} ELSE PidsOf(children)
    BY <1>0, <1>19, StopAndForgetFacts
  <2>3. UNCHANGED running
    BY <1>19 DEF StopAndForget
  <2> QED BY <1>1, <2>1, <2>2, <2>3
<1>20. ASSUME NEW pid \in Pids, NEW stopped \in BOOLEAN, GracefulStopChild(pid, stopped)
       PROVE  ForgettingInvariant'
  <2>1. StopAndForget(pid, stopped) /\ op = Idle /\ op' = Idle
    BY <1>20 DEF GracefulStopChild
  <2> QED BY <1>1, <1>19, <2>1, IdleFacts
          DEF ForgettingInvariant, NoProcessForgotten, StoppingInvariant, Tracked, PidsOf
<1>21. CASE Stop
  <2>1. op' = Doing("stop", ProcessIds) /\ UNCHANGED <<children, alive, refused>>
    BY <1>21 DEF Stop
  <2>2. op'.kind = "stop" /\ op'.todo = ProcessIds /\ op' # Idle
    BY <2>1 DEF Doing, Idle
  <2>3. Items(ProcessIds) = PidsOf(children)
    BY <1>0, ProcessIdsFacts DEF TypeOK
  <2>4. alive' \subseteq Items(op'.todo) \cup refused' /\ alive' \subseteq PidsOf(children) \cup refused'
    BY <1>1, <2>1, <2>2, <2>3
  <2> QED BY <2>1, <2>2, <2>4 DEF ForgettingInvariant, NoProcessForgotten, StoppingInvariant, Tracked, PidsOf, Items
<1>22. ASSUME NEW stopped \in BOOLEAN, StopNextChild(stopped) PROVE ForgettingInvariant'
  <2>1. /\ op.kind = "stop" /\ op.todo # <<>> /\ op' = [op EXCEPT !.todo = Tail(@)]
        /\ StopAndForget(Head(op.todo), stopped)
    BY <1>22 DEF StopNextChild
  <2>2. op'.kind = "stop" /\ op'.todo = Tail(op.todo) /\ op' # Idle /\ op.todo \in Seq(Pids)
    BY <1>0, <2>1, OpFacts, IdleFacts
  <2>3. Items(op.todo) = {Head(op.todo)} \cup Items(op'.todo)
    BY <2>1, <2>2, TailItems
  <2>4. alive' \subseteq Items(op'.todo) \cup refused'
    BY <1>1, <1>19, <2>1, <2>3
  <2> QED BY <1>19, <2>1, <2>2, <2>4
          DEF ForgettingInvariant, NoProcessForgotten, StoppingInvariant, Tracked, PidsOf, Items
<1>23. CASE StopEnds
  <2>1. op.kind = "stop" /\ op.todo = <<>> /\ NoChildren /\ op' = Idle /\ UNCHANGED <<alive, refused>>
    BY <1>23 DEF StopEnds
  <2>2. Items(op.todo) = {}
    BY <2>1 DEF Items
  <2> QED BY <1>1, <1>4, <1>5, <2>1, <2>2
<1>24. CASE (\E s \in Specs : Configure(s)) \/ SetProcessLauncher \/ SetTransportFactory
  BY <1>24, SameForgetting DEF Configure, SetProcessLauncher, SetTransportFactory
<1>25. ASSUME NEW pid \in Pids,
              \/ \E state \in ReportedStates : SetChildHandshakeState(pid, state)
              \/ RecordHeartbeat(pid) \/ SendHeartbeat(pid) \/ Crash(pid)
       PROVE  ForgettingInvariant'
  BY <1>25, SameForgetting DEF SetChildHandshakeState, RecordHeartbeat, SendHeartbeat, Crash
<1>26. CASE UNCHANGED vars
  BY <1>26, SameForgetting DEF vars
<1> QED
  BY <1>6, <1>7, <1>8, <1>9, <1>10, <1>11, <1>12, <1>13, <1>15, <1>16, <1>17, <1>18, <1>20, <1>21,
     <1>22, <1>23, <1>24, <1>25, <1>26
     DEF Next, RuntimeStep

\* If the host calls RestartChild only while the runtime is running, every live
\* process is a recorded child or one the launcher refused to stop, at every step of
\* every Start, rollback, Tick and Stop.  A RestartChild on what a failed rollback
\* left recorded starts a process that the next Start forgets, hence the hypothesis.
THEOREM NoProcessIsForgotten ==
  ASSUME RestartWhenStopped = FALSE
  PROVE  Spec => []NoProcessForgotten
<1>1. Init => ForgettingInvariant
  BY IdleFacts DEF Init, ForgettingInvariant, NoProcessForgotten, StoppingInvariant, Tracked, PidsOf
<1>2. TrackingInvariant /\ ForgettingInvariant /\ [Next]_vars => ForgettingInvariant'
  BY ForgettingStep
<1>3. ForgettingInvariant => NoProcessForgotten
  BY DEF ForgettingInvariant
<1> QED BY <1>1, <1>2, <1>3, TrackingHolds, PTL DEF Spec
=============================================================================
