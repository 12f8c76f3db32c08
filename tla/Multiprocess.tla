---------------------------- MODULE Multiprocess ----------------------------
(***************************************************************************)
(* framekit::runtime::MultiprocessRuntime: the supervisor that launches a  *)
(* topology of child processes, counts their heartbeats, restarts silent   *)
(* ones within a budget and stops them.                                    *)
(*                                                                         *)
(* The runtime is single threaded, but each of its operations calls the    *)
(* launcher (external) once per child, and children crash and send         *)
(* heartbeats at any time.  Start, Tick and Stop are therefore a sequence  *)
(* of steps, one per child; `op` is where the operation in progress is.    *)
(* The launcher may refuse any call, and never gives a process id twice.   *)
(*                                                                         *)
(* Left out: message texts (last_error_), so a call that only sets an      *)
(* error is no step; the identity copies kept inside handshake entries;    *)
(* callbacks that call back into the runtime.  Maps read with a default    *)
(* (heartbeat and restart counters) are total functions with value 0 for   *)
(* an absent key.                                                          *)
(***************************************************************************)
EXTENDS Naturals, Sequences, FiniteSets, SequencesExt

CONSTANTS
  Names,              \* process names
  Specs,              \* application specifications given to Configure
  SupervisorAnswers,  \* what ShouldRestart may answer; {TRUE} for the default policy
  ReportedStates,     \* handshake states the host reports
  RestartWhenStopped, \* does the host call RestartChild while not running?
  MaxPid,             \* bound on launched processes
  MaxHeartbeats       \* bound on a heartbeat counter

Pids == 1..MaxPid
Roles == {"Primary", "Backend", "Worker"}
HandshakeStates == {"Absent", "Spawned", "HelloReceived", "Ready", "Failed", "TimedOut"}
Nodes == [name : Names, role : Roles, auto_restart : BOOLEAN, max_restart_attempts : Nat]
Identities == [process_id : Pids, name : Names, role : Roles]

ASSUME SpecsAssumption ==
  Specs \subseteq [multi : BOOLEAN, transport : BOOLEAN, nodes : Seq(Nodes)] /\ Specs # {}
ASSUME PolicyAssumption ==
  /\ SupervisorAnswers \subseteq BOOLEAN /\ RestartWhenStopped \in BOOLEAN
  /\ ReportedStates \subseteq HandshakeStates \ {"Absent"}
ASSUME BoundsAssumption == MaxPid \in Nat /\ MaxHeartbeats \in Nat

VARIABLES
  spec, launcher, factory,  \* Configure, SetProcessLauncher, SetTransportFactory
  running,
  children,                 \* child_processes_
  handshakes,               \* pid -> state
  heartbeats,               \* pid -> heartbeat_counters_
  restarts,                 \* name -> restart_attempt_counters_
  channel,                  \* transport_bundle_: "None" or "Open"
  op,                       \* the operation in progress and the work it has left
  alive, next_pid, wire,    \* external: live processes, fresh ids, heartbeats in flight
  open_channels,            \* history: channels created and not closed
  refused,                  \* history: processes whose StopChild returned false
  relaunched                \* history: name -> successful restarts since Start

config  == <<spec, launcher, factory>>
records == <<children, handshakes, heartbeats, restarts>>
world   == <<alive, next_pid, wire>>
history == <<open_channels, refused, relaunched>>
vars == <<config, running, records, channel, op, world, history>>

\* Wrong version of NoChildren: the child list is not cleared.
NoChildrenKeepsList ==
  /\ handshakes' = [p \in Pids |-> "Absent"]
  /\ heartbeats' = [p \in Pids |-> 0]
  /\ restarts' = [n \in Names |-> 0]
  /\ relaunched' = [n \in Names |-> 0]
  /\ UNCHANGED children

NoChildren ==
  /\ children' = <<>>
  /\ handshakes' = [p \in Pids |-> "Absent"]
  /\ heartbeats' = [p \in Pids |-> 0]
  /\ restarts' = [n \in Names |-> 0]
  /\ relaunched' = [n \in Names |-> 0]

\* Wrong version of CloseChannel: the bundle is dropped and its channel stays open.
CloseChannelLeak ==
  /\ channel' = "None"
  /\ UNCHANGED open_channels

CloseChannel ==
  /\ channel' = "None"
  /\ open_channels' = IF channel = "Open" THEN open_channels - 1 ELSE open_channels

Idle == [kind |-> "idle", todo |-> <<>>, kept |-> <<>>]
Doing(kind, todo) == [kind |-> kind, todo |-> todo, kept |-> <<>>]

PidsOf(identities) == {identities[i].process_id : i \in DOMAIN identities}
ProcessIds == [i \in DOMAIN children |-> children[i].process_id]
IndexOf(pid) == CHOOSE i \in DOMAIN children :
                  children[i].process_id = pid /\ \A j \in 1..(i-1) : children[j].process_id # pid

Init ==
  /\ spec \in Specs /\ launcher = FALSE /\ factory = FALSE
  /\ running = FALSE
  /\ children = <<>>
  /\ handshakes = [p \in Pids |-> "Absent"] /\ heartbeats = [p \in Pids |-> 0]
  /\ restarts = [n \in Names |-> 0]
  /\ channel = "None" /\ op = Idle
  /\ alive = {} /\ next_pid = 1 /\ wire = {}
  /\ open_channels = 0 /\ refused = {} /\ relaunched = [n \in Names |-> 0]

-----------------------------------------------------------------------------
(***************************************************************************)
(* Configuration.                                                          *)
(***************************************************************************)
Configure(s) ==
  /\ op = Idle
  /\ spec' = s
  /\ UNCHANGED <<launcher, factory, running, records, channel, op, world, history>>

SetProcessLauncher ==
  /\ op = Idle
  /\ launcher' = TRUE
  /\ UNCHANGED <<spec, factory, running, records, channel, op, world, history>>

SetTransportFactory ==
  /\ op = Idle
  /\ factory' = TRUE
  /\ UNCHANGED <<spec, launcher, running, records, channel, op, world, history>>

-----------------------------------------------------------------------------
(***************************************************************************)
(* Start.                                                                  *)
(***************************************************************************)
StartSingle ==
  /\ op = Idle /\ ~running /\ ~spec.multi
  /\ running' = TRUE
  /\ UNCHANGED <<config, records, channel, op, world, history>>

\* ConfigureTransport succeeds (or is not needed) and LaunchChildren begins by
\* forgetting everything recorded about children.  A failing ConfigureTransport
\* closes what it created and changes nothing.
StartMulti ==
  /\ op = Idle /\ ~running /\ spec.multi
  /\ spec.transport => factory
  /\ launcher \/ spec.nodes = <<>>
  /\ IF spec.transport
     THEN channel' = "Open" /\ open_channels' = open_channels + 1
     ELSE UNCHANGED <<channel, open_channels>>
  /\ NoChildren
  /\ op' = Doing("launch", spec.nodes)
  /\ UNCHANGED <<config, running, world, refused>>

\* LaunchChildren without a launcher fails on a non-empty topology, after the
\* records were cleared; Start closes the channel it had opened.
StartWithoutLauncher ==
  /\ op = Idle /\ ~running /\ spec.multi
  /\ spec.transport => factory
  /\ ~launcher /\ spec.nodes # <<>>
  /\ NoChildren
  /\ CloseChannel
  /\ UNCHANGED <<config, running, op, world, refused>>

Launched(node) == [process_id |-> next_pid, name |-> node.name, role |-> node.role]

SkipPrimary ==
  /\ op.kind = "launch" /\ op.todo # <<>>
  /\ Head(op.todo).role = "Primary"
  /\ op' = [op EXCEPT !.todo = Tail(@)]
  /\ UNCHANGED <<config, running, records, channel, world, history>>

LaunchChild ==
  /\ op.kind = "launch" /\ op.todo # <<>>
  /\ Head(op.todo).role # "Primary"
  /\ next_pid \in Pids
  /\ LET node == Head(op.todo)
     IN /\ children' = Append(children, Launched(node))
        /\ handshakes' = [handshakes EXCEPT ![next_pid] = "Spawned"]
        /\ heartbeats' = [heartbeats EXCEPT ![next_pid] = 0]
        /\ restarts' = [restarts EXCEPT ![node.name] = 0]
  /\ alive' = alive \cup {next_pid} /\ next_pid' = next_pid + 1
  /\ op' = [op EXCEPT !.todo = Tail(@)]
  /\ UNCHANGED <<config, running, channel, wire, history>>

\* Wrong version of LaunchFails: Start gives up without a rollback.
LaunchFailsUnrolled ==
  /\ op.kind = "launch" /\ op.todo # <<>>
  /\ Head(op.todo).role # "Primary"
  /\ op' = Idle
  /\ UNCHANGED <<config, running, records, channel, world, history>>

\* The launcher returned nothing or a handle that is not running: roll back.
LaunchFails ==
  /\ op.kind = "launch" /\ op.todo # <<>>
  /\ Head(op.todo).role # "Primary"
  /\ op' = Doing("rollback", Reverse(children))
  /\ UNCHANGED <<config, running, records, channel, world, history>>

StartSucceeds ==
  /\ op.kind = "launch" /\ op.todo = <<>>
  /\ running' = TRUE
  /\ op' = Idle
  /\ UNCHANGED <<config, records, channel, world, history>>

\* StopChild(child), external: a process that was stopped is gone.
StopChild(pid, stopped) ==
  /\ alive' = IF stopped THEN alive \ {pid} ELSE alive
  /\ refused' = IF stopped THEN refused ELSE refused \cup {pid}

RollbackChild(stopped) ==
  /\ op.kind = "rollback" /\ op.todo # <<>>
  /\ LET child == Head(op.todo)
     IN /\ StopChild(child.process_id, stopped)
        /\ op' = [op EXCEPT !.todo = Tail(@), !.kept = IF stopped THEN @ ELSE Append(@, child)]
  /\ UNCHANGED <<config, running, records, channel, next_pid, wire, open_channels,
                 relaunched>>

\* The children that refused to stop stay recorded, in launch order, as freshly
\* spawned ones; Start fails and closes the channel.
RollbackEnds ==
  /\ op.kind = "rollback" /\ op.todo = <<>>
  /\ children' = Reverse(op.kept)
  /\ handshakes' = [p \in Pids |-> IF p \in PidsOf(op.kept) THEN "Spawned" ELSE "Absent"]
  /\ heartbeats' = [p \in Pids |-> 0]
  /\ restarts' = [n \in Names |-> 0]
  /\ CloseChannel
  /\ op' = Idle
  /\ UNCHANGED <<config, running, world, refused, relaunched>>

-----------------------------------------------------------------------------
(***************************************************************************)
(* RestartChild, from the host or from Tick.                               *)
(***************************************************************************)
Matches(node, child) == node.name = child.name /\ node.role = child.role
\* The first entry of the topology that describes the child, if there is one.
FindProcessSpec(child) ==
  LET found == {i \in DOMAIN spec.nodes : Matches(spec.nodes[i], child)}
  IN {spec.nodes[i] : i \in {i \in found : \A j \in found : i <= j}}

\* Wrong version of HasRestartBudget: one attempt too many.
HasRestartBudgetPlusOne(child) ==
  \E node \in FindProcessSpec(child) :
    node.auto_restart /\ restarts[node.name] <= node.max_restart_attempts

HasRestartBudget(child) ==
  \E node \in FindProcessSpec(child) :
    node.auto_restart /\ restarts[node.name] < node.max_restart_attempts
\* Wrong version of ConsumeRestartBudget: attempts are not counted.
ConsumeNothing(child) == UNCHANGED restarts

ConsumeRestartBudget(child) == restarts' = [restarts EXCEPT ![child.name] = @ + 1]

\* The old process is stopped and its record replaced in place.  RelaunchChild is
\* handed a reference to that very record, so after `*it = new_identity` its
\* old_identity reads as the new one: the old process's handshake and heartbeat
\* entries stay, and OnRestartCompleted is told the new identity twice.
RelaunchChild(child) ==
  LET new == [child EXCEPT !.process_id = next_pid]
  IN /\ next_pid \in Pids
     /\ alive' = (alive \ {child.process_id}) \cup {next_pid}
     /\ next_pid' = next_pid + 1
     /\ children' = [children EXCEPT ![IndexOf(child.process_id)] = new]
     /\ handshakes' = [handshakes EXCEPT ![new.process_id] = "Spawned"]
     /\ heartbeats' = [heartbeats EXCEPT ![new.process_id] = 0]
     /\ relaunched' = [relaunched EXCEPT ![child.name] = @ + 1]
     /\ UNCHANGED refused

\* StopChild refused, or the process was stopped and LaunchChild failed: the old
\* record stays, heartbeat count included, and the attempt is spent.
RelaunchFails(child, stopped) ==
  /\ StopChild(child.process_id, stopped)
  /\ UNCHANGED <<next_pid, children, handshakes, heartbeats, relaunched>>

RestartChild(pid) ==
  /\ pid \in PidsOf(children)
  /\ LET child == children[IndexOf(pid)]
     IN IF HasRestartBudget(child)
        THEN /\ ConsumeRestartBudget(child)
             /\ \/ RelaunchChild(child)
                \/ \E stopped \in BOOLEAN : RelaunchFails(child, stopped)
             /\ UNCHANGED <<wire, open_channels>>
        ELSE UNCHANGED <<records, world, history>>
  /\ UNCHANGED <<config, running, channel>>

HostRestartsChild(pid) ==
  /\ op = Idle
  /\ running \/ RestartWhenStopped
  /\ RestartChild(pid)
  /\ UNCHANGED op

-----------------------------------------------------------------------------
(***************************************************************************)
(* Tick and Stop walk a copy of the process ids.                           *)
(***************************************************************************)
Tick ==
  /\ op = Idle /\ running
  /\ op' = Doing("tick", ProcessIds)
  /\ UNCHANGED <<config, running, records, channel, world, history>>

IsProcessAlive(pid) == heartbeats[pid] > 0

TickChild(should_restart) ==
  /\ op.kind = "tick" /\ op.todo # <<>>
  /\ LET pid == Head(op.todo)
     IN IF pid \in PidsOf(children) /\ ~IsProcessAlive(pid) /\ should_restart
        THEN RestartChild(pid)
        ELSE UNCHANGED <<config, running, records, channel, world, history>>
  /\ op' = [op EXCEPT !.todo = Tail(@)]

TickEnds ==
  /\ op.kind = "tick" /\ op.todo = <<>>
  /\ op' = Idle
  /\ UNCHANGED <<config, running, records, channel, world, history>>

\* The child is forgotten only when the launcher stopped it; its restart counter stays.
StopAndForget(pid, stopped) ==
  /\ pid \in PidsOf(children)
  /\ StopChild(pid, stopped)
  /\ IF stopped
     THEN /\ children' = RemoveAt(children, IndexOf(pid))
          /\ handshakes' = [handshakes EXCEPT ![pid] = "Absent"]
          /\ heartbeats' = [heartbeats EXCEPT ![pid] = 0]
     ELSE UNCHANGED <<children, handshakes, heartbeats>>
  /\ UNCHANGED <<config, running, restarts, channel, next_pid, wire, open_channels,
                 relaunched>>

GracefulStopChild(pid, stopped) ==
  /\ op = Idle
  /\ StopAndForget(pid, stopped)
  /\ UNCHANGED op

Stop ==
  /\ op = Idle
  /\ op' = Doing("stop", ProcessIds)
  /\ UNCHANGED <<config, running, records, channel, world, history>>

StopNextChild(stopped) ==
  /\ op.kind = "stop" /\ op.todo # <<>>
  /\ StopAndForget(Head(op.todo), stopped)
  /\ op' = [op EXCEPT !.todo = Tail(@)]

\* Whatever StopChild answered, every record is cleared.
StopEnds ==
  /\ op.kind = "stop" /\ op.todo = <<>>
  /\ running' = FALSE
  /\ NoChildren
  /\ CloseChannel
  /\ op' = Idle
  /\ UNCHANGED <<config, world, refused>>

-----------------------------------------------------------------------------
(***************************************************************************)
(* Reports about children, which may be late; and the children themselves. *)
(***************************************************************************)
SetChildHandshakeState(pid, state) ==
  /\ op = Idle
  /\ pid < next_pid
  /\ handshakes' = [handshakes EXCEPT ![pid] = state]
  /\ UNCHANGED <<config, running, children, heartbeats, restarts, channel, op, world, history>>

RecordHeartbeat(pid) ==
  /\ op = Idle
  /\ pid \in wire
  /\ heartbeats[pid] < MaxHeartbeats
  /\ heartbeats' = [heartbeats EXCEPT ![pid] = @ + 1]
  /\ wire' = wire \ {pid}
  /\ UNCHANGED <<config, running, children, handshakes, restarts, channel, op, alive, next_pid,
                 history>>

SendHeartbeat(pid) ==
  /\ pid \in alive
  /\ wire' = wire \cup {pid}
  /\ UNCHANGED <<config, running, records, channel, op, alive, next_pid, history>>

Crash(pid) ==
  /\ pid \in alive
  /\ alive' = alive \ {pid}
  /\ UNCHANGED <<config, running, records, channel, op, next_pid, wire, history>>

RuntimeStep ==
  \/ SkipPrimary \/ LaunchChild \/ LaunchFails \/ StartSucceeds
  \/ \E stopped \in BOOLEAN : RollbackChild(stopped) \/ StopNextChild(stopped)
  \/ RollbackEnds
  \/ \E answer \in SupervisorAnswers : TickChild(answer)
  \/ TickEnds \/ StopEnds

Next ==
  \/ \E s \in Specs : Configure(s)
  \/ SetProcessLauncher \/ SetTransportFactory
  \/ StartSingle \/ StartMulti \/ StartWithoutLauncher
  \/ Tick \/ Stop \/ RuntimeStep
  \/ \E pid \in Pids :
       \/ HostRestartsChild(pid)
       \/ \E stopped \in BOOLEAN : GracefulStopChild(pid, stopped)
       \/ \E state \in ReportedStates : SetChildHandshakeState(pid, state)
       \/ RecordHeartbeat(pid) \/ SendHeartbeat(pid) \/ Crash(pid)

Spec == Init /\ [][Next]_vars

\* The host calls Tick again and again, and the launcher always answers.
FairSpec == Spec /\ WF_vars(RuntimeStep) /\ WF_vars(Tick)

-----------------------------------------------------------------------------
(***************************************************************************)
(* Properties.                                                             *)
(***************************************************************************)
Operations(kind, Items) == [kind : {kind}, todo : Seq(Items), kept : Seq(Identities)]

\* The members have their types; each operation's work list holds what it walks.
TypeOK ==
  /\ spec \in Specs /\ launcher \in BOOLEAN /\ factory \in BOOLEAN /\ running \in BOOLEAN
  /\ children \in Seq(Identities)
  /\ handshakes \in [Pids -> HandshakeStates]
  /\ heartbeats \in [Pids -> 0..MaxHeartbeats]
  /\ restarts \in [Names -> Nat] /\ relaunched \in [Names -> Nat]
  /\ channel \in {"None", "Open"} /\ open_channels \in Nat
  /\ op \in Operations("launch", Nodes) \cup Operations("rollback", Identities)
             \cup Operations("tick", Pids) \cup Operations("stop", Pids) \cup {Idle}
  /\ alive \subseteq Pids /\ wire \subseteq Pids /\ refused \subseteq Pids
  /\ next_pid \in 1..(MaxPid + 1)

Tracked == PidsOf(children)

\* Every recorded child has its own process id and a handshake entry, at every
\* point of every operation: ChildHandshake finds every member of ChildProcesses.
ChildrenAreTracked ==
  /\ \A i, j \in DOMAIN children : children[i].process_id = children[j].process_id => i = j
  /\ \A pid \in Tracked : pid < next_pid /\ handshakes[pid] # "Absent"

\* A live process is never forgotten while the launcher is able to stop it: it is
\* recorded as a child, or a StopChild call for it returned false.  When the
\* runtime is not running, what it has recorded is what a rollback could not stop.
NoProcessForgotten ==
  /\ alive \subseteq Tracked \cup refused
  /\ op = Idle /\ ~running => Tracked \subseteq refused

Budget(name) ==
  {node.max_restart_attempts : node \in {n \in UNION {ToSet(s.nodes) : s \in Specs} :
                                           n.name = name /\ n.auto_restart}}

\* Between two Starts a process is relaunched at most max_restart_attempts times,
\* whether Tick or the host asks, and whatever fails in between.
RestartBudgetRespected ==
  \A name \in Names :
    /\ relaunched[name] <= restarts[name]
    /\ restarts[name] > 0 => \E b \in Budget(name) : restarts[name] <= b

\* The runtime holds at most one open control channel, and none when it is not
\* running: every failed Start and every Stop closes what was opened.
NoChannelLeaks ==
  /\ open_channels = (IF channel = "Open" THEN 1 ELSE 0)
  /\ op = Idle /\ ~running => channel = "None"

Silent(pid) ==
  /\ running /\ pid \in Tracked /\ heartbeats[pid] = 0
  /\ HasRestartBudget(children[IndexOf(pid)])

\* The default policies do not leave a silent child alone: with Tick called again
\* and again it ends up heard of, replaced or stopped, or its budget is spent.
\* Failed relaunches spend budget too, so this needs no luck with the launcher.
SilentChildIsRestarted == \A pid \in Pids : Silent(pid) ~> ~Silent(pid)

\* AllChildHandshakes has one entry per child: a process that is no longer a child
\* has none.  (Stated for a host that reports no handshake itself.)
HandshakesAreOfChildren ==
  op = Idle => {pid \in Pids : handshakes[pid] # "Absent"} \subseteq Tracked
=============================================================================
