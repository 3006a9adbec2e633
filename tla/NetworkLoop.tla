----------------------------- MODULE NetworkLoop -----------------------------
(***************************************************************************)
(* One node's network loop (p2sync-net/src/swarm.rs), its engine loop and  *)
(* the tasks the engine spawns (sync_engine.rs, run), joined by the two    *)
(* bounded channels of build: commands to the network, events to the       *)
(* engine.  What requests are about is SyncEngine's matter; here they wait *)
(* for room in a channel.                                                  *)
(***************************************************************************)
EXTENDS Naturals, Sequences, FiniteSets

CONSTANTS
  Task,             \* notifications that will each start a fetch task
  Call,             \* requests that other peers will send
  MaxLocal,         \* local file changes to announce
  ChannelCapacity   \* network.channel_capacity, of both channels

ASSUME CapacityAssumption == ChannelCapacity \in Nat \ {0}

\* Commands: a task's SendRequest is the task, a Respond is the call it answers.
Notify == "notify"

ASSUME LoadAssumption ==
  /\ Task \cap Call = {} /\ Notify \notin Task \cup Call
  /\ MaxLocal \in Nat

VARIABLES
  arriving,   \* notifications and requests the swarm has still to report
  sending,    \* the event the network loop is sending: <<>> or one event
  events,     \* event_tx / event_rx
  command,    \* the command the engine loop is sending: <<>> or one command
  commands,   \* command_tx / command_rx
  task,       \* task[t]: where the fetch task of notification t stands
  pending,    \* NetworkLoop.pending_requests, by task
  answered,   \* calls of other peers that were answered
  local       \* local changes not yet taken by the engine loop

vars == <<arriving, sending, events, command, commands, task, pending, answered, local>>

Message == Task \cup Call \cup {Notify}

TypeOK ==
  /\ arriving \subseteq Task \cup Call
  /\ sending \in {<<>>} \cup {<<m>> : m \in Task \cup Call}
  /\ events \in Seq(Task \cup Call)
  /\ command \in {<<>>} \cup {<<m>> : m \in Call \cup {Notify}}
  /\ commands \in Seq(Message)
  /\ task \in [Task -> {"none", "calling", "waiting", "ok", "failed"}]
  /\ pending \subseteq Task
  /\ answered \subseteq Call
  /\ local \in 0 .. MaxLocal

Init ==
  /\ arriving = Task \cup Call
  /\ sending = <<>> /\ events = <<>>
  /\ command = <<>> /\ commands = <<>>
  /\ task = [t \in Task |-> "none"]
  /\ pending = {} /\ answered = {}
  /\ local = MaxLocal

-----------------------------------------------------------------------------
(* NetworkLoop::run: swarm events and commands, one at a time *)

AtSelect == sending = <<>>

\* A request or a gossip message: the loop awaits event_tx.send.
SwarmEvent(m) ==
  /\ AtSelect /\ m \in arriving
  /\ arriving' = arriving \ {m}
  /\ sending' = <<m>>
  /\ UNCHANGED <<events, command, commands, task, pending, answered, local>>

EventSent ==
  /\ sending # <<>> /\ Len(events) < ChannelCapacity
  /\ events' = events \o sending
  /\ sending' = <<>>
  /\ UNCHANGED <<arriving, command, commands, task, pending, answered, local>>

\* Mutant: SendRequest does not remember whom to reply to.
HandleCommandForgets ==
  LET m == Head(commands) IN
  /\ AtSelect /\ commands # <<>>
  /\ commands' = Tail(commands)
  /\ answered' = answered \cup ({m} \cap Call)
  /\ UNCHANGED <<arriving, sending, events, command, task, pending, local>>

\* handle_command: SendRequest, Respond, Notify.
HandleCommand ==
  LET m == Head(commands) IN
  /\ AtSelect /\ commands # <<>>
  /\ commands' = Tail(commands)
  /\ pending' = pending \cup ({m} \cap Task)
  /\ answered' = answered \cup ({m} \cap Call)
  /\ UNCHANGED <<arriving, sending, events, command, task, local>>

\* Mutant: a failed request is taken off the table, its caller is not told.
OutcomeDropsFailure(t, outcome) ==
  /\ AtSelect /\ t \in pending
  /\ pending' = pending \ {t}
  /\ task' = [task EXCEPT ![t] = IF outcome = "ok" THEN "ok" ELSE @]
  /\ UNCHANGED <<arriving, sending, events, command, commands, answered, local>>

\* A response, or OutboundFailure after the request timeout at the latest.
Outcome(t, outcome) ==
  /\ AtSelect /\ t \in pending
  /\ pending' = pending \ {t}
  /\ task' = [task EXCEPT ![t] = outcome]
  /\ UNCHANGED <<arriving, sending, events, command, commands, answered, local>>

-----------------------------------------------------------------------------
(* The engine loop and its tasks *)

EngineFree == command = <<>>

\* Mutant: the loop makes the request of a notification itself.
HandleEventInline ==
  LET m == Head(events) IN
  /\ EngineFree /\ events # <<>>
  /\ events' = Tail(events)
  /\ task' = [t \in Task |-> IF t = m THEN "waiting" ELSE task[t]]
  /\ command' = <<m>>
  /\ UNCHANGED <<arriving, sending, commands, pending, answered, local>>

\* A notification starts a task; a call is answered by the loop itself.
HandleEvent ==
  LET m == Head(events) IN
  /\ EngineFree /\ events # <<>>
  /\ events' = Tail(events)
  /\ IF m \in Task
     THEN task' = [task EXCEPT ![m] = "calling"] /\ UNCHANGED command
     ELSE command' = <<m>> /\ UNCHANGED task
  /\ UNCHANGED <<arriving, sending, commands, pending, answered, local>>

\* Mutant: the watcher's event stays in its channel.
HandleFsEventAgain ==
  /\ EngineFree /\ local > 0
  /\ command' = <<Notify>>
  /\ UNCHANGED <<arriving, sending, events, commands, task, pending, answered, local>>

\* A local change is announced by the loop itself.
HandleFsEvent ==
  /\ EngineFree /\ local > 0
  /\ local' = local - 1
  /\ command' = <<Notify>>
  /\ UNCHANGED <<arriving, sending, events, commands, task, pending, answered>>

CommandSent ==
  /\ command # <<>> /\ Len(commands) < ChannelCapacity
  /\ commands' = commands \o command
  /\ command' = <<>>
  /\ UNCHANGED <<arriving, sending, events, task, pending, answered, local>>

\* NetworkHandle::request: the task awaits command_tx.send, then the reply.
Request(t) ==
  /\ task[t] = "calling" /\ Len(commands) < ChannelCapacity
  /\ commands' = Append(commands, t)
  /\ task' = [task EXCEPT ![t] = "waiting"]
  /\ UNCHANGED <<arriving, sending, events, command, pending, answered, local>>

Network ==
  \/ \E m \in Task \cup Call : SwarmEvent(m)
  \/ EventSent
  \/ HandleCommand
  \/ \E t \in Task, outcome \in {"ok", "failed"} : Outcome(t, outcome)

Engine == HandleEvent \/ HandleFsEvent \/ CommandSent

\* The node has nothing left to do.
Done ==
  /\ answered = Call /\ local = 0
  /\ \A t \in Task : task[t] \in {"ok", "failed"}
  /\ events = <<>> /\ commands = <<>> /\ command = <<>> /\ sending = <<>>
  /\ UNCHANGED vars

Next == Network \/ Engine \/ (\E t \in Task : Request(t)) \/ Done

\* Each loop and each task is a tokio task of its own and is polled as long as it
\* can go on.
Fairness ==
  /\ WF_vars(Network)
  /\ WF_vars(Engine)
  /\ \A t \in Task : WF_vars(Request(t))

Spec == Init /\ [][Next]_vars /\ Fairness

-----------------------------------------------------------------------------
(* Correctness *)

Queued(q, m) == Cardinality({i \in DOMAIN q : q[i] = m})

\* A task that waits for a reply has exactly one request under way, queued or in
\* pending_requests, and only such a task has one: no reply can be lost or come
\* twice.
OneReplyEach ==
  \A t \in Task :
    Queued(commands, t) + Cardinality(pending \cap {t}) =
      IF task[t] = "waiting" THEN 1 ELSE 0

\* The event loops are never blocked by what the spawned tasks do: it cannot be
\* that the network waits for the engine to take an event while the engine waits
\* for the network to take a command.
LoopsNotBlocked ==
  ~ (/\ sending # <<>> /\ Len(events) = ChannelCapacity
     /\ command # <<>> /\ Len(commands) = ChannelCapacity)

\* Every call of another peer is answered, and every task gets its reply.
EverythingAnswered ==
  /\ \A c \in Call : <>(c \in answered)
  /\ \A t \in Task : <>(task[t] \in {"ok", "failed"})

=============================================================================
