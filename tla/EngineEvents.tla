---------------------------- MODULE EngineEvents ----------------------------
(***************************************************************************)
(* What one engine tells its front end (sync_engine.rs): the engine loop   *)
(* and the tasks it spawns send their events over one bounded channel, and *)
(* some of them while they hold the index lock.  Who receives the events   *)
(* is the matter of FrontEnd.  What a fetch writes and which clocks it     *)
(* merges is the matter of SyncEngine: here a file is received or removed. *)
(***************************************************************************)
EXTENDS Naturals, Sequences

CONSTANTS
  Peer,              \* the other peers
  File,              \* the paths they offer
  Excluded,          \* paths under the exclude patterns of this peer
  NamedFailed,       \* paths with "failed" in their name
  ChannelCapacity,   \* network.channel_capacity, of the channel to the front end
  MaxTasks,          \* bound: tasks the engine spawns
  Notifiable         \* the notifications that peers send: a set of <<kind, path>>

ASSUME EngineAssumption ==
  /\ Excluded \subseteq File /\ NamedFailed \subseteq File
  /\ File # {} /\ ChannelCapacity \in Nat \ {0} /\ MaxTasks \in Nat
  /\ Notifiable \subseteq {"changed", "deleted"} \X File

VARIABLES
  engine,    \* "starting", "up", or "dead": run has returned an error
  loopOut,   \* events the engine loop has still to send, in order
  spawns,    \* the peer whose reconciliation the loop spawns next, in a sequence
  near,      \* connected peers
  tasks,     \* the spawned tasks, in the order of their start
  ui,        \* ui_tx / ui_rx
  applied    \* applied[f]: what the index last took over from the network

engineVars == <<engine, loopOut, spawns, near, tasks, ui, applied>>

(* SyncEvent, with what a front end looks at *)
Connected(p) == <<"connected", p>>
Disconnected(p) == <<"disconnected", p>>
Reconciled(p) == <<"reconciled", p>>
Log(text) == <<"log", text>>
OnFile(kind, f) == <<kind, f>>

\* Logs are told apart by whether they contain the word "failed".
LogText == {"failed", "other"}
Synced(f) == Log(IF f \in NamedFailed THEN "failed" ELSE "other")

Event ==
  ({"connected", "disconnected", "reconciled"} \X Peer)
    \cup ({"log"} \X LogText)
    \cup ({"started", "chunk", "received", "removed", "conflict"} \X File)
    \cup {<<"index", "ready">>}

(* A task first sends the events of out, then goes on at the await named by at. *)
Await ==
  {"hash", "compare", "tree", "diff", "next", "decide", "chunks", "write", "index",
   "reported", "remove", "failed", "done"}

Task ==
  [job : ({"reconcile"} \X Peer) \cup Notifiable,
   at : Await,
   out : Seq(Event),
   todo : SUBSET File,        \* still to fetch
   path : File,               \* being fetched
   offered : SUBSET File,     \* what the other tree has and the index lacks
   missed : SUBSET File,      \* fetches that ended without the file
   after : Seq(Event)]        \* what a conflict's task sends at its end

Spawned(job, at, out) ==
  [job |-> job, at |-> at, out |-> out, todo |-> {}, path |-> CHOOSE f \in File : TRUE,
   offered |-> {}, missed |-> {}, after |-> <<>>]

EngineInit ==
  /\ engine = "starting"
  /\ loopOut = <<Log("other"), <<"index", "ready">>, Log("other")>>
  /\ spawns = <<>> /\ near = {} /\ tasks = <<>> /\ ui = <<>>
  /\ applied = [f \in File |-> "nothing"]

-----------------------------------------------------------------------------
(* The engine loop *)

Room == Len(ui) < ChannelCapacity

LoopSends ==
  /\ engine # "dead" /\ loopOut # <<>> /\ Room
  /\ ui' = Append(ui, Head(loopOut))
  /\ loopOut' = Tail(loopOut)
  /\ UNCHANGED <<engine, spawns, near, tasks, applied>>

\* Startup: the index and the swarm are built, and the loop begins.
EngineStarts ==
  /\ engine = "starting" /\ loopOut = <<>>
  /\ engine' = "up"
  /\ UNCHANGED <<loopOut, spawns, near, tasks, ui, applied>>

\* Building the index or the swarm, listening and watching may fail: run returns and
\* drops its end of the channel.
EngineDies ==
  /\ engine = "starting" /\ loopOut # <<Log("other"), <<"index", "ready">>, Log("other")>>
  /\ engine' = "dead"
  /\ UNCHANGED <<loopOut, spawns, near, tasks, ui, applied>>

AtSelect == engine = "up" /\ loopOut = <<>> /\ spawns = <<>>

\* Mutant: the reconciliation is spawned before the front end is told.
PeerDiscoveredSpawnsFirst(p) ==
  /\ AtSelect /\ p \notin near /\ Len(tasks) < MaxTasks
  /\ near' = near \cup {p}
  /\ loopOut' = <<Connected(p), Log("other")>>
  /\ tasks' = Append(tasks, Spawned(<<"reconcile", p>>, "hash", <<Log("other")>>))
  /\ UNCHANGED <<engine, spawns, ui, applied>>

PeerDiscovered(p) ==
  /\ AtSelect /\ p \notin near /\ Len(tasks) < MaxTasks
  /\ near' = near \cup {p}
  /\ loopOut' = <<Connected(p), Log("other")>>
  /\ spawns' = <<p>>
  /\ UNCHANGED <<engine, tasks, ui, applied>>

SpawnReconcile ==
  /\ engine = "up" /\ loopOut = <<>> /\ spawns # <<>>
  /\ tasks' = Append(tasks, Spawned(<<"reconcile", Head(spawns)>>, "hash", <<Log("other")>>))
  /\ spawns' = <<>>
  /\ UNCHANGED <<engine, loopOut, near, ui, applied>>

PeerDisconnected(p) ==
  /\ AtSelect /\ p \in near
  /\ near' = near \ {p}
  /\ loopOut' = <<Disconnected(p), Log("other")>>
  /\ UNCHANGED <<engine, spawns, tasks, ui, applied>>

Notification(note) ==
  /\ AtSelect /\ Len(tasks) < MaxTasks
  /\ tasks' = Append(tasks, Spawned(note, IF note[1] = "changed" THEN "decide" ELSE "remove", <<>>))
  /\ UNCHANGED <<engine, loopOut, spawns, near, ui, applied>>

-----------------------------------------------------------------------------
(* The tasks; t is a position in tasks *)

Become(t, task) ==
  /\ tasks' = [tasks EXCEPT ![t] = task]
  /\ UNCHANGED <<engine, loopOut, spawns, near, ui>>

At(t, await) == engine = "up" /\ tasks[t].at = await /\ tasks[t].out = <<>>

\* The index lock is held across the sends that report a change of the index.
Locked == \E t \in DOMAIN tasks : tasks[t].at = "reported" /\ tasks[t].out # <<>>

TaskSends(t) ==
  /\ tasks[t].out # <<>> /\ Room
  /\ ui' = Append(ui, Head(tasks[t].out))
  /\ tasks' = [tasks EXCEPT ![t].out = Tail(@)]
  /\ UNCHANGED <<engine, loopOut, spawns, near, applied>>

\* The requests for the root hash and for the tree.
HashReply(t) ==
  /\ At(t, "hash")
  /\ Become(t, [tasks[t] EXCEPT !.at = "compare"])
  /\ UNCHANGED applied

\* Mutant: the root hash is asked for until both agree.
CompareRootsAgain(t, same) ==
  /\ At(t, "compare") /\ ~Locked
  /\ Become(t, IF same
               THEN [tasks[t] EXCEPT !.at = "done",
                                     !.out = <<Log("other"), Reconciled(tasks[t].job[2])>>]
               ELSE [tasks[t] EXCEPT !.at = "hash"])
  /\ UNCHANGED applied

CompareRoots(t, same) ==
  /\ At(t, "compare") /\ ~Locked
  /\ Become(t, IF same
               THEN [tasks[t] EXCEPT !.at = "done",
                                     !.out = <<Log("other"), Reconciled(tasks[t].job[2])>>]
               ELSE [tasks[t] EXCEPT !.at = "tree"])
  /\ UNCHANGED applied

TreeReply(t) ==
  /\ At(t, "tree")
  /\ Become(t, [tasks[t] EXCEPT !.at = "diff"])
  /\ UNCHANGED applied

RequestFails(t) ==
  /\ At(t, "hash") \/ At(t, "tree")
  /\ Become(t, [tasks[t] EXCEPT !.at = "failed", !.out = <<Log("failed")>>])
  /\ UNCHANGED applied

\* The files found different are fetched one after the other.
Diff(t, files) ==
  /\ At(t, "diff") /\ ~Locked
  /\ Become(t, [tasks[t] EXCEPT !.at = "next", !.out = <<Log("other")>>,
                                !.todo = files, !.offered = files])
  /\ UNCHANGED applied

\* A notification's decision is taken under the lock: reject, fetch the version, or a
\* conflict, which is reported when its fetch has ended; the side that does not give way
\* fetches the other's version to a path of its own.
Decide(t, outcome, to) ==
  LET f == tasks[t].job[2] IN
  /\ At(t, "decide") /\ ~Locked
  /\ outcome # "conflict" => to = f
  /\ Become(t, IF outcome = "reject"
               THEN [tasks[t] EXCEPT !.at = "done"]
               ELSE [tasks[t] EXCEPT !.at = "next", !.todo = {to},
                       !.after = IF outcome = "conflict" THEN <<OnFile("conflict", f)>> ELSE <<>>])
  /\ UNCHANGED applied

Continues(t) == At(t, "next") \/ At(t, "reported")

\* fetch_and_apply begins.
FetchNext(t, f) ==
  /\ Continues(t) /\ ~Locked /\ f \in tasks[t].todo
  /\ Become(t, IF f \in Excluded
               THEN [tasks[t] EXCEPT !.at = "next", !.todo = @ \ {f}]
               ELSE [tasks[t] EXCEPT !.at = "chunks", !.todo = @ \ {f}, !.path = f,
                                     !.out = <<OnFile("started", f)>>])
  /\ UNCHANGED applied

\* Chunks arrive and are reported; the file may turn out too large.
ChunksReply(t, fits) ==
  /\ At(t, "chunks")
  /\ Become(t, [tasks[t] EXCEPT !.out = <<OnFile("chunk", tasks[t].path)>>,
                                !.at = IF fits THEN "write" ELSE "next",
                                !.missed = IF fits THEN @ ELSE @ \cup {tasks[t].path}])
  /\ UNCHANGED applied

\* Mutant: the front end is told.
TransferFailsAloud(t) ==
  /\ At(t, "chunks") \/ At(t, "write")
  /\ Become(t, [tasks[t] EXCEPT !.at = "next", !.missed = @ \cup {tasks[t].path},
                                !.out = <<Log("failed")>>])
  /\ UNCHANGED applied

\* The request or the write fails, which the front end is not told.
TransferFails(t) ==
  /\ At(t, "chunks") \/ At(t, "write")
  /\ Become(t, [tasks[t] EXCEPT !.at = "next", !.missed = @ \cup {tasks[t].path}])
  /\ UNCHANGED applied

WriteFile(t) ==
  /\ At(t, "write")
  /\ Become(t, [tasks[t] EXCEPT !.at = "index"])
  /\ UNCHANGED applied

\* Mutant: the lock is released before the front end is told.
IndexFileUnlocked(t) ==
  LET f == tasks[t].path IN
  /\ At(t, "index") /\ ~Locked
  /\ applied' = [applied EXCEPT ![f] = "received"]
  /\ Become(t, [tasks[t] EXCEPT !.at = "next", !.out = <<OnFile("received", f), Synced(f)>>])

\* The index takes the file, and the lock is held until the last event is sent.
IndexFile(t) ==
  LET f == tasks[t].path IN
  /\ At(t, "index") /\ ~Locked
  /\ applied' = [applied EXCEPT ![f] = "received"]
  /\ Become(t, [tasks[t] EXCEPT !.at = "reported", !.out = <<OnFile("received", f), Synced(f)>>])

RemoveFile(t) ==
  LET f == tasks[t].job[2] IN
  /\ At(t, "remove") /\ ~Locked
  /\ applied' = [applied EXCEPT ![f] = "removed"]
  /\ Become(t, [tasks[t] EXCEPT !.at = "reported", !.out = <<OnFile("removed", f)>>])

\* Mutant: the end is reported whatever is left to fetch.
EndTaskEarly(t) ==
  /\ Continues(t)
  /\ Become(t, [tasks[t] EXCEPT !.at = "done",
                  !.out = IF tasks[t].job[1] = "reconcile"
                          THEN <<Log("other"), Reconciled(tasks[t].job[2])>>
                          ELSE tasks[t].after])
  /\ UNCHANGED applied

EndTask(t) ==
  /\ Continues(t) /\ tasks[t].todo = {}
  /\ Become(t, [tasks[t] EXCEPT !.at = "done",
                  !.out = IF tasks[t].job[1] = "reconcile"
                          THEN <<Log("other"), Reconciled(tasks[t].job[2])>>
                          ELSE tasks[t].after])
  /\ UNCHANGED applied

TaskStep(t) ==
  \/ TaskSends(t) \/ HashReply(t) \/ TreeReply(t) \/ RequestFails(t)
  \/ \E same \in BOOLEAN : CompareRoots(t, same)
  \/ \E files \in SUBSET File : Diff(t, files)
  \/ \E outcome \in {"accept", "conflict", "reject"}, to \in File : Decide(t, outcome, to)
  \/ \E f \in File : FetchNext(t, f)
  \/ \E fits \in BOOLEAN : ChunksReply(t, fits)
  \/ TransferFails(t) \/ WriteFile(t) \/ IndexFile(t) \/ RemoveFile(t) \/ EndTask(t)

LoopStep == LoopSends \/ EngineStarts \/ SpawnReconcile

\* What the network and the machine do to the engine.
Happening ==
  \/ EngineDies
  \/ \E p \in Peer : PeerDiscovered(p) \/ PeerDisconnected(p)
  \/ \E note \in Notifiable : Notification(note)

EngineStep == LoopStep \/ Happening \/ (\E t \in DOMAIN tasks : TaskStep(t))

EngineTypeOK ==
  /\ engine \in {"starting", "up", "dead"}
  /\ loopOut \in Seq(Event) /\ spawns \in Seq(Peer)
  /\ near \subseteq Peer
  /\ tasks \in Seq(Task) /\ Len(tasks) <= MaxTasks
  /\ ui \in Seq(Event) /\ Len(ui) <= ChannelCapacity
  /\ applied \in [File -> {"nothing", "received", "removed"}]

=============================================================================
