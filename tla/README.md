# Verification of p2sync

p2sync keeps a folder the same on several machines without a server. Each peer
indexes its folder into a Merkle tree, watches it for changes, gossips every change
with a vector clock, fetches the chunks of what other peers announce, and compares
whole trees with every peer it meets.

This directory holds TLA+ models of that machinery, TLC configurations that check
them on small instances, and proofs, checked by TLAPS, of the theorems that hold for
every instance. Paths below are relative to the repository's `src/`; `SE` stands for
`crates/p2sync-net/src/sync_engine.rs`, `SW` for `crates/p2sync-net/src/swarm.rs`, `CF`, `IX`,
`MK`, `WT` for `conflict.rs`, `index.rs`, `merkle.rs`, `watcher.rs` of `crates/p2sync-core/src`.

## 1. The system

| Component | State | Operations | Talks to |
|---|---|---|---|
| Vector clocks, `CF` | a clock: peer id to counter | `new`, `tick`, `merge`, `compare`, `resolve`, `conflict_filename` | called by the index and the engine |
| Sync index, `IX` | Merkle tree, metadata (clock, time, author) by path, tombstones | `build`, `local_file_changed`, `local_file_deleted`, removal and update by the engine | shared behind one tokio mutex by the engine loop and its tasks |
| Merkle tree, `MK` | nested nodes with hashes | `from_path_configured`, `insert_node`, `remove_path`, `diff` | part of the index, sent whole to peers by `GetTree` |
| Chunking, `chunk.rs` | none | fixed-size chunks with a Blake3 hash each | index, engine |
| Watcher and bridge, `WT`, `SE` 254-287 | two queues; the bridge is an OS thread | raises Created/Modified/Removed, drops excluded paths and the engine's own writes | the engine's bounded channel |
| Sync engine, `SE` | write guard (3 s), debounce (500 ms), one task per notification and per reconciliation | `handle_fs_event`, `handle_notification`, `fetch_and_apply`, `handle_inbound_request`, `reconcile` | index, disk, network handle, front end |
| Network loop, `SW` | bounded command and event channels, `pending_requests` | a select over swarm events and commands | libp2p, the engine |
| Protocol, `protocol.rs` | none | the messages and their encodings | network, engine |
| Process life, `main.rs` | a key pair made anew at every start; in `fetch`, whether the target connected and a timer | `share`, `sync`, `fetch`, `relay` | starts the rest; `fetch` ends on the engine's events |
| Terminal interface, `tui.rs` | peers, transfers, journal | `handle_event`, `run_loop`, drawing | receives the engine's events over a bounded channel |
| CLI, configuration, libp2p behaviour, relay | arguments, constants | parse, construct | |

What is hard in it:

* **Concurrency.** Every notification and every reconciliation runs in a task of its
  own. The index lock is released before the fetch starts and taken again after the
  file is written, so decision, transfer, write and index update of one version
  interleave with those of another, with deletions, with the user and with the watcher.
* **Echoes.** The engine's own writes raise watcher events. Two time windows are meant
  to tell them from a user's edits; deletions are not covered by either.
* **Failure.** Notifications can be lost, requests time out, backup copies and writes
  fail, connections break and are made again, a machine returns with its folder and with a new
  identity and no clocks.
* **Ordering.** Gossip is relayed by peers that may not have the content yet; two peers
  reconcile with each other at once; wall clocks decide ties between concurrent edits.
* **Bounded queues.** Two loops await room in each other's channels. The engine and its tasks await
  room in the channel to the front end, some of them while they hold the index lock.
* **Ending.** `fetch` decides from a stream of events sent by several tasks whether all is done.

What makes each part correct: comparing clocks is comparing histories, and both ends of
a conflict name the same loser (clocks); tree and metadata agree, clocks never go back or
count edits that were not made (index, engine); bytes and chunks are never moved (transfer);
no peer's content comes into a read-only folder or to an excluded path, and no excluded path into
the index (engine; deletions and conflict copies of the folder's own files do reach excluded paths, and
`GetChunks` answers from the folder whatever it is asked for); after a round
of edits the folders agree and no edit is lost (group); the index follows the folder, conflict copies and moved files excepted, and
a difference is exactly what must be fetched (tree); each request has one reply and
the loops cannot block each other (network loop); what a front end
shows or returns is what happened (front end). `PROJECT.json` lists every hazard
with its line and the properties that watch it, or the configuration that shows the code exposed to it.

## 2. The modules

| Module | Models | Composes |
|---|---|---|
| `Conflict` | `CF`: clocks, comparison, `resolve` | |
| `Causality` | clocks as peers use them, against the history of edits each has seen | `Conflict` |
| `SyncEngine` | engine, index, watcher, gossip and transfer on every machine of a group | `Conflict`; implements `EditHistory` |
| `EditHistory` | what indexes promise about edits, abstractly | |
| `PacedSync` | `SyncEngine` when users and machines keep named assumptions | `SyncEngine` |
| `Chunks` | one file on its way, byte by byte: splitting, indices, limits, offsets | |
| `MerkleTree` | folders with directories: building, updating and comparing trees | |
| `NetworkLoop` | one node's two loops, its tasks and its two channels | |
| `EngineEvents` | what one engine and its tasks tell their front end, and the lock held meanwhile | |
| `FrontEnd` | the `fetch` command and the terminal interface | `EngineEvents` |
| `ConflictProofs`, `CausalityProofs`, `MerkleTreeProofs`, `NetworkLoopProofs`, `ChunksProofs`, `FrontEndProofs` | theorems | the module they are named for |
| `SyncEngineProofs` | theorems about `SyncEngine`: types, tree and metadata, clocks, read-only and excluded paths, where clocks and chunks come from, the refinement | `ConflictProofs` |
| `PacedSyncProofs` | theorems about `PacedSync`: types, that no edit is lost, and that folders converge | `SyncEngineProofs` |
| `MC*` | instances for TLC | |

### How the state and the actions correspond to the code

**Conflict, Causality.** A clock is a function from peers to naturals, zero for an
absent entry; `Compare` follows the two flags of `compare`, `Resolve` the branches of
`resolve` in order, with the timestamp and then the peer id as tie breaks. `Causality` gives
each replica a history variable, the set of edits its version includes, which no code
has, and asks that clocks say the same as histories. A version is applied there in one step, the
way `handle_notification` merges it when nothing interferes; the interference is
`SyncEngine`'s.

**SyncEngine.** The variables are indexed by peer id. `disk` is the folder; `tree`,
`meta`, `tombstones` the index; `guard`, `debounce` the two `EventGuard`s; `raw` and
`chan` the queues before and after the bridge thread; `gossip` the messages that travel with
the set of peers each has reached; `inbox`, `fetches`, `unindex`, `recon` the running
tasks, with a `pc` where they stop at an await; `met` who has been told of whom.
An action is what a handler does from one await to the next:

| Code | Actions |
|---|---|
| `run`, start | `BuildIndex`, `StartWatching` (edits between the two raise no event) |
| bridge thread | `BridgeDrops`, `BridgeForwards` |
| `handle_fs_event` | `DropFsEvent`, `SuppressFsEvent`, `IgnoreFsEvent`, `AnnounceChange`, `AnnounceRemoval` |
| `handle_notification` | `AcceptChange`, `RejectChange`, `LoseConflict`, `WinConflict`, `RemoveFile` then `Unindex` |
| `fetch_and_apply` | `StartFetch`, `ServeChunks`, `Assemble`, `WriteFile`, `IndexFile`, `RequestFails`, `WriteFails` |
| `reconcile` | `Discover`, `ServeRootHash`, `CompareRoots`, `ServeTree`, `DiffTrees`, `FetchNext`, `ReconcileComplete`, `ReconcileFails` |
| users, machines, network | `UserWrite`, `UserRemove`, `UserMoveAway`, `Pause`, `Restart`, `Disconnect`, `Relay`, `LoseGossip` |

**PacedSync** adds rounds. In a round users edit, everything they did is announced, and then the
notifications travel; the next round starts when nothing is under way and both windows
have ended. Its named assumptions can be dropped one at a time:
`prompt` (an edit is announced before a notification of the round arrives), `quiet` (nobody edits
while the group synchronises), `once` (a user edits a file once a round; `patient` is
the weaker form, not again within the debounce window) and `single` (a file
deleted in a round is not edited in it). The clocks may disagree by a constant.

**MerkleTree** keeps a tree as a map from paths to a content, `Dir` or `None`. A hash stands for
what it is computed from, with the one coincidence the code has: an empty file and a
directory without children both hash no bytes. The user's steps and the two handlers
are actions; an event is handled any time after it is raised, on the folder as it is
then. Peers' changes are a small set `Remote`: a fetched file makes its missing directories
(`MakeAbove`), is marked (and before, if a notification was accepted) and written (`WriteFile`, or `WriteFails` where something stands in the
way) and is indexed later (`Apply`); a deletion removes a file (`DeleteFile`) and the index entry later.
When a conflict is lost the file is copied aside first (`LoseConflict`). `BackupName` are the names that contain `.conflict.`:
`HandleChanged` skips their events, a user's and the engine's (`SE` 675), while a scan (`Build`) and a fetch (`Apply`) index such files.
`UserMoveAway` is a rename out of the folder or within it, which the watcher reports as a modification (`WT` 39) of what is
no file any more (`SE` 681); `Movable` are the paths it may happen to.
`Patient` and `Spaced` say what users and peers' changes leave alone. `Pulled` is what `diff` and `fetch_node_recursive` together fetch.

**NetworkLoop** has the two loops, each either at its select or inside one awaited send, the
two channels, the fetch tasks and `pending_requests`.

**EditHistory.** What the indexes of a group promise, without clocks, messages, transfers and
conflicts: an index holds files and knows a set of edits of each. While it holds a file the set only grows, by an
edit of its own (`Edit`) or by edits that were announced (`Learn`); a deletion drops file and set together,
the end of a process drops all. `SyncEngine!ImplementsHistory` maps a clock to the set of edits it counts
(`held <- heldBar`, `known <- knownBar`, `announced <- issued`); of the engine's actions only `BuildIndex`, `AnnounceChange`,
`AnnounceRemoval`, `IndexFile`, `Unindex` and `Restart` are steps of it, all others stutter.

**Chunks.** The asker's file, the source's file, and the transfer: `Ask`, `Serve`, then `SkipChunk`,
`LayChunk` or `GiveUp` for each chunk, then `Write`; both users may write in between. The limits on indices
differ between the peers. `OverlayByChunk` says when `SyncEngine` may take a
content for a sequence of chunks: when the last chunk that arrives is whole, or reaches as far as
the old file; otherwise the last chunk of the result is a mixture.

**EngineEvents, FrontEnd.** `loopOut` and the `out` of a task are the sends it has still to make
before it goes on; `ui` is the channel. `Locked` is the index lock as it is held across
sends (`SE` 519, 641-651); shorter critical sections are single actions that ask for `~Locked`.
A conflict makes a task fetch the path itself or another one, its
conflict copy. `FetchEvent` is the `select!` of `run_fetch`, `TerminalEvent` is `AppState::handle_event`; `FetchGivesUp` is the timer
and ctrl-c, `Quit` the key q. The rows of the transfer table are kept as the set of their paths, since `retain` takes all rows of a path away at once. Transfers are abstract: each step may succeed or fail.

### Abstractions

* In `SyncEngine` a content is a short sequence of chunks, in `Chunks` a sequence of bytes; a hash is the content.
  Collisions do not happen. A chunk of `SyncEngine` is a unit: `ChunksInPlace` is about whole chunks. In the code a short last chunk laid over a
  longer one leaves a mixture of the two (`SE` 597), which is what `OverlayByChunk` excepts.
* `SyncEngine` has no directories; `MerkleTree` has directories and no clocks, and a peer's file arrives there whole.
* `EngineEvents` leaves out the events of local changes, `Listening` and a peer that does not pull: no front end
  decides anything on them.
* A window of time ends at any moment (`Expired`, `Pause`, `WindowEnds`). In
  `PacedSync` a write-guard window is never over before the event it is there for, which is what three seconds are for.
* `local_file_changed` reads the file once and `handle_fs_event` reads it again for the
  notification; the model reads once.
* The index lock is held across no request and no transfer, so in `SyncEngine` a critical section is
  one action. It is held across the sends to the front end, which `EngineEvents` models (`Locked`); a front end
  that keeps receiving only delays the others.
* `fs::write` and `fs::copy` are one step.
* `GetSubtree` and `GetFileMeta` are answered by the code and asked by nobody.

### Bounds

`MaxOps` bounds the steps of users and machines, `MaxIssued` the changes of one file one
peer announces (a guard of `AnnounceChange`, so that an endless echo shows as an unsettled group
and not as an endless run), `MaxRounds` the rounds, `MaxSkew` the difference
between clocks, `MaxDepth` the depth of a folder, `MaxEdits` the edits of `Causality`, `MaxLocal`,
`Task` and `Call` the load of `NetworkLoop`, `MaxLength` a file of `Chunks`, `MaxTasks` the tasks
of `EngineEvents`. `MaxChunkIndex`, `MaxIndexes`,
`MaxFileSize`, `MaxLogLines` and `ChannelCapacity` are the code's own limits, made small enough to be hit.

## 3. What TLC checks

Runs that pass:

| Run | Instance | What it shows |
|---|---|---|
| `causality` | 3 peers, 4 edits, 2 timestamps | `ClockIsHistory`: one clock dominates another exactly when one history includes the other. `BothEndsAgree`: two versions are judged consistently at both ends, whatever the timestamps. |
| `engine_edits` | 2 peers, 1 file of one or two chunks, 2 edits, with writes, removals, moves, losses and failures | `TreeMatchesMeta`, `NoInventedEdits`, `ChunksInPlace` and the refinement `ImplementsHistory` under every interleaving |
| `engine_reconcile` | 2 peers, one without the file, edits, disconnections and failed requests | `TypeOK`, `TreeMatchesMeta`, `ChunksInPlace`, `ClocksOnlyGrow` for reconciliation, which carries empty clocks |
| `engine_restart` | 2 machines and a spare identity, `MaxChunkIndex` 1 | `NoInventedEdits` and `ImplementsHistory` when a machine returns under a new identity while messages about its edits travel |
| `engine_modes` | 3 peers: one `share --readonly` with another version, one that edits, one that excludes the shared file and does not push | `ReadonlyFolderKept`: notifications, deletions and reconciliation all leave its folder alone. `ExcludedNotIndexed`: the scan keeps an excluded file out of the index. `ExcludedNotWritten`: no peer's content comes to it; what the run does to it is to apply a deletion |
| `paced_rounds` | 2 peers that start alike or one of them empty, 3 edits in 2 rounds, clocks up to 1 apart | under the four assumptions, `Convergence`: a settled round leaves one folder (`FoldersAgree`), of each file the latest edit (`LatestWins`), and indexes of it (`IndexAgrees`); `EditKept`; `RoundsSettle` (liveness) |
| `merkle` | 3 names, one of them excluded and one that of conflict copies, depth 2, 4 steps of the user or changes of peers (a file in the directory, one in its place, a deletion, a lost conflict); conflict copies and hidden files are moved away | `IndexIsFolder`: when all events are handled the index is, but for conflict copies, what a scan would make it. `DiffExact`: a reconciliation fetches exactly what is lacking, at every moment |
| `front_end` | `fetch` and the terminal; 2 peers, 1 file, 2 tasks, a channel with one place | `ReportsFollowIndex`, `SuccessIsWhole`, `ErrorHasCause`, `RowsAreFetches`, `PanelIsNear`; `TasksEnd` and `FetchEnds` (liveness) |
| `chunks` | all pairs of files of up to 4 bytes, chunks of 2, index limits 1 and 2, size limit 3 | `BytesInPlace`: the bytes that arrive stand where they stood, and nothing else changes. `OverlayByChunk`, `HashIsContent`: chunks and hashes stand for contents. `SizeRespected` |
| `network_roomy` | 2 tasks, 2 calls, 1 local change, capacity 2 | `OneReplyEach`, `LoopsNotBlocked`, `EverythingAnswered` (liveness) |

Why the bounds are enough: the hazards need two versions of one file under way at once, a
deletion between them, or an echo after each. Two peers and two edits reach all of those;
a third peer matters for relaying and for identities, and the runs about those have
one. Two chunks tell a mixture of versions from a version and a shorter from a longer file. A file, a directory
and something hidden in it, with four steps, are enough to turn a file into a
directory with a file in it while the events of the first change wait; the conflict copy of each lies beside it.
The excluder of `engine_modes` does not push and excludes no conflict copy, so that the watcher's and the handler's checks of exclusion, and
the conflict copy in `ExcludedNotWritten`, are met by the proofs alone: a fourth peer makes the instance too large. Five commands over two channels
of capacity two are the largest load that cannot fill both channels and leave both loops sending; for other
capacities that is proved. A channel with one place makes every sender wait in `front_end`, and two tasks are
enough to report about one file in either order; with two files, one of them excluded and one with the word
`failed` in its name, the invariants hold too (`MCFrontEndFiles.cfg`, 2.2 million states, safety only). Files of two chunks, the last of them whole or not,
are the shortest in which an offset, a limit and a partial chunk can be wrong.

Deadlock is checked in `network_roomy`, `network_full`, `front_end` and `chunks`, whose only terminal states are
`Done` and `Ended`; a transfer of `chunks` can always begin again. The other instances stop when their bounds are used up.

### Fairness

`PacedSync` assumes weak fairness of each peer's watcher and bridge, of the delivery of
notifications and discoveries, and of its tasks: the operating system runs the
threads, tokio every ready task, and nothing is lost in that module. Users and rounds owe nothing.
`FrontEnd` assumes weak fairness of the front end, the engine loop and each task, all of which are tokio tasks
that are polled while they can go on; the requests inside them end by a response or a timeout. The timer of `fetch`, the user and the network owe
nothing. `NetworkLoop` assumes weak fairness of each loop and of each task, which are separate
tokio tasks; a request ends by a response or by libp2p's timeout. `Causality`, `SyncEngine`,
`MerkleTree` and `Chunks` are about safety and assume no fairness.

## 4. What is proved

All theorems hold for every value of the constants that meets the named assumptions of
the modules: any number of peers, files, chunks and steps, any folders to start from.

| Theorem | States |
|---|---|
| `ConflictProofs!ResolveAgreement` | for concurrent clocks exactly one end of a conflict gives way; otherwise one accepts exactly when the other rejects a strictly older version |
| `CausalityProofs!CausalityTypeCorrect`, `!ComparisonIsCausality`, `!EndsAgree` | `[]TypeOK`, `[]ClockIsHistory`, `[]BothEndsAgree` |
| `SyncEngineProofs!TypeCorrect` | `[]TypeOK` |
| `SyncEngineProofs!TreeAndMetaAgree` | `[]TreeMatchesMeta` |
| `SyncEngineProofs!ClocksNeverGoBack` | `ClocksOnlyGrow` |
| `SyncEngineProofs!ReadonlyFoldersKept` | `ReadonlyFolderKept` |
| `SyncEngineProofs!ExcludedNeverWritten` | `ExcludedNotWritten`: only an announced deletion and the conflict copy of a file of the same folder change an excluded path by the engine's hand |
| `SyncEngineProofs!ExcludedStaysPrivate` | `[]ExcludedNotIndexed`: neither hashes, trees nor announcements show an excluded path; of `GetChunks` it says nothing |
| `SyncEngineProofs!EditsAreReal` | `[]NoInventedEdits` |
| `SyncEngineProofs!ChunksStayInPlace` | `[]ChunksInPlace`, for contents of whole chunks |
| `SyncEngineProofs!ClocksImplementHistory` | `ImplementsHistory`: the engine implements `EditHistory` |
| `PacedSyncProofs!PacedTypeCorrect` | `[]PacedTypeOK`, under whatever assumptions are made |
| `PacedSyncProofs!EditsKept` | `[]EditKept`, given `Careful`, `OpenGroup`, `TwoPeers` and `CopiesApart` |
| `PacedSyncProofs!FoldersConverge` | `[]Convergence`, given these four and `OneSize`, `Linked` and `OneVersion` |
| `NetworkLoopProofs!NetworkTypeCorrect`, `!EveryRequestHasItsReply` | `[]TypeOK`; `[]OneReplyEach` for any number of tasks and calls |
| `NetworkLoopProofs!RoomyLoopsNeverBlock` | `[]LoopsNotBlocked`, for finitely many tasks and calls and `InitialLoad <= 2 * ChannelCapacity + 1` |
| `MerkleTreeProofs!TreesStayTrees` | `[]TypeOK`: what `insert_recursive` and `remove_recursive` leave is a tree |
| `MerkleTreeProofs!PulledExactly`, `!ReconciliationExact` | for any two trees the fetched files are exactly the lacking ones; `[]DiffExact` |
| `MerkleTreeProofs!IndexCatchesUp` | `[]IndexIsFolder`, given `Patient`, `MovesAside` and `Spaced` |
| `ChunksProofs!ChunksTypeCorrect`, `!SizeIsRespected` | `[]TypeOK`; `[]SizeRespected`, whatever the two chunk sizes |
| `ChunksProofs!HashesTell`, `!BytesArriveInPlace`, `!ChunksStandForBytes` | `[]HashIsContent`, `[]BytesInPlace`, `[]OverlayByChunk`, given that both peers have one chunk size |
| `FrontEndProofs!FrontEndTypeCorrect` | `[]TypeOK` |
| `FrontEndProofs!ReportsAreTrue`, `!SuccessMeansWhole`, `!ErrorMeansFailure` | `[]ReportsFollowIndex`, `[]SuccessIsWhole`, `[]ErrorHasCause` |
| `FrontEndProofs!RowsStandForFetches`, `!PanelShowsConnections` | `[]RowsAreFetches`, `[]PanelIsNear` |

Some hypotheses are not assumptions of a module but of single theorems. The code checks none of them.

* `Patient`, `MovesAside` and `Spaced` of `IndexCatchesUp` (`MCRecreated.cfg`, `MCMoved.cfg` and `MCDirectoryDeleted.cfg` drop one each).
  `MovesAside` says that users move away nothing but conflict copies and what is hidden: a followed file that is renamed stays in the index.
* `SameSize`, the one chunk size (`MCChunkSizes.cfg` drops it, and TLC refutes `BytesInPlace` and `HashIsContent`):
  `chunk_size` is each peer's own configuration and no message carries it.
* `Careful` of `EditsKept` and `FoldersConverge`: the users keep `prompt`, `quiet`, `once` and `single`. `MCNotPrompt.cfg`, `MCNotQuiet.cfg` and
  `MCSavedTwice.cfg` drop one of the first three, and TLC finds an edit lost. `single` is used too: with it nobody
  announces a deletion of a file that another wrote.
* `TwoPeers`: with three who edit one file, a second lost conflict copies what the first one fetched over the copy of the user's version.
  `MCPacedRounds.cfg` with `Peer = {1, 2, 3}`, run with `tlc -simulate`, shows it within a second.
* `OpenGroup`: every process runs throughout, and nobody excludes, or declines to send or receive, anything.
* `CopiesApart`: the conflict copies of two files have different names. `conflict_filename` inserts `.conflict.` and eight digits
  before the part behind the last dot (`CF` 219-228), from which the file's name can be read back; the copies of one file may share their name, and in the code do.
* `OneSize`, of `FoldersConverge` alone: all versions of all files have the same number of chunks, within the limits of a transfer. The run `shorter_file` drops it and
  `FoldersAgree` is violated. The theorem is thus about files edited in place; of files that grow it says nothing, and neither does the prover.
* `Linked`: there is another peer, and a connection to it.
* `OneVersion`: at the start a file may be missing in a folder and is otherwise the same in both (`MCSwap.cfg` drops it: two
  peers that meet with different versions may swap them). If the two have met before, neither lacks a file of the other, as they reconcile once.

The instance of `paced_rounds` meets all of them.

The arguments:

* **Causality.** `ClockIsHistory` compares pairs and is not inductive. The invariant
  `HistoryInv` says more: a replica, or an announced version, has seen exactly the edits
  its clock counts. A tick then adds one edit, a merge of clocks is a union of
  histories, and comparing clocks is set inclusion.
* **SyncEngine, types.** `TypeOK` is inductive because `Reconcile` carries a constraint
  beyond the fields: everything in `todo` exists in the tree that was received. Without it
  `FetchNext` could ask for the chunks of a file that is not there.
* **SyncEngine, frames.** Of all the actions of `Next` few matter to one
  property: a frame lemma names those that can change an index, a folder, a
  message or a task (`IndexFrame`, `WriterFrame`, `GossipFrame`, `TaskFrame`), and an
  origin lemma says where a message, a delivery, a fetch or a content comes
  from (`NoteOrigin`, `DeliveryOrigin`, `FetchOrigin`, `ContentOrigin`).
* **SyncEngine, tree and metadata.** Inductive with `TypeOK`: `AnnounceChange`, `IndexFile` and `Forget`
  each change both halves of the index in one step. The steps around them are not together (a deletion
  removes the file first and the index entry later, a fetch may end after either), which is harmless
  to the agreement of the two halves because every step that touches one writes both, whatever it finds there.
* **SyncEngine, clocks.** A clock may be forgotten (a deletion, a restart) and never go
  back while the file stays. A process that is not running has no index
  (`NoIndex`), which is what a restart needs.
* **SyncEngine, read-only.** A peer that does not pull would write what a task told it to. The
  invariant `NothingToPull` says that there is none: nothing in its `inbox`, no fetch, and no `todo` in a
  reconciliation, which it does run.
* **SyncEngine, excluded paths.** No fetch is of an excluded path (`NoExcludedFetch`),
  since `fetch_and_apply` checks its path once, at the start, and never changes it. Then only a conflict
  copy or a deletion can touch an excluded path on disk, and only a scan or a local change could put it in
  the index.
* **SyncEngine, honest clocks.** `EditsAnnounced` adds the deliveries that wait to be
  handled: a fetch takes its clock from one of them, the index from a fetch. Only
  `AnnounceChange` adds an edit to a clock, and it counts the edit in the same step; everything else copies
  clocks, merges them or forgets them. The announced count survives a restart, the clocks do not.
* **SyncEngine, chunks.** `DataInPlace` adds the data of running fetches. A response is a prefix of some
  file (`ServedPrefix`), laying one content over another moves nothing (`OverlayInPlace`), and a content
  on disk was on a disk before, is written by a user, or was fetched.
* **Refinement.** With the types and `EditsAnnounced`, each action that touches an index or the counts is shown to be one
  action of `EditHistory` under the mapping, and every other action to leave the mapped state
  alone. A tick is `Edit` because an author's own count is at most what it announced, so the edit that is added is
  the next one its clock lacks; merging is `Learn` because the merged clock was announced.
* **PacedSync, edits.** `EditKept` speaks of settled rounds; the invariant `RoundInv` says where each edit is at every moment.
  Its last-but-one part, `Safe`, is what one wants: what the user left stands in the file and nothing is fetched over it, or it is in the
  copy and nothing will be copied over that. A file a user wrote is fetched over only after a lost
  conflict, and to see that a notification that arrives is never simply newer takes the rest. `Ahead`: no notification of the round knows
  the change the peer has announced itself. That needs `Own` (nobody counts more changes of a peer than the peer), which holds of files that were
  not removed, since a removal sets its author's count back to zero; hence `Forgets`: before the round is
  over every index has forgotten a removed file. `OneNews`: for each peer and file at most one change is on its way, as a notification, a task or a fetch,
  so the copy is made once and a fetch under way is never raced by another. That needs `ToldOnce`: an edit raises one event and no window swallows it.
  `Echoes` says that the engine's own writes are never announced, `NoChanges` and `NoRemovals` that nothing travels about a
  file nobody wrote or removed, and `Working`, `Begun`, `Authors`, `OneEdit` and `AllUp` what the rounds themselves give.
  The proof first reduces every action to what it does when the invariant holds (`EngineStep`, `RoundStep`: `Rests`, `Moves`,
  `Tells`, `Arrives`, `FetchesOver`, ...), and then keeps the parts one by one; TLC checked each part, on the instance of
  `paced_rounds` and for two files and four edits, before it was proved. A copy is taken to succeed, as nothing fails in `PacedSync`.
* **PacedSync, convergence.** `Convergence` too speaks of settled rounds. Its invariant `AgreeInv` adds to `RoundInv` where the version is
  that will be in every folder. Before the first round (`Meeting`) that is the version of whoever holds the file: the other lacks it and asks for it, and nobody asks back.
  A round starts with one version of a file and with clocks that are ordered (`Untouched`). They need not be equal: the winner of a conflict
  does not merge the loser's clock (`SE` 485), so that the loser has seen more than the winner; `Covers` bounds what it has seen more by the winner's time, which it took over.
  Hence a change that is announced is newer than what the other has, or later (`Published`). When the edits are over, the version
  of the peer that `Prevails` stays where it is, and every other peer `Takes` it: it will hear of it and give way, or fetches it, or has it (`Decided`). A removal is on its
  way to every folder that has the file (`Vanishes`), and what counts as removed is (`Emptied`). `Follows` says who will bring an index up to its folder.
  `Standing` ties the version that stays to the edit it came from, which gives `LatestWins`. `Sized` is what `OneSize` is for: a transfer leaves the version that was served and no mixture.
  The effects of the actions (`EngineStep`, `RoundStep`) are reused, with what each does to clocks, times and indexes besides; TLC checked `AgreeInv`, on the instance of
  `paced_rounds` and on a larger one, before the proof.
* **Network loop.** `OneReplyEach` counts requests and replies together and needs to know where each is: `OneNotice`
  says that a task that has not begun has exactly one notification arriving, being sent or queued, `OneRequest` that a
  waiting task has exactly one request, queued or pending. For the loops, `LoadKept` says that what is under way never
  exceeds the load to start with; both loops sending into full channels need two full channels
  and one message in each loop's hands, `2 * ChannelCapacity + 2`. `network_full` shows that this many is enough to block them.
* **MerkleTree.** A tree is closed upwards: what exists stands in a directory. `Insert` keeps
  that because it makes the missing directories and empties what is below the new file. For `DiffExact`,
  a file that differs is found at the outermost path on the way to it that is not a directory in both trees;
  that path exists because strict inclusion of finite sets is well founded, and the
  hashes differ on the whole way down to it.
* **MerkleTree, the index and the folder.** `IndexIsFolder` speaks of the moment when nothing waits, and of all paths but conflict copies. Its invariant
  `IndexInv` says what waits for whom at every other moment. `Awaited`: for every file, hidden ones and conflict copies apart (`Followed`), that the index has not, or has otherwise, an
  event waits that no window will suppress, or a task holds the change. `Forgotten`: for all metadata without
  a file a removal waits, or a task holds it. A queue can undo what it did, so the order matters: behind a waiting removal that
  would take an existing file out of the index there is an event that brings it back (`RemovedFirst`), and behind the event of what exists
  there is no removal of it (`ChangedLast`). Without the last, an event could be handled while a file that
  is gone stands in its way in the tree, and `insert_recursive` would drop it. `Apart`, `Alone` and `Stands` say that the path of a task in hand is its own.
  Each handler is shown to keep these conjuncts; TLC checked `IndexInv` on the instance of `merkle`, with up to five
  steps, before the proof. A put (`PutKeeps`) and a removal (`CutKeeps`) are proved once for the user's and the engine's.
* **Chunks.** The invariant `Progress(k)` gives the buffer after k chunks: the first
  `Reach(k)` bytes of what was served over what was read. The step from k to k + 1 is arithmetic about where a chunk
  begins and ends (`First`, `Last`, `Width`), where the last chunk may be short. `HashesTell` puts a file together again from
  its chunks; `ChunksStandForBytes` compares two chunk sequences place by place, with the mixed last chunk as the excluded case.
* **Front end.** A report travels through a task's `out`, the channel and the front end's state, and each invariant
  follows one kind of event along that way. `IndexTold`: what the index did last to a file is the last report of it, wherever on
  the way it is, because at most one task is reporting (`OneReporter`), which is what holding the index lock across the sends is for.
  `FilesTold` and `EndsTold`: a reconciliation's end stands behind the reports of all its files, in the
  task and in the channel. `FailuresTold`, `SyncedTold`: an error in the channel has its cause behind it. `RowsLive`: a row has a fetch that runs
  or an end that comes; with two fetches of one path the later end still comes. `PeersTold`: the last event about a peer agrees
  with the connection.

Only model-checked:

* Liveness (`RoundsSettle`, `EverythingAnswered`, `TasksEnd`, `FetchEnds`), which is beyond the prover.

Every invariant and action property that a passing run checks is proved as well. `ENABLED` occurs in no theorem.

## 5. Where the code and its documentation disagree

Two runs state what the documentation promises and are refuted by TLC
(`findings` in `PROJECT.json`):

| Run | Property | What happens |
|---|---|---|
| `shorter_file` | `FoldersAgree` | `SE` 594: chunks are laid over the old bytes, which are never truncated; a file made shorter keeps its old tail on the others (`README.md:11`) |
| `network_full` | `LoopsNotBlocked` | `SE` 415, `SW` 371: with both channels full the loops wait for each other for ever (`SE` 350) |

Further configurations are kept beside them, each for one assumption or one promise. Run
them with `tlc -config <cfg> <module>`; all but `MCFrontEndFiles.cfg`, a larger instance that passes, end with the named property violated (`MCFrontEndPromises.cfg`
and `MCChunkSizes.cfg` name several: add `-continue` to see each refuted).

| Configuration | Module, property | What it shows |
|---|---|---|
| `MCExcludedDeleted.cfg` | `MCSyncEngine`, `ExcludedFileKept` | `SE` 512: a deletion is applied to a path this peer excludes (`README.md:72`, `README.md:127`) |
| `MCReceiveOnly.cfg` | `MCSyncEngine`, `LocalChangesNotServed` | `SE` 384: a `sync --readonly` peer serves chunks from disk, local edits included ("Receive only: don't push local changes to peers", `crates/p2sync/src/cli.rs:56`) |
| `MCMoveAway.cfg` | `MCSyncEngine`, `IndexCurrent` | `SE` 681: a file renamed away is reported as modified, is no file, and stays in the index (`README.md:60`) |
| `MCStartupEdit.cfg` | `MCSyncEngine`, `IndexCurrent` | `SE` 254: an edit between the scan and the start of the watcher is never noticed (`README.md:60`) |
| `MCWholeFile.cfg` | `MCSyncEngine`, `OnlyModifiedFetched` | a reconciliation asks for every chunk of a modified file (`README.md:59`) |
| `MCSwap.cfg` | `MCPacedSync`, `FoldersAgree` | two peers that meet with different versions fetch each other's at once and may swap them (`SE` 795) |
| `MCStaleRelay.cfg` | `MCPacedSync`, `FoldersAgree` | three peers in a line: a relayed notification is fetched from the neighbour, which still has the old content; the announced hash is not compared (`SW` 407) |
| `MCNotPrompt.cfg` | `MCPacedSync`, `EditKept` | without `prompt`: an edit whose event is still queued is overwritten as if it were the old version (`SE` 453) |
| `MCSwallowedEdit.cfg` | `MCPacedSync`, `FoldersAgree` | without `quiet`: an edit that follows the engine's write is taken for its echo and never announced (`SE` 665) |
| `MCNotQuiet.cfg` | `MCPacedSync`, `EditKept` | without `quiet`: an edit made while a fetch runs is overwritten without a backup copy (`SE` 617, `README.md:61`) |
| `MCNotPatient.cfg` | `MCPacedSync`, `IndexAgrees` | without `once` and `patient`: the debounce drops the second edit and nothing looks again (`SE` 670) |
| `MCSavedTwice.cfg` | `MCPacedSync`, `EditKept` | with `patient` in the place of `once`: a second notification, decided between the write and the index update of the first, copies the fetched version over the user's backup (`SE` 476, 617-622) |
| `MCNotSingle.cfg` | `MCPacedSync`, `FoldersAgree` | without `single`: a deletion is applied whatever the clocks, tombstones are never consulted (`SE` 512) |
| `MCBackupOverwritten.cfg` | `MCPacedSync`, `ConflictCopyKept` | the copy's name is the same for every conflict on a file: the ed25519 peer ids all start with the bytes it uses (`CF` 224) |
| `MCFalseConflict.cfg` | `MCPacedSync`, `ConflictsAreConcurrent` | the winner of a conflict does not merge the loser's clock, so its next edit looks concurrent again (`SE` 485) |
| `MCRecreated.cfg` | `MCMerkleTree`, `FilesIndexed` | a file edited, removed and made again within the debounce window: the removal is announced, the new file is not and stays out of the index (`SE` 670, `README.md:60`) |
| `MCMoved.cfg` | `MCMerkleTree`, `IndexIsFolder` | without `MovesAside`: a file renamed away stays in the index (`WT` 39, `SE` 681) |
| `MCDirectoryDeleted.cfg` | `MCMerkleTree`, `IndexIsFolder` | without `Spaced`: a deletion that names a directory takes the subtree out of the receiver's index, `remove_file` leaves the directory, and its files stay on disk (`SE` 512-516) |
| `MCChunkSizes.cfg` | `MCChunks`, `BytesInPlace`, `HashIsContent` | peers with different `chunk_size`: a chunk is laid at the receiver's offset, and equal files have different hashes (`SE` 577) |
| `MCFrontEndPromises.cfg` | `MCFrontEnd`, `TimeoutMeansUnconnected` | the timeout of `fetch` ("60s to connect to peer", `main.rs:195`) is never disarmed and ends a download that takes longer |
| | `SuccessHasAll` | `fetch` reports success and counts files whose transfer failed (`SE` 790) |
| | `ErrorIsTargets` | the reconciliation of another peer, or a path with `failed` in its name, ends `fetch` with an error (`main.rs:222`) |
| | `RowsLeave` | a failed transfer stays in the terminal's table for ever (`tui.rs` 135-144) |

`DeathEnds` in `FrontEnd.tla` is refuted in the same way when it is added as a PROPERTY to `MCFrontEnd.cfg`: an
engine that could not start leaves `fetch` waiting for its timer, and the terminal for its user.

The assumptions of `PacedSync` and `Patient`, `MovesAside` and `Spaced` of `MerkleTree` are thus each necessary, and
`paced_rounds` and `merkle` say what the code does give under them: `merkle` nothing about conflict copies, which
enter an index only by a scan or a fetch, nor about files that are moved away.

## 6. What is not modelled

* The command line and the configuration file, which are read once and become constants; the drawing
  of the terminal interface, the printing of `run_headless`, the relay command.
* libp2p: dialling, discovery, relaying, the gossip protocol itself. `Relay` and `Discover` are what its use in `SW` shows of it.
* A conflict copy that fails, in `PacedSync` (`SyncEngine` has it). It fails always for a file without an extension below a directory whose name has a dot:
  `conflict_filename` splits the whole path at its last dot, and the copy of `v1.2/Makefile` would lie in a directory that does not exist.
* Symbolic links, names that are not UTF-8, short peer ids that coincide.
* The matching of exclude patterns: `IX` 120 compares whole path components, where
  `crates/p2sync/src/cli.rs:52` says substring; the models start from the set of paths matched.
* A crash within `fs::write`; directories moved in with their contents, which raise one event.
* The `safe_path` checks (`SE` 21, 383, 432, 508, 533): the paths of the models all lie in the folder.
* A `remove_file` that fails on a file (`SE` 512): in `RemoveFile` and in `MerkleTree!DeleteFile` it fails on a directory only.
* Clocks on trees with directories: `MerkleTree` has the paths and `SyncEngine` the versions.

## 7. Plan

Done, in this order: `Conflict` and `Causality`; `SyncEngine`; `PacedSync`; `NetworkLoop`;
`MerkleTree` and their proofs; then `EditHistory` and the refinement, the proofs about `NetworkLoop`,
`EngineEvents` and `FrontEnd`, `Chunks`, and peers' changes in `MerkleTree`; then the proofs about `FrontEnd` and
`Chunks`, `IndexIsFolder`, `EditKept`, and last `Convergence`.

Left:

1. Convergence for files that grow, where the invariant has to order the versions of a file by length.
2. Restarts and partial writes in `PacedSync`; three writers, of whom a settled round does not keep every edit.
