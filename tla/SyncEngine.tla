----------------------------- MODULE SyncEngine -----------------------------
(***************************************************************************)
(* The sync engine of p2sync (p2sync-net/src/sync_engine.rs) on every      *)
(* machine of a group, with the index it keeps (p2sync-core/src/index.rs), *)
(* the filesystem watcher that feeds it and the network that connects it.  *)
(*                                                                         *)
(* A folder is a map from paths to contents; directories are left out.  A  *)
(* content is the sequence of its chunks.  A Blake3 hash stands for what it *)
(* is computed from: a tree, or the hash in a notification, is the content *)
(* itself.  Awaits are the only points where another task may run, so an   *)
(* action is what a handler does from one await to the next.               *)
(***************************************************************************)
EXTENDS Conflict, Sequences, FiniteSets

CONSTANTS
  File,             \* the files users work on
  Backup,           \* the conflict copies: paths that contain ".conflict."
  ConflictName,     \* conflict_filename: the backup of a file for a losing peer
  Chunk,            \* chunk payloads
  Version,          \* the contents a user may write
  Timestamp,        \* what now_secs() may return
  Link,             \* pairs of peers that have a connection
  NoPush,           \* peers run with no_push (sync --readonly)
  NoPull,           \* peers run with no_pull (share --readonly)
  Excluded,         \* Excluded[p]: the paths p's exclude patterns match
  MaxChunkIndex,    \* storage.max_chunk_index
  MaxFileSize,      \* storage.max_file_size, in chunks
  ChannelCapacity,  \* network.channel_capacity
  InitStatus,       \* the processes that run at the start
  InitDisks,        \* the folders the group may start from
  InitMet,          \* the peers that have already reconciled at the start
  None,             \* no file, no metadata
  Allowed,          \* which of these this instance explores
  MaxOps,           \* bound on edits, restarts and disconnections
  MaxIssued         \* bound on the changes of one file that one peer announces

Path == File \cup Backup

Content == Seq(Chunk)

Folder == [Path -> Content \cup {None}]

Status == {"unused", "off", "indexed", "up", "gone"}

ASSUME PathAssumption ==
  /\ File \cap Backup = {}
  /\ ConflictName \in [File \X Peer -> Backup]
  /\ Excluded \in [Peer -> SUBSET Path]

ASSUME ModeAssumption == NoPush \subseteq Peer /\ NoPull \subseteq Peer

ASSUME ContentAssumption ==
  /\ Version \subseteq Content
  /\ None \notin Content

\* What users, machines and the network may do to the group.
EnvMove == {"write", "remove", "move", "restart", "disconnect", "pause",
            "loss", "failure"}

ASSUME AllowedAssumption == Allowed \subseteq EnvMove

ASSUME BoundAssumption ==
  /\ Timestamp \subseteq Nat
  /\ MaxChunkIndex \in Nat
  /\ MaxFileSize \in Nat
  /\ ChannelCapacity \in Nat \ {0}
  /\ MaxOps \in Nat
  /\ MaxIssued \in Nat

ASSUME InitAssumption ==
  /\ InitStatus \in [Peer -> {"unused", "off", "up"}]
  /\ InitDisks \subseteq [Peer -> Folder]
  /\ InitMet \subseteq Peer \X Peer

VARIABLES
  status,      \* status[p]: the life of the process whose id is p
  disk,        \* disk[p]: the folder of p
  tree,        \* tree[p]: SyncIndex.tree, the content the index believes in
  meta,        \* meta[p]: SyncIndex.file_meta, clock and last_modified
  tombstones,  \* tombstones[p]: SyncIndex.tombstones
  guard,       \* guard[p]: paths the sync_write_guard suppresses
  debounce,    \* debounce[p]: paths the change_debounce suppresses
  raw,         \* raw[p]: watcher events not yet seen by the bridge thread
  chan,        \* chan[p]: the bounded channel from the bridge to the engine
  gossip,      \* published notifications and the peers that hold them
  inbox,       \* inbox[p]: spawned handle_notification tasks not yet started
  fetches,     \* fetches[p]: running fetch_and_apply calls
  unindex,     \* unindex[p]: deletions whose file is gone and whose index entry is not
  recon,       \* recon[p]: running reconcile tasks
  met,         \* pairs <<p, q>>: p has been told that q joined the group
  ops,         \* what the environment has done so far
  issued       \* history: how many changes of f were announced by p

folderVars == <<disk, raw>>
indexVars  == <<tree, meta, tombstones>>
windowVars == <<guard, debounce>>
netVars    == <<gossip, met>>
taskVars   == <<inbox, fetches, unindex, recon>>
vars == <<status, disk, tree, meta, tombstones, guard, debounce, raw, chan,
          gossip, inbox, fetches, unindex, recon, met, ops, issued>>

Meta == [clock : VectorClock, ts : Nat]

ASSUME NoneAssumption == None \notin Meta

FsEvent == [kind : {"changed", "removed"}, path : Path]

\* SyncNotification::FileChanged (data is its hash) and FileDeleted, which may
\* also be about a conflict copy.
Note ==
  [kind : {"changed"}, path : File, data : Content,
   clock : VectorClock, ts : Nat, peer : Peer]
  \cup
  [kind : {"deleted"}, path : Path, data : Content,
   clock : VectorClock, ts : Nat, peer : Peer]

Delivery == [source : Peer, note : Note]

\* A fetch_and_apply call: hash is the content announced for it, which the code
\* never compares with data; id is 0 when a notification started it.
Fetch == [pc : {"request", "assemble", "write", "index"}, source : Peer,
          path : Path, n : Nat, clock : VectorClock, ts : Nat,
          data : Content, hash : Content, id : Nat]

\* todo is what is left to fetch, all of it in the tree the source has sent.
Reconcile ==
  {r \in [pc : {"root", "compare", "tree", "diff", "fetch"}, source : Peer,
          tree : Folder, todo : SUBSET Path, id : Nat] :
     /\ r.pc # "fetch" => r.todo = {}
     /\ \A x \in r.todo : r.tree[x] # None}

Running(p) == status[p] = "up"

EmptyFolder == [x \in Path |-> None]

-----------------------------------------------------------------------------
(* The index and the chunk transfer, as functions *)

\* file_meta.get(path) with unwrap_or_default.
LocalClock(p, x) == IF meta[p][x] = None THEN NewClock ELSE meta[p][x].clock

LocalTs(p, x) == IF meta[p][x] = None THEN 0 ELSE meta[p][x].ts

\* Mutant: the exclude patterns are not consulted when the folder is indexed.
ScanEverything(p) == disk[p]

\* SyncIndex::build leaves excluded paths out.
Scan(p) == [x \in Path |-> IF x \in Excluded[p] THEN None ELSE disk[p][x]]

\* Mutant: a file found at the start counts as an edit.
ScanMetaTicks(p, ts) ==
  [x \in Path |-> IF Scan(p)[x] = None THEN None
                  ELSE [clock |-> Tick(NewClock, p), ts |-> ts]]

ScanMeta(p, ts) ==
  [x \in Path |-> IF Scan(p)[x] = None THEN None ELSE [clock |-> NewClock, ts |-> ts]]

\* The answer to GetChunks 0 .. n-1 for a file that holds c: the chunks that
\* exist, below max_chunk_index.
Served(c, n) ==
  SubSeq(c, 1, IF n <= Len(c) /\ n <= MaxChunkIndex THEN n
               ELSE IF Len(c) <= MaxChunkIndex THEN Len(c) ELSE MaxChunkIndex)

\* Mutant: a chunk lands one place before its offset.
OverlayShifted(base, c) ==
  IF Len(c) <= 1 THEN c \o base
  ELSE Tail(c) \o <<Head(c)>>

\* The received chunks are copied over the file read from disk, which grows if
\* it is too short and is never truncated.
Overlay(base, c) ==
  [i \in 1 .. (IF Len(base) > Len(c) THEN Len(base) ELSE Len(c)) |->
     IF i <= Len(c) THEN c[i] ELSE base[i]]

\* fs::read(..).unwrap_or_default()
ReadOrEmpty(c) == IF c = None THEN <<>> ELSE c

\* What the watcher of p puts in its queue for an event on x: nothing before it
\* runs, nothing for an excluded path.
Watched(p, kind, x) ==
  IF Running(p) /\ x \notin Excluded[p]
  THEN Append(raw[p], [kind |-> kind, path |-> x])
  ELSE raw[p]

-----------------------------------------------------------------------------
Init ==
  /\ status = InitStatus
  /\ disk \in InitDisks
  /\ tree = [p \in Peer |-> IF Running(p) THEN Scan(p) ELSE EmptyFolder]
  /\ \E ts \in Timestamp :
       meta = [p \in Peer |-> IF Running(p) THEN ScanMeta(p, ts) ELSE EmptyFolder]
  /\ tombstones = [p \in Peer |-> {}]
  /\ guard = [p \in Peer |-> {}]
  /\ debounce = [p \in Peer |-> {}]
  /\ raw = [p \in Peer |-> <<>>]
  /\ chan = [p \in Peer |-> <<>>]
  /\ gossip = {}
  /\ inbox = [p \in Peer |-> {}]
  /\ fetches = [p \in Peer |-> {}]
  /\ unindex = [p \in Peer |-> {}]
  /\ recon = [p \in Peer |-> {}]
  /\ met = InitMet
  /\ ops = 0
  /\ issued = [p \in Peer |-> [f \in File |-> 0]]

-----------------------------------------------------------------------------
(* The environment: users, processes, time *)

Spend == ops < MaxOps /\ ops' = ops + 1

HasFolder(p) == status[p] \in {"off", "indexed", "up"}

\* Only the watcher sees a user's edit; while the process is off or still
\* indexing nobody does.
UserWrite(p, f, v) ==
  /\ HasFolder(p) /\ disk[p][f] # v
  /\ Spend
  /\ disk' = [disk EXCEPT ![p][f] = v]
  /\ raw' = [raw EXCEPT ![p] = Watched(p, "changed", f)]
  /\ UNCHANGED <<status, indexVars, windowVars, chan, netVars, taskVars, issued>>

UserRemove(p, x) ==
  /\ HasFolder(p) /\ disk[p][x] # None
  /\ Spend
  /\ disk' = [disk EXCEPT ![p][x] = None]
  /\ raw' = [raw EXCEPT ![p] = Watched(p, "removed", x)]
  /\ UNCHANGED <<status, indexVars, windowVars, chan, netVars, taskVars, issued>>

\* A file renamed away is reported by notify as Modify(Name), not as Remove.
UserMoveAway(p, f) ==
  /\ HasFolder(p) /\ disk[p][f] # None
  /\ Spend
  /\ disk' = [disk EXCEPT ![p][f] = None]
  /\ raw' = [raw EXCEPT ![p] = Watched(p, "changed", f)]
  /\ UNCHANGED <<status, indexVars, windowVars, chan, netVars, taskVars, issued>>

\* run: the folder is indexed first, the watcher starts later.
BuildIndex(p, ts) ==
  /\ status[p] = "off"
  /\ status' = [status EXCEPT ![p] = "indexed"]
  /\ tree' = [tree EXCEPT ![p] = Scan(p)]
  /\ meta' = [meta EXCEPT ![p] = ScanMeta(p, ts)]
  /\ UNCHANGED <<folderVars, tombstones, windowVars, chan, netVars, taskVars, ops, issued>>

StartWatching(p) ==
  /\ status[p] = "indexed"
  /\ status' = [status EXCEPT ![p] = "up"]
  /\ UNCHANGED <<folderVars, indexVars, windowVars, chan, netVars, taskVars, ops, issued>>

\* The process of p stops at any point; the machine comes back under a fresh
\* keypair q.  The folder is all that survives: the index, its clocks and its
\* tombstones are never saved.
Restart(p, q) ==
  /\ Running(p) /\ status[q] = "unused"
  /\ Spend
  /\ status' = [status EXCEPT ![p] = "gone", ![q] = "off"]
  /\ disk' = [disk EXCEPT ![q] = disk[p], ![p] = EmptyFolder]
  /\ tree' = [tree EXCEPT ![p] = EmptyFolder]
  /\ meta' = [meta EXCEPT ![p] = EmptyFolder]
  /\ tombstones' = [tombstones EXCEPT ![p] = {}]
  /\ guard' = [guard EXCEPT ![p] = {}]
  /\ debounce' = [debounce EXCEPT ![p] = {}]
  /\ raw' = [raw EXCEPT ![p] = <<>>]
  /\ chan' = [chan EXCEPT ![p] = <<>>]
  /\ inbox' = [inbox EXCEPT ![p] = {}]
  /\ fetches' = [fetches EXCEPT ![p] = {}]
  /\ unindex' = [unindex EXCEPT ![p] = {}]
  /\ recon' = [recon EXCEPT ![p] = {}]
  /\ met' = {pair \in met : p \notin {pair[1], pair[2]}}
  /\ UNCHANGED <<gossip, issued>>

\* Nothing happens for longer than both windows of p last.
Pause(p) ==
  /\ guard[p] \cup debounce[p] # {}
  /\ guard' = [guard EXCEPT ![p] = {}]
  /\ debounce' = [debounce EXCEPT ![p] = {}]
  /\ UNCHANGED <<status, folderVars, indexVars, chan, netVars, taskVars, ops, issued>>

-----------------------------------------------------------------------------
(* Watcher events: the bridge thread and handle_fs_event *)

\* EventGuard::is_suppressed is asked about x.  A mark that is still fresh answers
\* yes; one that is older than its ttl is removed and answers no.  Marks expire
\* at an unknown time, so both are possible: marks' is what is left.
Fresh(marks, x) == x \in marks

Expired(marks, x) == marks \ {x}

\* The bridge drops an event on a path the engine has just written.
BridgeDrops(p) ==
  /\ Running(p) /\ raw[p] # <<>>
  /\ Fresh(guard[p], Head(raw[p]).path)
  /\ raw' = [raw EXCEPT ![p] = Tail(@)]
  /\ UNCHANGED <<status, disk, indexVars, windowVars, chan, netVars, taskVars, ops, issued>>

\* It blocks on a full channel with an event it has already let through, which
\* counts here as the last one of the channel.
BridgeForwards(p) ==
  /\ Running(p) /\ raw[p] # <<>>
  /\ Len(chan[p]) <= ChannelCapacity
  /\ guard' = [guard EXCEPT ![p] = Expired(@, Head(raw[p]).path)]
  /\ raw' = [raw EXCEPT ![p] = Tail(@)]
  /\ chan' = [chan EXCEPT ![p] = Append(@, Head(raw[p]))]
  /\ UNCHANGED <<status, disk, indexVars, debounce, netVars, taskVars, ops, issued>>

\* The engine takes the event e out of the channel.
TakeFsEvent(p, e) ==
  /\ Running(p) /\ chan[p] # <<>>
  /\ e = Head(chan[p])
  /\ chan' = [chan EXCEPT ![p] = Tail(@)]

\* A no_push engine receives every event and handles none.
DropFsEvent(p) ==
  /\ p \in NoPush
  /\ TakeFsEvent(p, Head(chan[p]))
  /\ UNCHANGED <<status, folderVars, indexVars, windowVars, netVars, taskVars, ops, issued>>

SuppressFsEvent(p) ==
  LET e == Head(chan[p]) IN
  /\ p \notin NoPush
  /\ TakeFsEvent(p, e)
  /\ e.kind = "changed"
  /\ \/ /\ Fresh(guard[p], e.path)
        /\ UNCHANGED guard
     \/ /\ Fresh(debounce[p], e.path)
        /\ guard' = [guard EXCEPT ![p] = Expired(@, e.path)]
  /\ UNCHANGED <<status, folderVars, indexVars, debounce, netVars, taskVars, ops, issued>>

\* Neither window is open: the debounce window starts now, before the checks
\* that may still make the handler give up.
TakeChangeEvent(p, e) ==
  /\ p \notin NoPush
  /\ TakeFsEvent(p, e)
  /\ e.kind = "changed"
  /\ guard' = [guard EXCEPT ![p] = Expired(@, e.path)]
  /\ debounce' = [debounce EXCEPT ![p] = @ \cup {e.path}]

Announceable(p, x) == x \notin Backup /\ disk[p][x] # None /\ x \notin Excluded[p]

IgnoreFsEvent(p) ==
  LET e == Head(chan[p]) IN
  /\ TakeChangeEvent(p, e)
  /\ ~Announceable(p, e.path)
  /\ UNCHANGED <<status, folderVars, indexVars, netVars, taskVars, ops, issued>>

Publish(note) == gossip' = gossip \cup {[note |-> note, has |-> {note.peer}]}

\* local_file_changed, then the notification.
AnnounceChange(p, ts) ==
  LET e == Head(chan[p])
      x == e.path
      clock == Tick(LocalClock(p, x), p)
  IN
  /\ TakeChangeEvent(p, e)
  /\ Announceable(p, x)
  /\ issued[p][x] < MaxIssued
  /\ tree' = [tree EXCEPT ![p][x] = disk[p][x]]
  /\ meta' = [meta EXCEPT ![p][x] = [clock |-> clock, ts |-> ts]]
  /\ issued' = [issued EXCEPT ![p][x] = @ + 1]
  /\ Publish([kind |-> "changed", path |-> x, data |-> disk[p][x],
              clock |-> clock, ts |-> ts, peer |-> p])
  /\ UNCHANGED <<status, folderVars, tombstones, met, taskVars, ops>>

\* Mutant: the file's metadata survives its deletion.
ForgetKeepsMeta(p, note) ==
  /\ tree' = [tree EXCEPT ![p][note.path] = None]
  /\ tombstones' = [tombstones EXCEPT ![p] = @ \cup {note}]
  /\ UNCHANGED meta

\* A deletion moves the path from the index to the tombstones.
Forget(p, note) ==
  /\ tree' = [tree EXCEPT ![p][note.path] = None]
  /\ meta' = [meta EXCEPT ![p][note.path] = None]
  /\ tombstones' = [tombstones EXCEPT ![p] = @ \cup {note}]

\* local_file_deleted, then the notification: the clock goes into the tombstone
\* and out of the index.
AnnounceRemoval(p, ts) ==
  LET e == Head(chan[p])
      note == [kind |-> "deleted", path |-> e.path, data |-> <<>>,
               clock |-> LocalClock(p, e.path), ts |-> ts, peer |-> p]
  IN
  /\ p \notin NoPush
  /\ TakeFsEvent(p, e)
  /\ e.kind = "removed"
  /\ Forget(p, note)
  /\ Publish(note)
  /\ UNCHANGED <<status, folderVars, windowVars, met, taskVars, ops, issued>>

-----------------------------------------------------------------------------
(* Notifications: gossip and handle_notification *)

\* Gossipsub hands the message m to q.  The engine is told the neighbour r it
\* came through, not its author.  A no_pull engine drops it.
Relay(m, r, q) ==
  /\ r \in m.has /\ q \notin m.has /\ <<r, q>> \in Link
  /\ Running(r) /\ Running(q)
  /\ gossip' = (gossip \ {m}) \cup
                 {w \in {[m EXCEPT !.has = @ \cup {q}]} : w.has # Peer}
  /\ inbox' = IF q \in NoPull THEN inbox
              ELSE [inbox EXCEPT ![q] = @ \cup {[source |-> r, note |-> m.note]}]
  /\ UNCHANGED <<status, folderVars, indexVars, windowVars, chan, met,
                 fetches, unindex, recon, ops, issued>>

\* Nobody else will get m: a publish error, or a message lost.
LoseGossip(m) ==
  /\ gossip' = gossip \ {m}
  /\ UNCHANGED <<status, folderVars, indexVars, windowVars, chan, met, taskVars, ops, issued>>

\* EventGuard::mark, on the write guard.
Mark(p, x) == guard' = [guard EXCEPT ![p] = @ \cup {x}]

\* resolve, on the metadata read under the index lock.
Decision(p, note) ==
  IF note.peer = p THEN "Reject"
  ELSE Resolve(LocalClock(p, note.path), note.clock,
               LocalTs(p, note.path), note.ts, note.peer, p)

\* Mutant: an excluded path is fetched like any other.
StartFetchExcluded(p, x, d) ==
  fetches' = [fetches EXCEPT ![p] = @ \cup
    {[pc |-> "request", source |-> d.source, path |-> x,
      n |-> Len(d.note.data), clock |-> d.note.clock, ts |-> d.note.ts,
      data |-> <<>>, hash |-> d.note.data, id |-> 0]}]

\* fetch_and_apply up to its request: an excluded path is not fetched.
StartFetch(p, x, d) ==
  fetches' = [fetches EXCEPT ![p] =
    IF x \in Excluded[p] THEN @
    ELSE @ \cup {[pc |-> "request", source |-> d.source, path |-> x,
                  n |-> Len(d.note.data), clock |-> d.note.clock, ts |-> d.note.ts,
                  data |-> <<>>, hash |-> d.note.data, id |-> 0]}]

TakeChange(p, d, decision) ==
  /\ Running(p) /\ d \in inbox[p]
  /\ d.note.kind = "changed"
  /\ Decision(p, d.note) = decision
  /\ inbox' = [inbox EXCEPT ![p] = @ \ {d}]

AcceptChange(p, d) ==
  /\ TakeChange(p, d, "Accept")
  /\ Mark(p, d.note.path)
  /\ StartFetch(p, d.note.path, d)
  /\ UNCHANGED <<status, folderVars, indexVars, debounce, chan, netVars,
                 unindex, recon, ops, issued>>

RejectChange(p, d) ==
  /\ TakeChange(p, d, "Reject")
  /\ UNCHANGED <<status, folderVars, indexVars, windowVars, chan, netVars,
                 fetches, unindex, recon, ops, issued>>

\* Mutant: the loser is overwritten without a copy.
LoseConflictNoBackup(p, d, copied) ==
  /\ TakeChange(p, d, "LocalLoses")
  /\ StartFetch(p, d.note.path, d)
  /\ UNCHANGED <<status, folderVars, indexVars, windowVars, chan, netVars,
                 unindex, recon, ops, issued>>

\* The local version loses: it is copied to its conflict name, if the copy
\* succeeds, and the winner is fetched over it.
LoseConflict(p, d, copied) ==
  LET x == d.note.path
      b == ConflictName[<<x, p>>]
  IN
  /\ TakeChange(p, d, "LocalLoses")
  /\ IF copied /\ disk[p][x] # None
     THEN /\ disk' = [disk EXCEPT ![p][b] = disk[p][x]]
          /\ raw' = [raw EXCEPT ![p] = Watched(p, "changed", b)]
     ELSE UNCHANGED folderVars
  /\ StartFetch(p, x, d)
  /\ UNCHANGED <<status, indexVars, windowVars, chan, netVars, unindex, recon, ops, issued>>

\* The remote version loses: the copy the author is expected to have made is
\* fetched; the index entry of the file itself is left alone.
WinConflict(p, d) ==
  /\ TakeChange(p, d, "RemoteLoses")
  /\ StartFetch(p, ConflictName[<<d.note.path, d.note.peer>>], d)
  /\ UNCHANGED <<status, folderVars, indexVars, windowVars, chan, netVars,
                 unindex, recon, ops, issued>>

\* FileDeleted: the file goes first, whatever its clock ...
RemoveFile(p, d) ==
  LET x == d.note.path IN
  /\ Running(p) /\ d \in inbox[p]
  /\ d.note.kind = "deleted" /\ d.note.peer # p
  /\ inbox' = [inbox EXCEPT ![p] = @ \ {d}]
  /\ IF disk[p][x] # None
     THEN /\ disk' = [disk EXCEPT ![p][x] = None]
          /\ raw' = [raw EXCEPT ![p] = Watched(p, "removed", x)]
     ELSE UNCHANGED folderVars
  /\ unindex' = [unindex EXCEPT ![p] = @ \cup {d.note}]
  /\ UNCHANGED <<status, indexVars, windowVars, chan, netVars, fetches, recon, ops, issued>>

\* ... and the index follows once its lock is free.
Unindex(p, note) ==
  /\ Running(p) /\ note \in unindex[p]
  /\ unindex' = [unindex EXCEPT ![p] = @ \ {note}]
  /\ Forget(p, note)
  /\ UNCHANGED <<status, folderVars, windowVars, chan, netVars, inbox, fetches,
                 recon, ops, issued>>

-----------------------------------------------------------------------------
(* fetch_and_apply, from its request on *)

Step(p, f, g) == fetches' = [fetches EXCEPT ![p] = (@ \ {f}) \cup {g}]

EndFetch(p, f) == fetches' = [fetches EXCEPT ![p] = @ \ {f}]

FetchAt(p, f, pcs) == Running(p) /\ f \in fetches[p] /\ f.pc \in pcs

\* handle_inbound_request, GetChunks: the source answers from its disk as it is
\* now; a file it does not have is an error, which ends the fetch.
ServeChunks(p, f) ==
  LET c == disk[f.source][f.path] IN
  /\ FetchAt(p, f, {"request"}) /\ Running(f.source)
  /\ IF c = None
     THEN EndFetch(p, f)
     ELSE Step(p, f, [f EXCEPT !.pc = "assemble", !.data = Served(c, f.n)])
  /\ UNCHANGED <<status, folderVars, indexVars, windowVars, chan, netVars,
                 inbox, unindex, recon, ops, issued>>

\* A timeout, a closed connection, a response that never comes.
RequestFails(p, f) ==
  /\ FetchAt(p, f, {"request", "assemble"})
  /\ EndFetch(p, f)
  /\ UNCHANGED <<status, folderVars, indexVars, windowVars, chan, netVars,
                 inbox, unindex, recon, ops, issued>>

\* The response is laid over the file as it is on disk now.
Assemble(p, f) ==
  /\ FetchAt(p, f, {"assemble"})
  /\ IF Len(f.data) > MaxFileSize
     THEN EndFetch(p, f)
     ELSE Step(p, f, [f EXCEPT !.pc = "write",
                               !.data = Overlay(ReadOrEmpty(disk[p][f.path]), f.data)])
  /\ UNCHANGED <<status, folderVars, indexVars, windowVars, chan, netVars,
                 inbox, unindex, recon, ops, issued>>

WriteFile(p, f) ==
  /\ FetchAt(p, f, {"write"})
  /\ Mark(p, f.path)
  /\ disk' = [disk EXCEPT ![p][f.path] = f.data]
  /\ raw' = [raw EXCEPT ![p] = Watched(p, "changed", f.path)]
  /\ Step(p, f, [f EXCEPT !.pc = "index"])
  /\ UNCHANGED <<status, indexVars, debounce, chan, netVars, inbox, unindex,
                 recon, ops, issued>>

WriteFails(p, f) ==
  /\ FetchAt(p, f, {"write"})
  /\ Mark(p, f.path)
  /\ EndFetch(p, f)
  /\ UNCHANGED <<status, folderVars, indexVars, debounce, chan, netVars,
                 inbox, unindex, recon, ops, issued>>

\* Mutant: the applied version's clock replaces the local one.
AppliedReplaces(p, f) == [clock |-> f.clock, ts |-> f.ts]

\* Mutant: what was fetched counts as a local edit.
AppliedTicks(p, f) ==
  [clock |-> Tick(Merge(LocalClock(p, f.path), f.clock), p), ts |-> f.ts]

\* Mutant: metadata is updated where there is some, and never created.
AppliedKnownOnly(p, f) ==
  IF meta[p][f.path] = None THEN None
  ELSE [clock |-> Merge(LocalClock(p, f.path), f.clock), ts |-> f.ts]

\* The metadata of a fetched file: its clock is merged into the local one.
Applied(p, f) == [clock |-> Merge(LocalClock(p, f.path), f.clock), ts |-> f.ts]

\* The index learns what was written.
IndexFile(p, f) ==
  /\ FetchAt(p, f, {"index"})
  /\ tree' = [tree EXCEPT ![p][f.path] = f.data]
  /\ meta' = [meta EXCEPT ![p][f.path] = Applied(p, f)]
  /\ EndFetch(p, f)
  /\ UNCHANGED <<status, folderVars, tombstones, windowVars, chan, netVars,
                 inbox, unindex, recon, ops, issued>>

-----------------------------------------------------------------------------
(* Connections and reconcile *)

\* Event::PeerDiscovered(q): q subscribed to the group's topic.
Discover(p, q) ==
  /\ Running(p) /\ Running(q)
  /\ <<p, q>> \in Link /\ <<p, q>> \notin met
  /\ met' = met \cup {<<p, q>>}
  /\ recon' = [recon EXCEPT ![p] = @ \cup
       {[pc |-> "root", source |-> q, tree |-> EmptyFolder, todo |-> {}, id |-> ops + 1]}]
  /\ UNCHANGED <<status, folderVars, indexVars, windowVars, chan, gossip,
                 inbox, fetches, unindex, ops, issued>>

\* The connection breaks; the peers may find each other again.
Disconnect(p, q) ==
  /\ <<p, q>> \in met
  /\ Spend
  /\ met' = met \ {<<p, q>>, <<q, p>>}
  /\ UNCHANGED <<status, folderVars, indexVars, windowVars, chan, gossip, taskVars, issued>>

StepRecon(p, r, s) == recon' = [recon EXCEPT ![p] = (@ \ {r}) \cup {s}]

EndRecon(p, r) == recon' = [recon EXCEPT ![p] = @ \ {r}]

ReconAt(p, r, pc) == Running(p) /\ r \in recon[p] /\ r.pc = pc

\* handle_inbound_request, GetRootHash and GetTree: from the source's index.
ServeRootHash(p, r) ==
  /\ ReconAt(p, r, "root") /\ Running(r.source)
  /\ StepRecon(p, r, [r EXCEPT !.pc = "compare", !.tree = tree[r.source]])
  /\ UNCHANGED <<status, folderVars, indexVars, windowVars, chan, netVars,
                 inbox, fetches, unindex, ops, issued>>

CompareRoots(p, r) ==
  /\ ReconAt(p, r, "compare")
  /\ IF r.tree = tree[p]
     THEN EndRecon(p, r)
     ELSE StepRecon(p, r, [r EXCEPT !.pc = "tree", !.tree = EmptyFolder])
  /\ UNCHANGED <<status, folderVars, indexVars, windowVars, chan, netVars,
                 inbox, fetches, unindex, ops, issued>>

ServeTree(p, r) ==
  /\ ReconAt(p, r, "tree") /\ Running(r.source)
  /\ StepRecon(p, r, [r EXCEPT !.pc = "diff", !.tree = tree[r.source]])
  /\ UNCHANGED <<status, folderVars, indexVars, windowVars, chan, netVars,
                 inbox, fetches, unindex, ops, issued>>

ReconcileFails(p, r) ==
  /\ ReconAt(p, r, "root") \/ ReconAt(p, r, "tree")
  /\ EndRecon(p, r)
  /\ UNCHANGED <<status, folderVars, indexVars, windowVars, chan, netVars,
                 inbox, fetches, unindex, ops, issued>>

\* Mutant: files that only the local tree has are in the difference.
DiffBothWays(local, remote) == {x \in Path : remote[x] # local[x]}

\* Mutant: only modified files are in the difference, not added ones.
DiffModified(local, remote) ==
  {x \in Path : remote[x] # None /\ local[x] # None /\ remote[x] # local[x]}

\* merkle::diff on flat folders: what the remote tree has and the local one
\* has not, or has otherwise.  Local-only files are left alone.
Diff(local, remote) == {x \in Path : remote[x] # None /\ remote[x] # local[x]}

\* Mutant: no_pull is not consulted by the loop over the differences.
ToPullAlways(p, r) == Diff(tree[p], r.tree)

ToPull(p, r) == IF p \in NoPull THEN {} ELSE Diff(tree[p], r.tree)

DiffTrees(p, r) ==
  /\ ReconAt(p, r, "diff")
  /\ StepRecon(p, r, [r EXCEPT !.pc = "fetch", !.todo = ToPull(p, r)])
  /\ UNCHANGED <<status, folderVars, indexVars, windowVars, chan, netVars,
                 inbox, fetches, unindex, ops, issued>>

\* The fetches of one reconcile run one after the other.
Idle(p, r) == \A f \in fetches[p] : f.id # r.id \/ f.source # r.source

\* Mutant: a path that was fetched stays on the list.
FetchNextAgain(p, r, x, ts) ==
  /\ ReconAt(p, r, "fetch") /\ x \in r.todo /\ Idle(p, r)
  /\ fetches' = [fetches EXCEPT ![p] = @ \cup
       {[pc |-> "request", source |-> r.source, path |-> x,
         n |-> Len(r.tree[x]), clock |-> NewClock, ts |-> ts,
         data |-> <<>>, hash |-> r.tree[x], id |-> r.id]}]
  /\ UNCHANGED <<status, folderVars, indexVars, windowVars, chan, netVars,
                 inbox, unindex, recon, ops, issued>>

\* fetch_node_recursive: an empty clock and the time of the fetch.
FetchNext(p, r, x, ts) ==
  /\ ReconAt(p, r, "fetch") /\ x \in r.todo /\ Idle(p, r)
  /\ StepRecon(p, r, [r EXCEPT !.todo = @ \ {x}])
  /\ fetches' = [fetches EXCEPT ![p] =
       IF x \in Excluded[p] THEN @
       ELSE @ \cup {[pc |-> "request", source |-> r.source, path |-> x,
                     n |-> Len(r.tree[x]), clock |-> NewClock, ts |-> ts,
                     data |-> <<>>, hash |-> r.tree[x], id |-> r.id]}]
  /\ UNCHANGED <<status, folderVars, indexVars, windowVars, chan, netVars,
                 inbox, unindex, ops, issued>>

ReconcileComplete(p, r) ==
  /\ ReconAt(p, r, "fetch") /\ r.todo = {} /\ Idle(p, r)
  /\ EndRecon(p, r)
  /\ UNCHANGED <<status, folderVars, indexVars, windowVars, chan, netVars,
                 inbox, fetches, unindex, ops, issued>>

-----------------------------------------------------------------------------
UserStep(p) ==
  \/ "write" \in Allowed /\ \E f \in File, v \in Version : UserWrite(p, f, v)
  \/ "remove" \in Allowed /\ \E x \in Path : UserRemove(p, x)
  \/ "move" \in Allowed /\ \E f \in File : UserMoveAway(p, f)

LifeStep(p) ==
  \/ \E ts \in Timestamp : BuildIndex(p, ts)
  \/ StartWatching(p)
  \/ "restart" \in Allowed /\ \E q \in Peer : Restart(p, q)
  \/ "disconnect" \in Allowed /\ \E q \in Peer : Disconnect(p, q)
  \/ "pause" \in Allowed /\ Pause(p)

\* The bridge thread and the engine's loop over watcher events.
WatchStep(p) ==
  \/ BridgeDrops(p)
  \/ BridgeForwards(p)
  \/ DropFsEvent(p)
  \/ SuppressFsEvent(p)
  \/ IgnoreFsEvent(p)
  \/ \E ts \in Timestamp : AnnounceChange(p, ts) \/ AnnounceRemoval(p, ts)

\* A notification or a discovery reaches p.
ArrivalStep(p) ==
  \/ \E m \in gossip, r \in Peer : Relay(m, r, p)
  \/ \E q \in Peer : Discover(p, q)

\* The tasks spawned by the engine of p, when nothing fails; ts is the time.
TaskStep(p, ts) ==
  \/ \E d \in inbox[p] : \/ AcceptChange(p, d)
                         \/ RejectChange(p, d)
                         \/ LoseConflict(p, d, TRUE)
                         \/ WinConflict(p, d)
                         \/ RemoveFile(p, d)
  \/ \E note \in unindex[p] : Unindex(p, note)
  \/ \E f \in fetches[p] : \/ ServeChunks(p, f)
                           \/ Assemble(p, f)
                           \/ WriteFile(p, f)
                           \/ IndexFile(p, f)
  \/ \E r \in recon[p] : \/ ServeRootHash(p, r)
                         \/ CompareRoots(p, r)
                         \/ ServeTree(p, r)
                         \/ DiffTrees(p, r)
                         \/ \E x \in Path : FetchNext(p, r, x, ts)
                         \/ ReconcileComplete(p, r)

FailureStep(p) ==
  \/ \E d \in inbox[p] : LoseConflict(p, d, FALSE)
  \/ \E f \in fetches[p] : RequestFails(p, f) \/ WriteFails(p, f)
  \/ \E r \in recon[p] : ReconcileFails(p, r)

Next ==
  \/ \E p \in Peer : \/ UserStep(p)
                     \/ LifeStep(p)
                     \/ WatchStep(p)
                     \/ ArrivalStep(p)
                     \/ \E ts \in Timestamp : TaskStep(p, ts)
                     \/ "failure" \in Allowed /\ FailureStep(p)
  \/ "loss" \in Allowed /\ \E m \in gossip : LoseGossip(m)

Spec == Init /\ [][Next]_vars

-----------------------------------------------------------------------------
(* Correctness *)

GroupType ==
  /\ status \in [Peer -> Status]
  /\ met \subseteq Peer \X Peer
  /\ ops \in Nat
  /\ issued \in [Peer -> [File -> Nat]]

FolderType == disk \in [Peer -> Folder]

IndexType ==
  /\ tree \in [Peer -> Folder]
  /\ meta \in [Peer -> [Path -> Meta \cup {None}]]
  /\ tombstones \in [Peer -> SUBSET Note]

WindowType ==
  /\ guard \in [Peer -> SUBSET Path]
  /\ debounce \in [Peer -> SUBSET Path]

EventType ==
  /\ raw \in [Peer -> Seq(FsEvent)]
  /\ chan \in [Peer -> Seq(FsEvent)]

GossipType == gossip \subseteq [note : Note, has : SUBSET Peer]

TaskType ==
  /\ inbox \in [Peer -> SUBSET Delivery]
  /\ fetches \in [Peer -> SUBSET Fetch]
  /\ unindex \in [Peer -> SUBSET Note]
  /\ recon \in [Peer -> SUBSET Reconcile]

\* Type invariant of every component's state.
TypeOK ==
  /\ GroupType
  /\ FolderType
  /\ IndexType
  /\ WindowType
  /\ EventType
  /\ GossipType
  /\ TaskType

\* The two halves of SyncIndex stay in step through every interleaving of local
\* events, fetches, deletions and restarts: a path has metadata exactly when the
\* Merkle tree has a node for it.
TreeMatchesMeta ==
  \A p \in Peer, x \in Path : (tree[p][x] = None) <=> (meta[p][x] = None)

\* An excluded path is never in the index, so a peer never sees it in the answer to
\* GetRootHash or GetTree, nor are its edits announced. GetChunks is another matter: it
\* reads from the folder whatever path it is asked for.
ExcludedNotIndexed ==
  \A p \in Peer : \A x \in Excluded[p] :
    /\ tree[p][x] = None
    /\ \A m \in gossip : m.note.peer = p /\ m.note.kind = "changed" => m.note.path # x

Honest(clock, f) == \A q \in Peer : clock[q] <= issued[q][f]

\* No clock, in an index, in a message or in a running fetch, counts an edit its
\* author never announced: what a peer believes it has seen did happen, across
\* lost and reordered notifications, deletions that reset clocks and restarts.
NoInventedEdits ==
  /\ \A p \in Peer, f \in File : meta[p][f] # None => Honest(meta[p][f].clock, f)
  /\ \A m \in gossip : m.note.path \in File => Honest(m.note.clock, m.note.path)
  /\ \A p \in Peer : \A f \in fetches[p] : f.path \in File => Honest(f.clock, f.path)

\* The contents users put into some folder, at the start or later.
Written == Version \cup
  {c \in {d[p][x] : d \in InitDisks, p \in Peer, x \in Path} : c # None}

InPlace(c) ==
  \A i \in DOMAIN c : \E v \in Written : i <= Len(v) /\ c[i] = v[i]

\* A file may end up a mixture of versions, but a chunk is never moved: whatever
\* stands at index i of a file on disk or in an index stood at index i of a
\* version some user wrote, however transfers and edits overlap.
\* Chunks are whole: a short last one laid over a longer one mixes the two (Chunks).
ChunksInPlace ==
  \A p \in Peer, x \in Path :
    /\ disk[p][x] # None => InPlace(disk[p][x])
    /\ tree[p][x] # None => InPlace(tree[p][x])

\* While a file stays in an index its clock never goes back: applying an older or
\* a concurrent version cannot make a peer forget edits it has seen.
ClocksOnlyGrow ==
  [][\A p \in Peer, x \in Path :
       meta[p][x] # None /\ meta'[p][x] # None =>
         Dominates(meta'[p][x].clock, meta[p][x].clock)]_vars

\* share --readonly, "Reject incoming changes from peers": the folder of a no_pull
\* peer changes only by its user's hand (an op), whatever is announced to it, and
\* whatever it finds different when it reconciles.
ReadonlyFolderKept ==
  [][\A p \in NoPull : disk'[p] # disk[p] => ops' # ops]_vars

\* No peer's content comes to an excluded path, neither from a notification nor in a
\* reconciliation. Exclusion keeps off no more than that: the engine itself changes an
\* excluded path when it handles a deletion that another peer announced, and when it
\* copies a file of this folder, a conflict's loser, to a conflict name that is excluded.
ExcludedNotWritten ==
  [][\A p \in Peer : \A x \in Excluded[p] :
       disk'[p][x] # disk[p][x] =>
         \/ ops' # ops
         \/ /\ disk'[p][x] = None
            /\ \E d \in inbox[p] :
                 d.note.kind = "deleted" /\ d.note.path = x /\ d.note.peer # p
         \/ \E f \in File : ConflictName[<<f, p>>] = x /\ disk'[p][x] = disk[p][f]]_vars

\* An excluded file is left alone by the engine altogether.
ExcludedFileKept ==
  [][\A p \in Peer : \A x \in Excluded[p] \cap File :
       disk'[p][x] # disk[p][x] => ops' # ops]_vars

\* A no_push peer hands out what its index holds, which is what it received or
\* started with, and never a local change.
LocalChangesNotServed ==
  \A p \in Peer : \A f \in fetches[p] :
    f.pc = "assemble" /\ f.source \in NoPush =>
      f.data = Served(ReadOrEmpty(tree[f.source][f.path]), f.n)

\* Only modified chunks are asked for, not those the file on disk already has.
OnlyModifiedFetched ==
  \A p \in Peer : \A f \in fetches[p] :
    f.pc = "request" =>
      \A i \in 1 .. f.n : i \in DOMAIN ReadOrEmpty(disk[p][f.path]) =>
        disk[p][f.path][i] # f.hash[i]

\* A peer that has handled every event and every message knows its own folder.
IndexCurrent ==
  \A p \in Peer \ NoPush :
    /\ Running(p) /\ raw[p] = <<>> /\ chan[p] = <<>>
    /\ inbox[p] \cup fetches[p] \cup unindex[p] = {}
    => \A f \in File \ Excluded[p] : tree[p][f] = disk[p][f]

\* The edits a clock stands for.
EditsOf(clock) == UNION {{q} \X (1 .. clock[q]) : q \in Peer}

heldBar == [p \in Peer |-> {f \in File : meta[p][f] # None}]

knownBar == [p \in Peer |-> [f \in File |-> EditsOf(LocalClock(p, f))]]

History == INSTANCE EditHistory WITH held <- heldBar, known <- knownBar, announced <- issued

\* The clocks in the indexes implement sets of edits: whatever step the engine takes
\* anywhere, it changes at most the history of one file at one peer, which gets one
\* edit of the peer's own or edits that were announced, or leaves the index with its
\* file; only the end of a process forgets more.
ImplementsHistory == History!Spec

=============================================================================
