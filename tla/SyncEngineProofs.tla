-------------------------- MODULE SyncEngineProofs --------------------------
(***************************************************************************)
(* Invariants of the sync engine for any peers, files, contents, modes and *)
(* failures: its types, what becomes of an index, what the modes of a peer *)
(* keep the engine from doing, and where its clocks, notifications and     *)
(* chunks come from.  No bound on operations or announcements is used.     *)
(* The frame lemmas say which steps can touch the state an invariant is    *)
(* about.                                                                  *)
(***************************************************************************)
EXTENDS SyncEngine, ConflictProofs

-----------------------------------------------------------------------------
(* Contents and events *)

LEMMA EmptyIsContent == <<>> \in Content
BY DEF Content

LEMMA LenOfContent == \A c \in Content : Len(c) \in Nat
BY DEF Content

\* A response is a prefix of the file it is taken from.
LEMMA ServedPrefix ==
  ASSUME NEW c \in Content, NEW n \in Nat
  PROVE  /\ Served(c, n) \in Content
         /\ Len(Served(c, n)) <= Len(c)
         /\ \A i \in 1 .. Len(Served(c, n)) : Served(c, n)[i] = c[i]
<1> DEFINE m == IF n <= Len(c) /\ n <= MaxChunkIndex THEN n
                ELSE IF Len(c) <= MaxChunkIndex THEN Len(c) ELSE MaxChunkIndex
<1>1. m \in 0 .. Len(c)
  BY BoundAssumption DEF Content
<1>2. Served(c, n) = SubSeq(c, 1, m)
  BY DEF Served
<1> HIDE DEF m
<1> QED
  BY <1>1, <1>2 DEF Content

\* The assembled file is as long as the longer of its parts, and each chunk is
\* one of theirs at the same place.
LEMMA OverlayInPlace ==
  ASSUME NEW base \in Content, NEW c \in Content
  PROVE  /\ Overlay(base, c) \in Content
         /\ \A i \in DOMAIN Overlay(base, c) :
              \/ i \in DOMAIN c /\ Overlay(base, c)[i] = c[i]
              \/ i \in DOMAIN base /\ Overlay(base, c)[i] = base[i]
BY DEF Overlay, Content

LEMMA ReadIsContent == \A c \in Content \cup {None} : ReadOrEmpty(c) \in Content
BY DEF ReadOrEmpty, Content

LEMMA WatchedEvents ==
  ASSUME EventType, NEW p \in Peer, NEW x \in Path, NEW kind \in {"changed", "removed"}
  PROVE  Watched(p, kind, x) \in Seq(FsEvent)
<1>1. [kind |-> kind, path |-> x] \in FsEvent
  BY DEF FsEvent
<1>2. raw[p] \in Seq(FsEvent)
  BY DEF EventType
<1>3. Append(raw[p], [kind |-> kind, path |-> x]) \in Seq(FsEvent)
  BY <1>1, <1>2
<1> QED
  BY <1>2, <1>3 DEF Watched

LEMMA TakenEvent ==
  ASSUME NEW q \in Seq(FsEvent), q # <<>>
  PROVE  /\ Head(q) \in FsEvent /\ Tail(q) \in Seq(FsEvent)
         /\ Head(q).path \in Path
<1>1. Head(q) \in FsEvent /\ Tail(q) \in Seq(FsEvent)
  OBVIOUS
<1> QED
  BY <1>1 DEF FsEvent

LEMMA LocalMetaTypes ==
  ASSUME IndexType, NEW p \in Peer, NEW x \in Path
  PROVE  LocalClock(p, x) \in VectorClock /\ LocalTs(p, x) \in Nat
BY ClockTypes DEF IndexType, LocalClock, LocalTs, Meta

LEMMA ScanTypes ==
  ASSUME FolderType, NEW p \in Peer, NEW ts \in Timestamp
  PROVE  Scan(p) \in Folder /\ ScanMeta(p, ts) \in [Path -> Meta \cup {None}]
BY ClockTypes, BoundAssumption DEF FolderType, Scan, ScanMeta, Folder, Meta

-----------------------------------------------------------------------------
(* Type correctness *)

USE DEF TypeOK, GroupType, FolderType, IndexType, WindowType, EventType, GossipType, TaskType, folderVars, indexVars, windowVars, netVars, taskVars

LEMMA UserTypes ==
  ASSUME TypeOK, NEW p \in Peer,
         \/ \E f \in File, v \in Version : UserWrite(p, f, v)
         \/ \E x \in Path : UserRemove(p, x)
         \/ \E f \in File : UserMoveAway(p, f)
  PROVE  TypeOK'
<1>1. ASSUME NEW f \in File, NEW v \in Version, UserWrite(p, f, v)
      PROVE  TypeOK'
  <2>1. f \in Path /\ v \in Content
    BY ContentAssumption DEF Path
  <2>2. Watched(p, "changed", f) \in Seq(FsEvent)
    BY <2>1, WatchedEvents
  <2>3. FolderType' /\ EventType'
    BY <1>1, <2>1, <2>2 DEF UserWrite, Folder
  <2> QED
    BY <1>1, <2>3 DEF UserWrite, Spend
<1>2. ASSUME NEW x \in Path, UserRemove(p, x)
      PROVE  TypeOK'
  <2>1. Watched(p, "removed", x) \in Seq(FsEvent)
    BY WatchedEvents
  <2>2. FolderType' /\ EventType'
    BY <1>2, <2>1 DEF UserRemove, Folder
  <2> QED
    BY <1>2, <2>2 DEF UserRemove, Spend
<1>3. ASSUME NEW f \in File, UserMoveAway(p, f)
      PROVE  TypeOK'
  <2>1. f \in Path
    BY DEF Path
  <2>2. Watched(p, "changed", f) \in Seq(FsEvent)
    BY <2>1, WatchedEvents
  <2>3. FolderType' /\ EventType'
    BY <1>3, <2>1, <2>2 DEF UserMoveAway, Folder
  <2> QED
    BY <1>3, <2>3 DEF UserMoveAway, Spend
<1> QED
  BY <1>1, <1>2, <1>3

LEMMA LifeTypes ==
  ASSUME TypeOK, NEW p \in Peer, LifeStep(p)
  PROVE  TypeOK'
<1>1. ASSUME NEW ts \in Timestamp, BuildIndex(p, ts)
      PROVE  TypeOK'
  <2>1. Scan(p) \in Folder /\ ScanMeta(p, ts) \in [Path -> Meta \cup {None}]
    BY ScanTypes
  <2> QED
    BY <1>1, <2>1 DEF BuildIndex, Status
<1>2. CASE StartWatching(p)
  BY <1>2 DEF StartWatching, Status
<1>3. ASSUME NEW q \in Peer, Restart(p, q)
      PROVE  TypeOK'
  <2>1. EmptyFolder \in Folder /\ EmptyFolder \in [Path -> Meta \cup {None}]
    BY DEF EmptyFolder, Folder
  <2>2. GroupType'
    <3>1. status' \in [Peer -> Status]
      BY <1>3 DEF Restart, Status
    <3>2. met' \subseteq met /\ ops' \in Nat /\ issued' = issued
      BY <1>3 DEF Restart, Spend
    <3> QED
      BY <3>1, <3>2
  <2>3. FolderType' /\ IndexType'
    BY <1>3, <2>1 DEF Restart
  <2>4. WindowType' /\ EventType' /\ TaskType' /\ GossipType'
    BY <1>3 DEF Restart
  <2> QED
    BY <2>2, <2>3, <2>4
<1>4. ASSUME NEW q \in Peer, Disconnect(p, q)
      PROVE  TypeOK'
  BY <1>4 DEF Disconnect, Spend
<1>5. CASE Pause(p)
  BY <1>5 DEF Pause
<1> QED
  BY <1>1, <1>2, <1>3, <1>4, <1>5 DEF LifeStep

LEMMA WatchTypes ==
  ASSUME TypeOK, NEW p \in Peer,
         \/ BridgeDrops(p) \/ BridgeForwards(p) \/ DropFsEvent(p)
         \/ SuppressFsEvent(p) \/ IgnoreFsEvent(p)
         \/ \E ts \in Nat : AnnounceChange(p, ts) \/ AnnounceRemoval(p, ts)
  PROVE  TypeOK'
<1>1. CASE BridgeDrops(p)
  <2>1. Tail(raw[p]) \in Seq(FsEvent)
    BY <1>1, TakenEvent DEF BridgeDrops
  <2> QED
    BY <1>1, <2>1 DEF BridgeDrops
<1>2. CASE BridgeForwards(p)
  <2>1. Tail(raw[p]) \in Seq(FsEvent) /\ Head(raw[p]) \in FsEvent
    BY <1>2, TakenEvent DEF BridgeForwards
  <2>2. Append(chan[p], Head(raw[p])) \in Seq(FsEvent)
    BY <2>1
  <2> QED
    BY <1>2, <2>1, <2>2 DEF BridgeForwards, Expired
<1> DEFINE e == Head(chan[p])
<1>3. ASSUME TakeFsEvent(p, e)
      PROVE  /\ EventType' \/ UNCHANGED raw => chan' \in [Peer -> Seq(FsEvent)]
             /\ e \in FsEvent /\ e.path \in Path
  <2>1. chan[p] # <<>> /\ chan[p] \in Seq(FsEvent)
    BY <1>3 DEF TakeFsEvent
  <2>2. Tail(chan[p]) \in Seq(FsEvent) /\ e \in FsEvent /\ e.path \in Path
    BY <2>1, TakenEvent
  <2> QED
    BY <1>3, <2>2 DEF TakeFsEvent
<1>4. CASE DropFsEvent(p)
  BY <1>3, <1>4 DEF DropFsEvent
<1>5. CASE SuppressFsEvent(p)
  <2>1. TakeFsEvent(p, e)
    BY <1>5 DEF SuppressFsEvent
  <2>2. guard' = guard \/ guard' = [guard EXCEPT ![p] = Expired(@, e.path)]
    BY <1>5 DEF SuppressFsEvent
  <2>3. Expired(guard[p], e.path) \in SUBSET Path
    BY DEF Expired
  <2>4. guard' \in [Peer -> SUBSET Path]
    BY <2>2, <2>3
  <2>5. WindowType'
    BY <1>5, <2>4 DEF SuppressFsEvent
  <2> QED
    BY <1>3, <1>5, <2>1, <2>5 DEF SuppressFsEvent
<1>6. ASSUME TakeChangeEvent(p, e)
      PROVE  TakeFsEvent(p, e) /\ WindowType'
  <2>1. e.path \in Path
    BY <1>3, <1>6 DEF TakeChangeEvent
  <2> QED
    BY <1>6, <2>1 DEF TakeChangeEvent, Expired
<1>7. CASE IgnoreFsEvent(p)
  <2>1. TakeChangeEvent(p, e)
    BY <1>7 DEF IgnoreFsEvent
  <2> QED
    BY <1>3, <1>6, <1>7, <2>1 DEF IgnoreFsEvent
<1>8. ASSUME NEW ts \in Nat, AnnounceChange(p, ts)
      PROVE  TypeOK'
  <2> DEFINE x == e.path
             clock == Tick(LocalClock(p, x), p)
             note == [kind |-> "changed", path |-> x, data |-> disk[p][x],
                      clock |-> clock, ts |-> ts, peer |-> p]
  <2>1. TakeChangeEvent(p, e) /\ Announceable(p, x)
    BY <1>8 DEF AnnounceChange
  <2>2. x \in Path /\ x \in File /\ disk[p][x] \in Content /\ ts \in Nat
    BY <1>3, <1>6, <2>1 DEF Announceable, Path, Folder
  <2>3. clock \in VectorClock
    BY <2>2, LocalMetaTypes, ClockTypes
  <2>4. note \in Note
    BY <2>2, <2>3 DEF Note
  <2>5. GossipType'
    <3>1. gossip' = gossip \cup {[note |-> note, has |-> {p}]}
      BY <1>8 DEF AnnounceChange, Publish
    <3> QED
      BY <2>4, <3>1
  <2>6. IndexType'
    BY <1>8, <2>2, <2>3 DEF AnnounceChange, Folder, Meta
  <2>7. GroupType'
    <3>1. issued' = [issued EXCEPT ![p] = [issued[p] EXCEPT ![x] = issued[p][x] + 1]]
      BY <1>8 DEF AnnounceChange
    <3>2. [issued[p] EXCEPT ![x] = issued[p][x] + 1] \in [File -> Nat]
      BY <2>2
    <3>3. UNCHANGED <<status, met, ops>>
      BY <1>8 DEF AnnounceChange
    <3> HIDE DEF x
    <3> QED
      BY <3>1, <3>2, <3>3
  <2>8. FolderType' /\ TaskType' /\ WindowType' /\ EventType'
    BY <1>3, <1>6, <1>8, <2>1 DEF AnnounceChange
  <2> QED
    BY <2>5, <2>6, <2>7, <2>8
<1>9. ASSUME NEW ts \in Nat, AnnounceRemoval(p, ts)
      PROVE  TypeOK'
  <2> DEFINE x == e.path
             note == [kind |-> "deleted", path |-> x, data |-> <<>>,
                      clock |-> LocalClock(p, x), ts |-> ts, peer |-> p]
  <2>1. TakeFsEvent(p, e)
    BY <1>9 DEF AnnounceRemoval
  <2>2. x \in Path /\ ts \in Nat
    BY <1>3, <2>1
  <2>3. note \in Note
    BY <2>2, LocalMetaTypes, EmptyIsContent DEF Note
  <2>4. GossipType'
    BY <1>9, <2>3 DEF AnnounceRemoval, Publish
  <2>5. IndexType'
    BY <1>9, <2>2, <2>3 DEF AnnounceRemoval, Forget, Folder
  <2>6. GroupType' /\ FolderType' /\ TaskType' /\ WindowType' /\ EventType'
    BY <1>3, <1>9, <2>1 DEF AnnounceRemoval
  <2> QED
    BY <2>4, <2>5, <2>6
<1> QED
  BY <1>1, <1>2, <1>4, <1>5, <1>7, <1>8, <1>9

LEMMA ArrivalTypes ==
  ASSUME TypeOK, NEW p \in Peer, ArrivalStep(p)
  PROVE  TypeOK'
<1>1. ASSUME NEW m \in gossip, NEW r \in Peer, Relay(m, r, p)
      PROVE  TypeOK'
  <2> HIDE DEF GroupType, FolderType, IndexType, WindowType, EventType, TaskType
  <2>1. m \in [note : Note, has : SUBSET Peer]
    OBVIOUS
  <2>2. m.note \in Note /\ [m EXCEPT !.has = @ \cup {p}] \in [note : Note, has : SUBSET Peer]
    BY <2>1
  <2> USE DEF GroupType, FolderType, IndexType, WindowType, EventType, TaskType
  <2>3. [source |-> r, note |-> m.note] \in Delivery
    BY <2>2 DEF Delivery
  <2>4. GossipType'
    BY <1>1, <2>2 DEF Relay
  <2>5. inbox' \in [Peer -> SUBSET Delivery]
    BY <1>1, <2>3 DEF Relay
  <2> QED
    BY <1>1, <2>4, <2>5 DEF Relay
<1>2. ASSUME NEW q \in Peer, Discover(p, q)
      PROVE  TypeOK'
  <2>1. EmptyFolder \in Folder
    BY DEF EmptyFolder, Folder
  <2>2. [pc |-> "root", source |-> q, tree |-> EmptyFolder, todo |-> {},
         id |-> ops + 1] \in Reconcile
    BY <2>1 DEF Reconcile
  <2>3. recon' \in [Peer -> SUBSET Reconcile]
    BY <1>2, <2>2 DEF Discover
  <2> QED
    BY <1>2, <2>3 DEF Discover
<1> QED
  BY <1>1, <1>2 DEF ArrivalStep

LEMMA StartFetchTypes ==
  ASSUME TypeOK, NEW p \in Peer, NEW x \in Path, NEW d \in inbox[p],
         StartFetch(p, x, d)
  PROVE  fetches' \in [Peer -> SUBSET Fetch]
<1> DEFINE f == [pc |-> "request", source |-> d.source, path |-> x,
                 n |-> Len(d.note.data), clock |-> d.note.clock, ts |-> d.note.ts,
                 data |-> <<>>, hash |-> d.note.data, id |-> 0]
<1>1. d.source \in Peer /\ d.note \in Note
  BY DEF Delivery
<1>2. /\ d.note.data \in Content /\ Len(d.note.data) \in Nat
      /\ d.note.clock \in VectorClock /\ d.note.ts \in Nat
  BY <1>1, LenOfContent DEF Note
<1>3. f \in Fetch
  BY <1>1, <1>2, EmptyIsContent DEF Fetch
<1>4. fetches' = fetches \/ fetches' = [fetches EXCEPT ![p] = fetches[p] \cup {f}]
  BY DEF StartFetch
<1>5. fetches[p] \cup {f} \in SUBSET Fetch
  BY <1>3
<1> HIDE DEF f
<1> QED
  BY <1>4, <1>5

\* The five decisions of handle_notification.
LEMMA HandlerTypes ==
  ASSUME TypeOK, NEW p \in Peer, NEW d \in inbox[p],
         \/ AcceptChange(p, d) \/ RejectChange(p, d)
         \/ \E copied \in BOOLEAN : LoseConflict(p, d, copied)
         \/ WinConflict(p, d) \/ RemoveFile(p, d)
  PROVE  TypeOK'
<1> DEFINE x == d.note.path
<1>1. d.source \in Peer /\ d.note \in Note /\ x \in Path /\ d.note.peer \in Peer
  BY DEF Delivery, Note, Path
<1>2. ASSUME d.note.kind = "changed"
      PROVE  x \in File /\ \A q \in Peer : ConflictName[<<x, q>>] \in Path
  BY <1>1, <1>2, PathAssumption DEF Note, Path
<1>3. CASE AcceptChange(p, d)
  <2>1. fetches' \in [Peer -> SUBSET Fetch]
    BY <1>1, <1>3, StartFetchTypes DEF AcceptChange
  <2>2. guard' \in [Peer -> SUBSET Path] /\ inbox' \in [Peer -> SUBSET Delivery]
    BY <1>1, <1>3 DEF AcceptChange, TakeChange, Mark
  <2> QED
    BY <1>3, <2>1, <2>2 DEF AcceptChange
<1>4. CASE RejectChange(p, d)
  BY <1>4 DEF RejectChange, TakeChange
<1>5. ASSUME NEW copied \in BOOLEAN, LoseConflict(p, d, copied)
      PROVE  TypeOK'
  <2> DEFINE b == ConflictName[<<x, p>>]
  <2>1. b \in Path
    BY <1>2, <1>5 DEF LoseConflict, TakeChange
  <2>2. fetches' \in [Peer -> SUBSET Fetch]
    BY <1>1, <1>5, StartFetchTypes DEF LoseConflict
  <2>3. Watched(p, "changed", b) \in Seq(FsEvent)
    BY <2>1, WatchedEvents
  <2>4. FolderType' /\ raw' \in [Peer -> Seq(FsEvent)]
    <3>1. CASE copied /\ disk[p][x] # None
      <4>1. /\ disk' = [disk EXCEPT ![p][b] = disk[p][x]]
            /\ raw' = [raw EXCEPT ![p] = Watched(p, "changed", b)]
        BY <1>5, <3>1 DEF LoseConflict
      <4>2. disk[p][x] \in Content
        BY <1>1, <3>1 DEF Folder
      <4>3. [disk[p] EXCEPT ![b] = disk[p][x]] \in Folder
        BY <2>1, <4>2 DEF Folder
      <4> HIDE DEF b
      <4> QED
        BY <2>3, <4>1, <4>3
    <3>2. CASE ~(copied /\ disk[p][x] # None)
      BY <1>5, <3>2 DEF LoseConflict
    <3> QED
      BY <3>1, <3>2
  <2>5. inbox' \in [Peer -> SUBSET Delivery]
    BY <1>5 DEF LoseConflict, TakeChange
  <2> QED
    BY <1>5, <2>2, <2>4, <2>5 DEF LoseConflict
<1>6. CASE WinConflict(p, d)
  <2>1. ConflictName[<<x, d.note.peer>>] \in Path
    BY <1>1, <1>2, <1>6 DEF WinConflict, TakeChange
  <2>2. fetches' \in [Peer -> SUBSET Fetch]
    BY <1>6, <2>1, StartFetchTypes DEF WinConflict
  <2>3. inbox' \in [Peer -> SUBSET Delivery]
    BY <1>6 DEF WinConflict, TakeChange
  <2> QED
    BY <1>6, <2>2, <2>3 DEF WinConflict
<1>7. CASE RemoveFile(p, d)
  <2>1. Watched(p, "removed", x) \in Seq(FsEvent)
    BY <1>1, WatchedEvents
  <2>2. FolderType' /\ raw' \in [Peer -> Seq(FsEvent)]
    <3>1. CASE disk[p][x] # None
      <4>1. /\ disk' = [disk EXCEPT ![p][x] = None]
            /\ raw' = [raw EXCEPT ![p] = Watched(p, "removed", x)]
        BY <1>7, <3>1 DEF RemoveFile
      <4>2. [disk[p] EXCEPT ![x] = None] \in Folder
        BY <1>1 DEF Folder
      <4> QED
        BY <2>1, <4>1, <4>2
    <3>2. CASE disk[p][x] = None
      BY <1>7, <3>2 DEF RemoveFile
    <3> QED
      BY <3>1, <3>2
  <2>3. /\ inbox' \in [Peer -> SUBSET Delivery]
        /\ unindex' \in [Peer -> SUBSET Note]
    BY <1>1, <1>7 DEF RemoveFile
  <2> QED
    BY <1>7, <2>2, <2>3 DEF RemoveFile
<1> QED
  BY <1>3, <1>4, <1>5, <1>6, <1>7

LEMMA UnindexTypes ==
  ASSUME TypeOK, NEW p \in Peer, NEW note \in unindex[p], Unindex(p, note)
  PROVE  TypeOK'
<1>1. note \in Note /\ note.path \in Path
  BY DEF Note, Path
<1>2. IndexType'
  BY <1>1 DEF Unindex, Forget, Folder
<1> QED
  BY <1>2 DEF Unindex

LEMMA FetchTypes ==
  ASSUME TypeOK, NEW p \in Peer, NEW f \in fetches[p],
         \/ ServeChunks(p, f) \/ RequestFails(p, f) \/ Assemble(p, f)
         \/ WriteFile(p, f) \/ WriteFails(p, f) \/ IndexFile(p, f)
  PROVE  TypeOK'
<1>1. /\ f \in Fetch /\ f.source \in Peer /\ f.path \in Path /\ f.n \in Nat
      /\ f.clock \in VectorClock /\ f.ts \in Nat /\ f.data \in Content
  BY DEF Fetch
<1>2. ASSUME EndFetch(p, f)
      PROVE  fetches' \in [Peer -> SUBSET Fetch]
  BY <1>2 DEF EndFetch
<1>3. ASSUME NEW g \in Fetch, Step(p, f, g)
      PROVE  fetches' \in [Peer -> SUBSET Fetch]
  BY <1>3 DEF Step
<1>4. CASE ServeChunks(p, f)
  <2> DEFINE c == disk[f.source][f.path]
             g == [f EXCEPT !.pc = "assemble", !.data = Served(c, f.n)]
  <2>1. CASE c = None
    BY <1>2, <1>4, <2>1 DEF ServeChunks
  <2>2. CASE c # None
    <3>1. c \in Content
      BY <1>1, <2>2 DEF Folder
    <3>2. Served(c, f.n) \in Content
      BY <1>1, <3>1, ServedPrefix
    <3>3. g \in Fetch
      BY <1>1, <3>2 DEF Fetch
    <3>4. Step(p, f, g)
      BY <1>4, <2>2 DEF ServeChunks
    <3> QED
      BY <1>3, <1>4, <3>3, <3>4 DEF ServeChunks
  <2> QED
    BY <2>1, <2>2
<1>5. CASE RequestFails(p, f)
  BY <1>2, <1>5 DEF RequestFails
<1>6. CASE Assemble(p, f)
  <2> DEFINE g == [f EXCEPT !.pc = "write",
                            !.data = Overlay(ReadOrEmpty(disk[p][f.path]), f.data)]
  <2>1. ReadOrEmpty(disk[p][f.path]) \in Content
    BY <1>1, ReadIsContent DEF Folder
  <2>2. Overlay(ReadOrEmpty(disk[p][f.path]), f.data) \in Content
    BY <1>1, <2>1, OverlayInPlace
  <2>3. g \in Fetch
    BY <1>1, <2>2 DEF Fetch
  <2>4. EndFetch(p, f) \/ Step(p, f, g)
    BY <1>6 DEF Assemble
  <2>5. fetches' \in [Peer -> SUBSET Fetch]
    BY <1>2, <1>3, <2>3, <2>4
  <2> QED
    BY <1>6, <2>5 DEF Assemble
<1>7. CASE WriteFile(p, f)
  <2> DEFINE g == [f EXCEPT !.pc = "index"]
  <2>1. g \in Fetch
    BY <1>1 DEF Fetch
  <2>2. fetches' \in [Peer -> SUBSET Fetch]
    BY <1>3, <1>7, <2>1 DEF WriteFile
  <2>3. Watched(p, "changed", f.path) \in Seq(FsEvent)
    BY <1>1, WatchedEvents
  <2>4. FolderType'
    BY <1>1, <1>7 DEF WriteFile, Folder
  <2>5. guard' \in [Peer -> SUBSET Path] /\ raw' \in [Peer -> Seq(FsEvent)]
    BY <1>1, <1>7, <2>3 DEF WriteFile, Mark
  <2> QED
    BY <1>7, <2>2, <2>4, <2>5 DEF WriteFile
<1>8. CASE WriteFails(p, f)
  <2>1. guard' \in [Peer -> SUBSET Path]
    BY <1>1, <1>8 DEF WriteFails, Mark
  <2> QED
    BY <1>2, <1>8, <2>1 DEF WriteFails
<1>9. CASE IndexFile(p, f)
  <2>1. Merge(LocalClock(p, f.path), f.clock) \in VectorClock
    BY <1>1, LocalMetaTypes, ClockTypes
  <2>2. IndexType'
    BY <1>1, <1>9, <2>1 DEF IndexFile, Applied, Folder, Meta
  <2> QED
    BY <1>2, <1>9, <2>2 DEF IndexFile
<1> QED
  BY <1>4, <1>5, <1>6, <1>7, <1>8, <1>9

LEMMA ReconcileTypes ==
  ASSUME TypeOK, NEW p \in Peer, NEW r \in recon[p],
         \/ ServeRootHash(p, r) \/ CompareRoots(p, r) \/ ServeTree(p, r)
         \/ DiffTrees(p, r) \/ ReconcileFails(p, r) \/ ReconcileComplete(p, r)
         \/ \E x \in Path, ts \in Nat : FetchNext(p, r, x, ts)
  PROVE  TypeOK'
<1>1. /\ r \in Reconcile /\ r.source \in Peer /\ r.tree \in Folder
      /\ r.todo \in SUBSET Path /\ r.id \in Nat
      /\ r.pc # "fetch" => r.todo = {}
      /\ \A x \in r.todo : r.tree[x] # None
  BY DEF Reconcile
<1>2. ASSUME EndRecon(p, r)
      PROVE  recon' \in [Peer -> SUBSET Reconcile]
  BY <1>2 DEF EndRecon
<1>3. ASSUME NEW s \in Reconcile, StepRecon(p, r, s)
      PROVE  recon' \in [Peer -> SUBSET Reconcile]
  BY <1>3 DEF StepRecon
<1>4. ASSUME NEW t \in Folder, r.pc # "fetch"
      PROVE  /\ [r EXCEPT !.pc = "compare", !.tree = t] \in Reconcile
             /\ [r EXCEPT !.pc = "tree", !.tree = t] \in Reconcile
             /\ [r EXCEPT !.pc = "diff", !.tree = t] \in Reconcile
  BY <1>1, <1>4 DEF Reconcile
<1>5. ASSUME NEW todo \in SUBSET Path, \A x \in todo : r.tree[x] # None
      PROVE  /\ [r EXCEPT !.pc = "fetch", !.todo = todo] \in Reconcile
             /\ r.pc = "fetch" => [r EXCEPT !.todo = todo] \in Reconcile
  BY <1>1, <1>5 DEF Reconcile
<1>6. CASE ServeRootHash(p, r)
  <2>1. tree[r.source] \in Folder
    BY <1>1
  <2> QED
    BY <1>3, <1>4, <1>6, <2>1 DEF ServeRootHash, ReconAt
<1>7. CASE CompareRoots(p, r)
  <2>1. EmptyFolder \in Folder
    BY DEF EmptyFolder, Folder
  <2>2. recon' \in [Peer -> SUBSET Reconcile]
    BY <1>2, <1>3, <1>4, <1>7, <2>1 DEF CompareRoots, ReconAt
  <2> QED
    BY <1>7, <2>2 DEF CompareRoots
<1>8. CASE ServeTree(p, r)
  <2>1. tree[r.source] \in Folder
    BY <1>1
  <2> QED
    BY <1>3, <1>4, <1>8, <2>1 DEF ServeTree, ReconAt
<1>9. CASE DiffTrees(p, r)
  <2> DEFINE todo == ToPull(p, r)
  <2>1. todo \in SUBSET Path /\ \A x \in todo : r.tree[x] # None
    BY DEF ToPull, Diff
  <2>2. recon' \in [Peer -> SUBSET Reconcile]
    BY <1>3, <1>5, <1>9, <2>1 DEF DiffTrees
  <2> QED
    BY <1>9, <2>2 DEF DiffTrees
<1>10. CASE ReconcileFails(p, r)
  BY <1>2, <1>10 DEF ReconcileFails
<1>11. CASE ReconcileComplete(p, r)
  BY <1>2, <1>11 DEF ReconcileComplete
<1>12. ASSUME NEW x \in Path, NEW ts \in Nat, FetchNext(p, r, x, ts)
       PROVE  TypeOK'
  <2> DEFINE f == [pc |-> "request", source |-> r.source, path |-> x,
                   n |-> Len(r.tree[x]), clock |-> NewClock, ts |-> ts,
                   data |-> <<>>, hash |-> r.tree[x], id |-> r.id]
  <2>1. x \in r.todo /\ r.pc = "fetch" /\ StepRecon(p, r, [r EXCEPT !.todo = r.todo \ {x}])
    BY <1>12 DEF FetchNext, ReconAt
  <2>2. [r EXCEPT !.todo = r.todo \ {x}] \in Reconcile
    BY <1>1, <1>5, <2>1
  <2>3. recon' \in [Peer -> SUBSET Reconcile]
    BY <1>3, <2>1, <2>2
  <2>4. r.tree[x] \in Content /\ Len(r.tree[x]) \in Nat
    BY <1>1, <2>1, LenOfContent DEF Folder
  <2>5. f \in Fetch
    BY <1>1, <2>4, ClockTypes, EmptyIsContent DEF Fetch
  <2>6. fetches' \in [Peer -> SUBSET Fetch]
    BY <1>12, <2>5 DEF FetchNext
  <2> QED
    BY <1>12, <2>3, <2>6 DEF FetchNext
<1> QED
  BY <1>6, <1>7, <1>8, <1>9, <1>10, <1>11, <1>12

LEMMA TaskTypes ==
  ASSUME TypeOK, NEW p \in Peer, NEW ts \in Nat, TaskStep(p, ts)
  PROVE  TypeOK'
<1> HIDE DEF TypeOK
<1> QED
  BY HandlerTypes, UnindexTypes, FetchTypes, ReconcileTypes DEF TaskStep

LEMMA FailureTypes ==
  ASSUME TypeOK, NEW p \in Peer, FailureStep(p)
  PROVE  TypeOK'
<1> HIDE DEF TypeOK
<1> QED
  BY HandlerTypes, FetchTypes, ReconcileTypes DEF FailureStep

LEMMA LossTypes ==
  ASSUME TypeOK, NEW m \in gossip, LoseGossip(m)
  PROVE  TypeOK'
BY DEF LoseGossip

LEMMA InitTypes == Init => TypeOK
<1> SUFFICES ASSUME Init PROVE TypeOK
  OBVIOUS
<1>1. GroupType
  BY InitAssumption DEF Init, Status
<1>2. FolderType
  BY InitAssumption DEF Init
<1>3. EmptyFolder \in Folder /\ EmptyFolder \in [Path -> Meta \cup {None}]
  BY DEF EmptyFolder, Folder
<1>4. IndexType
  <2>1. PICK ts \in Timestamp :
          meta = [p \in Peer |-> IF Running(p) THEN ScanMeta(p, ts) ELSE EmptyFolder]
    BY DEF Init
  <2>2. \A p \in Peer : Scan(p) \in Folder /\ ScanMeta(p, ts) \in [Path -> Meta \cup {None}]
    BY <1>2, ScanTypes
  <2>3. meta \in [Peer -> [Path -> Meta \cup {None}]]
    BY <1>3, <2>1, <2>2
  <2>4. tree \in [Peer -> Folder] /\ tombstones \in [Peer -> SUBSET Note]
    BY <1>3, <2>2 DEF Init
  <2> QED
    BY <2>3, <2>4
<1>5. WindowType /\ EventType /\ GossipType /\ TaskType
  BY DEF Init
<1> QED
  BY <1>1, <1>2, <1>4, <1>5

LEMMA NextTypes == TypeOK /\ [Next]_vars => TypeOK'
<1> HIDE DEF TypeOK
<1> SUFFICES ASSUME TypeOK, [Next]_vars PROVE TypeOK'
  OBVIOUS
<1>1. CASE UNCHANGED vars
  BY <1>1 DEF vars, TypeOK
<1>2. CASE Next
  BY <1>2, UserTypes, LifeTypes, WatchTypes, ArrivalTypes, TaskTypes,
     FailureTypes, LossTypes, BoundAssumption DEF Next, UserStep, WatchStep
<1> QED
  BY <1>1, <1>2

\* Every handler, task and failure of the engine keeps every component's state
\* well formed; in particular a reconcile never fetches a path whose node the
\* source did not send.
THEOREM TypeCorrect == Spec => []TypeOK
<1> HIDE DEF TypeOK
<1> QED
  BY InitTypes, NextTypes, PTL DEF Spec

HIDE DEF TypeOK, GroupType, FolderType, IndexType, WindowType, EventType, GossipType, TaskType

-----------------------------------------------------------------------------
(* Which steps touch an index *)

\* The steps that can change an index.
IndexStep ==
  \E p \in Peer :
    \/ \E ts \in Timestamp : \/ BuildIndex(p, ts)
                             \/ AnnounceChange(p, ts)
                             \/ AnnounceRemoval(p, ts)
    \/ \E q \in Peer : Restart(p, q)
    \/ \E note \in unindex[p] : Unindex(p, note)
    \/ \E f \in fetches[p] : IndexFile(p, f)

LEMMA IndexFrame ==
  ASSUME [Next]_vars PROVE IndexStep \/ UNCHANGED <<tree, meta>>
<1>1. CASE UNCHANGED vars
  BY <1>1 DEF vars
<1>2. ASSUME NEW p \in Peer, UserStep(p)
      PROVE  UNCHANGED <<tree, meta>>
  BY <1>2 DEF UserStep, UserWrite, UserRemove, UserMoveAway
<1>3. ASSUME NEW p \in Peer, LifeStep(p)
      PROVE  IndexStep \/ UNCHANGED <<tree, meta>>
  BY <1>3 DEF LifeStep, StartWatching, Disconnect, Pause, IndexStep
<1>4. ASSUME NEW p \in Peer, WatchStep(p)
      PROVE  IndexStep \/ UNCHANGED <<tree, meta>>
  BY <1>4 DEF WatchStep, BridgeDrops, BridgeForwards, DropFsEvent, SuppressFsEvent,
     IgnoreFsEvent, IndexStep
<1>5. ASSUME NEW p \in Peer, ArrivalStep(p)
      PROVE  UNCHANGED <<tree, meta>>
  BY <1>5 DEF ArrivalStep, Relay, Discover
<1>6. ASSUME NEW p \in Peer, NEW ts \in Timestamp, TaskStep(p, ts)
      PROVE  IndexStep \/ UNCHANGED <<tree, meta>>
  BY <1>6 DEF TaskStep, AcceptChange, RejectChange, LoseConflict, WinConflict,
     RemoveFile, ServeChunks, Assemble, WriteFile, ServeRootHash, CompareRoots,
     ServeTree, DiffTrees, FetchNext, ReconcileComplete, IndexStep
<1>7. ASSUME NEW p \in Peer, FailureStep(p)
      PROVE  UNCHANGED <<tree, meta>>
  BY <1>7 DEF FailureStep, LoseConflict, RequestFails, WriteFails, ReconcileFails
<1>8. ASSUME NEW m \in gossip, LoseGossip(m)
      PROVE  UNCHANGED <<tree, meta>>
  BY <1>8 DEF LoseGossip
<1> QED
  BY <1>1, <1>2, <1>3, <1>4, <1>5, <1>6, <1>7, <1>8 DEF Next

\* An announced change is of a file that is on disk and not excluded.
LEMMA Announced ==
  ASSUME TypeOK, NEW p \in Peer, NEW ts \in Timestamp, AnnounceChange(p, ts)
  PROVE  LET x == Head(chan[p]).path IN
         /\ x \in File /\ x \in Path /\ x \notin Excluded[p]
         /\ disk[p][x] \in Content
         /\ [clock |-> Tick(LocalClock(p, x), p), ts |-> ts] \in Meta
<1> DEFINE x == Head(chan[p]).path
<1>1. chan[p] \in Seq(FsEvent) /\ chan[p] # <<>>
  BY DEF TypeOK, EventType, AnnounceChange, TakeChangeEvent, TakeFsEvent
<1>2. x \in Path
  BY <1>1, TakenEvent
<1>3. x \notin Backup /\ disk[p][x] # None /\ x \notin Excluded[p]
  BY DEF AnnounceChange, Announceable
<1>4. LocalClock(p, x) \in VectorClock /\ ts \in Nat
  BY <1>2, LocalMetaTypes, BoundAssumption DEF TypeOK
<1>5. [clock |-> Tick(LocalClock(p, x), p), ts |-> ts] \in Meta
  BY <1>4, ClockTypes DEF Meta
<1>6. disk[p][x] \in Content
  BY <1>2, <1>3 DEF TypeOK, FolderType, Folder
<1> QED
  BY <1>2, <1>3, <1>5, <1>6 DEF Path

LEMMA Removed ==
  ASSUME TypeOK, NEW p \in Peer, NEW ts \in Timestamp, AnnounceRemoval(p, ts)
  PROVE  Head(chan[p]).path \in Path
BY TakenEvent DEF TypeOK, EventType, AnnounceRemoval, TakeFsEvent

LEMMA Unindexed ==
  ASSUME TypeOK, NEW p \in Peer, NEW note \in unindex[p]
  PROVE  note \in Note /\ note.path \in Path
BY DEF TypeOK, TaskType, Note, Path

\* What IndexFile puts into the index.
LEMMA Indexed ==
  ASSUME TypeOK, NEW p \in Peer, NEW f \in fetches[p]
  PROVE  /\ f.path \in Path /\ f.data \in Content
         /\ LocalClock(p, f.path) \in VectorClock /\ f.clock \in VectorClock
         /\ Applied(p, f) \in Meta
<1>1. f \in Fetch
  BY DEF TypeOK, TaskType
<1>2. /\ f.path \in Path /\ f.data \in Content
      /\ f.clock \in VectorClock /\ f.ts \in Nat
  BY <1>1 DEF Fetch
<1>3. LocalClock(p, f.path) \in VectorClock
  BY <1>2, LocalMetaTypes DEF TypeOK
<1> QED
  BY <1>2, <1>3, ClockTypes DEF Applied, Meta

-----------------------------------------------------------------------------
(* The tree and the metadata of an index *)

LEMMA IndexStepMatches ==
  ASSUME TypeOK, TreeMatchesMeta, IndexStep
  PROVE  TreeMatchesMeta'
<1> USE NoneAssumption, ContentAssumption DEF TreeMatchesMeta
<1>1. /\ tree \in [Peer -> Folder]
      /\ meta \in [Peer -> [Path -> Meta \cup {None}]]
  BY DEF TypeOK, IndexType
<1>2. ASSUME NEW p \in Peer, NEW ts \in Timestamp, BuildIndex(p, ts)
      PROVE  TreeMatchesMeta'
  <2>1. \A x \in Path : ScanMeta(p, ts)[x] = None <=> Scan(p)[x] = None
    BY BoundAssumption, ClockTypes DEF ScanMeta, Meta
  <2> QED
    BY <1>1, <1>2, <2>1 DEF BuildIndex
<1>3. ASSUME NEW p \in Peer, NEW q \in Peer, Restart(p, q)
      PROVE  TreeMatchesMeta'
  BY <1>1, <1>3 DEF Restart, EmptyFolder
<1>4. ASSUME NEW p \in Peer, NEW ts \in Timestamp, AnnounceChange(p, ts)
      PROVE  TreeMatchesMeta'
  <2> DEFINE x == Head(chan[p]).path
             m == [clock |-> Tick(LocalClock(p, x), p), ts |-> ts]
  <2>1. x \in Path /\ disk[p][x] \in Content /\ m \in Meta
    BY <1>4, Announced
  <2>2. /\ tree' = [tree EXCEPT ![p][x] = disk[p][x]]
        /\ meta' = [meta EXCEPT ![p][x] = m]
    BY <1>4 DEF AnnounceChange
  <2> HIDE DEF x, m
  <2> QED
    BY <1>1, <2>1, <2>2 DEF Folder
<1>5. ASSUME NEW p \in Peer, NEW ts \in Timestamp, AnnounceRemoval(p, ts)
      PROVE  TreeMatchesMeta'
  BY <1>1, <1>5, Removed DEF AnnounceRemoval, Forget, Folder
<1>6. ASSUME NEW p \in Peer, NEW note \in unindex[p], Unindex(p, note)
      PROVE  TreeMatchesMeta'
  BY <1>1, <1>6 DEF Unindex, Forget, Folder
<1>7. ASSUME NEW p \in Peer, NEW f \in fetches[p], IndexFile(p, f)
      PROVE  TreeMatchesMeta'
  <2> DEFINE m == Applied(p, f)
  <2>1. f.path \in Path /\ f.data \in Content /\ m \in Meta
    BY Indexed
  <2>2. /\ tree' = [tree EXCEPT ![p][f.path] = f.data]
        /\ meta' = [meta EXCEPT ![p][f.path] = m]
    BY <1>7 DEF IndexFile
  <2> HIDE DEF m
  <2> QED
    BY <1>1, <2>1, <2>2 DEF Folder
<1> QED
  BY <1>2, <1>3, <1>4, <1>5, <1>6, <1>7 DEF IndexStep

LEMMA InitMatches == Init => TreeMatchesMeta
<1> SUFFICES ASSUME Init PROVE TreeMatchesMeta
  OBVIOUS
<1>1. PICK ts \in Timestamp :
        meta = [p \in Peer |-> IF Running(p) THEN ScanMeta(p, ts) ELSE EmptyFolder]
  BY DEF Init
<1>2. ASSUME NEW p \in Peer
      PROVE  \A x \in Path : ScanMeta(p, ts)[x] = None <=> Scan(p)[x] = None
  BY BoundAssumption, NoneAssumption, ClockTypes DEF ScanMeta, Meta
<1> QED
  BY <1>1, <1>2 DEF Init, TreeMatchesMeta, EmptyFolder

\* A path has metadata exactly when the Merkle tree has a node for it, however
\* local events, fetches, deletions, failures and restarts interleave.
THEOREM TreeAndMetaAgree == Spec => []TreeMatchesMeta
<1>1. TypeOK /\ TreeMatchesMeta /\ [Next]_vars => TreeMatchesMeta'
  BY IndexFrame, IndexStepMatches DEF TreeMatchesMeta
<1> QED
  BY <1>1, TypeCorrect, InitMatches, PTL DEF Spec

-----------------------------------------------------------------------------
(* Clocks *)

\* A process that is not running has no index.
NoIndex == \A p \in Peer : status[p] \notin {"indexed", "up"} => meta[p] = EmptyFolder

LEMMA IndexStepGrows ==
  ASSUME TypeOK, NoIndex, IndexStep,
         NEW p \in Peer, NEW x \in Path, meta[p][x] # None, meta'[p][x] # None
  PROVE  Dominates(meta'[p][x].clock, meta[p][x].clock)
<1> DEFINE old == meta[p][x].clock
<1>1. meta \in [Peer -> [Path -> Meta \cup {None}]]
  BY DEF TypeOK, IndexType
<1>2. old \in VectorClock
  BY <1>1 DEF Meta
<1>3. Dominates(old, old)
  BY <1>2 DEF Dominates, VectorClock
<1>4. ASSUME NEW q \in Peer, NEW ts \in Timestamp, BuildIndex(q, ts)
      PROVE  meta'[p][x].clock = old
  <2>1. meta[q] = EmptyFolder
    BY <1>4 DEF BuildIndex, NoIndex
  <2>2. p # q
    BY <2>1 DEF EmptyFolder
  <2> QED
    BY <1>4, <2>2, <1>1 DEF BuildIndex
<1>5. ASSUME NEW q \in Peer, NEW r \in Peer, Restart(q, r)
      PROVE  meta'[p][x].clock = old
  BY <1>1, <1>5 DEF Restart, EmptyFolder
<1>6. ASSUME NEW q \in Peer, NEW ts \in Timestamp, AnnounceChange(q, ts)
      PROVE  Dominates(meta'[p][x].clock, old)
  <2> DEFINE y == Head(chan[q]).path
  <2>1. y \in Path
    BY <1>6, Announced
  <2>2. meta' = [meta EXCEPT ![q][y] = [clock |-> Tick(LocalClock(q, y), q), ts |-> ts]]
    BY <1>6 DEF AnnounceChange
  <2>3. CASE p = q /\ x = y
    <3>1. meta'[p][x].clock = Tick(old, q)
      BY <1>1, <2>1, <2>2, <2>3 DEF LocalClock
    <3> QED
      BY <1>2, <3>1, TickDominates
  <2>4. CASE ~(p = q /\ x = y)
    BY <1>1, <1>3, <2>1, <2>2, <2>4
  <2> QED
    BY <2>3, <2>4
<1>7. ASSUME NEW q \in Peer, NEW ts \in Timestamp, AnnounceRemoval(q, ts)
      PROVE  meta'[p][x].clock = old
  BY <1>1, <1>7, Removed DEF AnnounceRemoval, Forget
<1>8. ASSUME NEW q \in Peer, NEW note \in unindex[q], Unindex(q, note)
      PROVE  meta'[p][x].clock = old
  <2>1. note.path \in Path /\ meta' = [meta EXCEPT ![q][note.path] = None]
    BY <1>8, Unindexed DEF Unindex, Forget
  <2>2. ~(p = q /\ x = note.path)
    BY <1>1, <2>1
  <2> QED
    BY <1>1, <2>1, <2>2
<1>9. ASSUME NEW q \in Peer, NEW f \in fetches[q], IndexFile(q, f)
      PROVE  Dominates(meta'[p][x].clock, old)
  <2>1. /\ f.path \in Path /\ f.clock \in VectorClock
    BY Indexed
  <2>2. meta' = [meta EXCEPT ![q][f.path] = Applied(q, f)]
    BY <1>9 DEF IndexFile
  <2>3. CASE p = q /\ x = f.path
    <3>1. meta'[p][x].clock = Merge(old, f.clock)
      BY <1>1, <2>1, <2>2, <2>3 DEF Applied, LocalClock
    <3> QED
      BY <1>2, <2>1, <3>1, MergeIsLub
  <2>4. CASE ~(p = q /\ x = f.path)
    BY <1>1, <1>3, <2>1, <2>2, <2>4
  <2> QED
    BY <2>3, <2>4
<1> QED
  BY <1>3, <1>4, <1>5, <1>6, <1>7, <1>8, <1>9 DEF IndexStep

\* The steps that can change which processes have an index.
LEMMA StatusFrame ==
  ASSUME [Next]_vars
  PROVE  \/ UNCHANGED status
         \/ \E p \in Peer : \/ \E ts \in Timestamp : BuildIndex(p, ts)
                           \/ StartWatching(p)
                           \/ \E q \in Peer : Restart(p, q)
<1>1. CASE UNCHANGED vars
  BY <1>1 DEF vars
<1>2. ASSUME NEW p \in Peer, UserStep(p) \/ ArrivalStep(p)
      PROVE  UNCHANGED status
  BY <1>2 DEF UserStep, UserWrite, UserRemove, UserMoveAway, ArrivalStep, Relay, Discover
<1>3. ASSUME NEW p \in Peer, WatchStep(p)
      PROVE  UNCHANGED status
  BY <1>3 DEF WatchStep, BridgeDrops, BridgeForwards, DropFsEvent, SuppressFsEvent,
     IgnoreFsEvent, AnnounceChange, AnnounceRemoval
<1>4. ASSUME NEW p \in Peer, NEW ts \in Timestamp, TaskStep(p, ts)
      PROVE  UNCHANGED status
  BY <1>4 DEF TaskStep, AcceptChange, RejectChange, LoseConflict, WinConflict,
     RemoveFile, Unindex, ServeChunks, Assemble, WriteFile, IndexFile, ServeRootHash,
     CompareRoots, ServeTree, DiffTrees, FetchNext, ReconcileComplete
<1>5. ASSUME NEW p \in Peer, FailureStep(p)
      PROVE  UNCHANGED status
  BY <1>5 DEF FailureStep, LoseConflict, RequestFails, WriteFails, ReconcileFails
<1>6. ASSUME NEW m \in gossip, LoseGossip(m)
      PROVE  UNCHANGED status
  BY <1>6 DEF LoseGossip
<1>7. ASSUME NEW p \in Peer, LifeStep(p)
      PROVE  \/ UNCHANGED status
             \/ \E ts \in Timestamp : BuildIndex(p, ts)
             \/ StartWatching(p)
             \/ \E q \in Peer : Restart(p, q)
  BY <1>7 DEF LifeStep, Disconnect, Pause
<1> QED
  BY <1>1, <1>2, <1>3, <1>4, <1>5, <1>6, <1>7 DEF Next

LEMMA NoIndexStable ==
  ASSUME TypeOK, NoIndex, [Next]_vars
  PROVE  NoIndex'
<1>1. /\ status \in [Peer -> Status]
      /\ meta \in [Peer -> [Path -> Meta \cup {None}]]
  BY DEF TypeOK, IndexType, GroupType
<1>2. ASSUME NEW p \in Peer, NEW ts \in Timestamp, BuildIndex(p, ts)
      PROVE  NoIndex'
  BY <1>1, <1>2 DEF BuildIndex, NoIndex
<1>3. ASSUME NEW p \in Peer, StartWatching(p)
      PROVE  NoIndex'
  BY <1>1, <1>3 DEF StartWatching, NoIndex
<1>4. ASSUME NEW p \in Peer, NEW q \in Peer, Restart(p, q)
      PROVE  NoIndex'
  BY <1>1, <1>4 DEF Restart, NoIndex, EmptyFolder
<1>5. CASE UNCHANGED <<status, meta>>
  BY <1>5 DEF NoIndex, EmptyFolder
<1>6. CASE UNCHANGED status /\ IndexStep
  <2>1. PICK p \in Peer :
          /\ Running(p)
          /\ \A q \in Peer : q # p => meta'[q] = meta[q]
    <3>1. ASSUME NEW p \in Peer, NEW ts \in Timestamp, AnnounceChange(p, ts)
          PROVE  Running(p) /\ \A q \in Peer : q # p => meta'[q] = meta[q]
      BY <1>1, <3>1 DEF AnnounceChange, TakeChangeEvent, TakeFsEvent
    <3>2. ASSUME NEW p \in Peer, NEW ts \in Timestamp, AnnounceRemoval(p, ts)
          PROVE  Running(p) /\ \A q \in Peer : q # p => meta'[q] = meta[q]
      BY <1>1, <3>2 DEF AnnounceRemoval, Forget, TakeFsEvent
    <3>3. ASSUME NEW p \in Peer, NEW note \in unindex[p], Unindex(p, note)
          PROVE  Running(p) /\ \A q \in Peer : q # p => meta'[q] = meta[q]
      BY <1>1, <3>3 DEF Unindex, Forget
    <3>4. ASSUME NEW p \in Peer, NEW f \in fetches[p], IndexFile(p, f)
          PROVE  Running(p) /\ \A q \in Peer : q # p => meta'[q] = meta[q]
      BY <1>1, <3>4 DEF IndexFile, FetchAt
    <3>5. ASSUME NEW p \in Peer, NEW q \in Peer, Restart(p, q)
          PROVE  FALSE
      BY <1>1, <1>6, <3>5 DEF Restart, Running
    <3>6. ASSUME NEW p \in Peer, NEW ts \in Timestamp, BuildIndex(p, ts)
          PROVE  FALSE
      BY <1>1, <1>6, <3>6 DEF BuildIndex
    <3> QED
      BY <1>6, <3>1, <3>2, <3>3, <3>4, <3>5, <3>6 DEF IndexStep
  <2>2. ASSUME NEW q \in Peer, status'[q] \notin {"indexed", "up"}
        PROVE  meta'[q] = EmptyFolder
    BY <1>6, <2>1, <2>2 DEF NoIndex, Running
  <2> QED
    BY <2>2 DEF NoIndex, EmptyFolder
<1> QED
  BY <1>2, <1>3, <1>4, <1>5, <1>6, StatusFrame, IndexFrame

LEMMA InitNoIndex == Init => NoIndex
BY DEF Init, NoIndex, Running, EmptyFolder

\* A peer never forgets an edit of a file it still indexes, whatever it applies.
THEOREM ClocksNeverGoBack == Spec => ClocksOnlyGrow
<1>1. TypeOK /\ NoIndex /\ [Next]_vars =>
        [\A p \in Peer, x \in Path :
           meta[p][x] # None /\ meta'[p][x] # None =>
             Dominates(meta'[p][x].clock, meta[p][x].clock)]_vars
  <2> SUFFICES ASSUME TypeOK, NoIndex, [Next]_vars, ~UNCHANGED vars,
                      NEW p \in Peer, NEW x \in Path,
                      meta[p][x] # None, meta'[p][x] # None
               PROVE  Dominates(meta'[p][x].clock, meta[p][x].clock)
    OBVIOUS
  <2>1. CASE IndexStep
    BY <2>1, IndexStepGrows
  <2>2. CASE UNCHANGED <<tree, meta>>
    BY <2>2 DEF Dominates, TypeOK, IndexType, Meta, VectorClock
  <2> QED
    BY <2>1, <2>2, IndexFrame
<1>2. TypeOK /\ NoIndex /\ [Next]_vars => NoIndex'
  BY NoIndexStable
<1> QED
  BY <1>1, <1>2, InitNoIndex, TypeCorrect, PTL DEF Spec, ClocksOnlyGrow

-----------------------------------------------------------------------------
(* Frames *)

\* The steps of the engine that can change a folder.
FolderStep ==
  \E p \in Peer :
    \/ \E d \in inbox[p] : \/ \E copied \in BOOLEAN : LoseConflict(p, d, copied)
                           \/ RemoveFile(p, d)
    \/ \E f \in fetches[p] : WriteFile(p, f)

\* The steps that can change a folder.
LEMMA WriterFrame ==
  ASSUME [Next]_vars
  PROVE  \/ UNCHANGED disk
         \/ FolderStep
         \/ \E p \in Peer : \/ \E f \in File, v \in Version : UserWrite(p, f, v)
                            \/ \E x \in Path : UserRemove(p, x)
                            \/ \E f \in File : UserMoveAway(p, f)
                            \/ \E q \in Peer : Restart(p, q)
<1>1. CASE UNCHANGED vars
  BY <1>1 DEF vars
<1>2. ASSUME NEW p \in Peer, UserStep(p)
      PROVE  \/ \E f \in File, v \in Version : UserWrite(p, f, v)
             \/ \E x \in Path : UserRemove(p, x)
             \/ \E f \in File : UserMoveAway(p, f)
  BY <1>2 DEF UserStep
<1>3. ASSUME NEW p \in Peer, LifeStep(p)
      PROVE  UNCHANGED disk \/ \E q \in Peer : Restart(p, q)
  BY <1>3 DEF LifeStep, BuildIndex, StartWatching, Disconnect, Pause
<1>4. ASSUME NEW p \in Peer, WatchStep(p) \/ ArrivalStep(p)
      PROVE  UNCHANGED disk
  BY <1>4 DEF WatchStep, BridgeDrops, BridgeForwards, DropFsEvent, SuppressFsEvent,
     IgnoreFsEvent, AnnounceChange, AnnounceRemoval, ArrivalStep, Relay, Discover
<1>5. ASSUME NEW p \in Peer, NEW ts \in Timestamp, TaskStep(p, ts)
      PROVE  FolderStep \/ UNCHANGED disk
  BY <1>5 DEF TaskStep, AcceptChange, RejectChange, WinConflict, Unindex, ServeChunks,
     Assemble, IndexFile, ServeRootHash, CompareRoots, ServeTree, DiffTrees, FetchNext,
     ReconcileComplete, FolderStep
<1>6. ASSUME NEW p \in Peer, FailureStep(p)
      PROVE  FolderStep \/ UNCHANGED disk
  BY <1>6 DEF FailureStep, RequestFails, WriteFails, ReconcileFails, FolderStep
<1>7. ASSUME NEW m \in gossip, LoseGossip(m)
      PROVE  UNCHANGED disk
  BY <1>7 DEF LoseGossip
<1> QED
  BY <1>1, <1>2, <1>3, <1>4, <1>5, <1>6, <1>7 DEF Next

\* Users and machines change folders too, and are counted when they do.
LEMMA FolderFrame ==
  ASSUME TypeOK, [Next]_vars
  PROVE  FolderStep \/ UNCHANGED disk \/ ops' # ops
<1>1. Spend => ops' # ops
  BY DEF TypeOK, GroupType, Spend
<1> QED
  BY <1>1, WriterFrame DEF UserWrite, UserRemove, UserMoveAway, Restart

\* The steps that can give an engine something to do.
TaskChange ==
  \E p \in Peer :
    \/ \E q \in Peer : Restart(p, q)
    \/ \E m \in gossip, r \in Peer : Relay(m, r, p)
    \/ \E q \in Peer : Discover(p, q)
    \/ \E d \in inbox[p] : \/ AcceptChange(p, d) \/ RejectChange(p, d)
                           \/ \E copied \in BOOLEAN : LoseConflict(p, d, copied)
                           \/ WinConflict(p, d) \/ RemoveFile(p, d)
    \/ \E f \in fetches[p] : \/ ServeChunks(p, f) \/ RequestFails(p, f) \/ Assemble(p, f)
                             \/ WriteFile(p, f) \/ WriteFails(p, f) \/ IndexFile(p, f)
    \/ \E r \in recon[p] :
         \/ ServeRootHash(p, r) \/ CompareRoots(p, r) \/ ServeTree(p, r)
         \/ DiffTrees(p, r) \/ ReconcileFails(p, r) \/ ReconcileComplete(p, r)
         \/ \E x \in Path, ts \in Timestamp : FetchNext(p, r, x, ts)

LEMMA TaskFrame ==
  ASSUME [Next]_vars
  PROVE  TaskChange \/ UNCHANGED <<inbox, fetches, recon>>
<1> DEFINE same == UNCHANGED <<inbox, fetches, recon>>
<1>1. CASE UNCHANGED vars
  BY <1>1 DEF vars
<1>2. ASSUME NEW p \in Peer, UserStep(p)
      PROVE  same
  BY <1>2 DEF UserStep, UserWrite, UserRemove, UserMoveAway
<1>3. ASSUME NEW p \in Peer, LifeStep(p)
      PROVE  TaskChange \/ same
  BY <1>3 DEF LifeStep, BuildIndex, StartWatching, Disconnect, Pause, TaskChange
<1>4. ASSUME NEW p \in Peer, WatchStep(p)
      PROVE  same
  BY <1>4 DEF WatchStep, BridgeDrops, BridgeForwards, DropFsEvent, SuppressFsEvent,
     IgnoreFsEvent, AnnounceChange, AnnounceRemoval
<1>5. ASSUME NEW p \in Peer, ArrivalStep(p)
      PROVE  TaskChange
  BY <1>5 DEF ArrivalStep, TaskChange
<1>6. ASSUME NEW p \in Peer, NEW ts \in Timestamp, TaskStep(p, ts)
      PROVE  TaskChange \/ same
  BY <1>6 DEF TaskStep, Unindex, TaskChange
<1>7. ASSUME NEW p \in Peer, FailureStep(p)
      PROVE  TaskChange
  BY <1>7 DEF FailureStep, TaskChange
<1>8. ASSUME NEW m \in gossip, LoseGossip(m)
      PROVE  same
  BY <1>8 DEF LoseGossip
<1> QED
  BY <1>1, <1>2, <1>3, <1>4, <1>5, <1>6, <1>7, <1>8 DEF Next

-----------------------------------------------------------------------------
(* share --readonly *)

\* A no_pull engine has no notification to handle, nothing to fetch, and finds
\* nothing to fetch in a tree it has asked for.
NothingToPull ==
  \A p \in NoPull : /\ inbox[p] = {}
                    /\ fetches[p] = {}
                    /\ \A r \in recon[p] : r.todo = {}

LEMMA NothingToPullStable ==
  ASSUME TypeOK, NothingToPull, [Next]_vars
  PROVE  NothingToPull'
<1> SUFFICES ASSUME TaskChange, NEW p \in NoPull
             PROVE  /\ inbox'[p] = {}
                    /\ fetches'[p] = {}
                    /\ \A r \in recon'[p] : r.todo = {}
  BY TaskFrame DEF NothingToPull
<1>1. /\ inbox \in [Peer -> SUBSET Delivery]
      /\ fetches \in [Peer -> SUBSET Fetch]
      /\ recon \in [Peer -> SUBSET Reconcile]
  BY DEF TypeOK, TaskType
<1>2. /\ p \in Peer /\ inbox[p] = {} /\ fetches[p] = {}
      /\ \A r \in recon[p] : r.todo = {}
  BY ModeAssumption DEF NothingToPull
<1>3. ASSUME NEW q \in Peer, NEW r \in Peer, Restart(q, r)
      PROVE  /\ inbox'[p] = {} /\ fetches'[p] = {}
             /\ \A s \in recon'[p] : s.todo = {}
  BY <1>1, <1>2, <1>3 DEF Restart
<1>4. ASSUME NEW q \in Peer, NEW m \in gossip, NEW r \in Peer, Relay(m, r, q)
      PROVE  /\ inbox'[p] = {} /\ UNCHANGED <<fetches, recon>>
  BY <1>1, <1>2, <1>4 DEF Relay
<1>5. ASSUME NEW q \in Peer, NEW r \in Peer, Discover(q, r)
      PROVE  /\ UNCHANGED <<inbox, fetches>>
             /\ \A s \in recon'[p] : s.todo = {}
  BY <1>1, <1>2, <1>5 DEF Discover
<1>6. ASSUME NEW q \in Peer, NEW d \in inbox[q],
             \/ AcceptChange(q, d) \/ RejectChange(q, d)
             \/ \E copied \in BOOLEAN : LoseConflict(q, d, copied)
             \/ WinConflict(q, d) \/ RemoveFile(q, d)
      PROVE  /\ inbox'[p] = {} /\ fetches'[p] = {} /\ UNCHANGED recon
  <2>1. q # p
    BY <1>2, <1>6
  <2>2. /\ inbox' = [inbox EXCEPT ![q] = @ \ {d}] /\ UNCHANGED recon
        /\ \/ UNCHANGED fetches
           \/ \E x : StartFetch(q, x, d)
    BY <1>6 DEF AcceptChange, RejectChange, LoseConflict, WinConflict, RemoveFile, TakeChange
  <2>3. inbox'[p] = {}
    BY <1>1, <1>2, <2>1, <2>2
  <2>4. ASSUME NEW x, StartFetch(q, x, d) PROVE fetches'[p] = {}
    BY <1>1, <1>2, <2>1, <2>4 DEF StartFetch
  <2> QED
    BY <1>2, <2>2, <2>3, <2>4
<1>7. ASSUME NEW q \in Peer, NEW f \in fetches[q],
             \/ ServeChunks(q, f) \/ RequestFails(q, f) \/ Assemble(q, f)
             \/ WriteFile(q, f) \/ WriteFails(q, f) \/ IndexFile(q, f)
      PROVE  /\ UNCHANGED <<inbox, recon>> /\ fetches'[p] = {}
  <2>1. q # p
    BY <1>2, <1>7
  <2>2. /\ UNCHANGED <<inbox, recon>>
        /\ EndFetch(q, f) \/ \E g : Step(q, f, g)
    BY <1>7 DEF ServeChunks, RequestFails, Assemble, WriteFile, WriteFails, IndexFile
  <2> QED
    BY <1>1, <1>2, <2>1, <2>2 DEF EndFetch, Step
<1>8. ASSUME NEW q \in Peer, NEW r \in recon[q],
             \/ ServeRootHash(q, r) \/ CompareRoots(q, r) \/ ServeTree(q, r)
             \/ DiffTrees(q, r) \/ ReconcileFails(q, r) \/ ReconcileComplete(q, r)
             \/ \E x \in Path, ts \in Timestamp : FetchNext(q, r, x, ts)
      PROVE  /\ UNCHANGED inbox /\ fetches'[p] = {}
             /\ \A s \in recon'[p] : s.todo = {}
  <2>1. CASE DiffTrees(q, r)
    <3>1. /\ UNCHANGED <<inbox, fetches>>
          /\ recon' = [recon EXCEPT ![q] = (@ \ {r}) \cup
                                      {[r EXCEPT !.pc = "fetch", !.todo = ToPull(q, r)]}]
      BY <2>1 DEF DiffTrees, StepRecon
    <3>2. q = p => ToPull(q, r) = {}
      BY DEF ToPull
    <3>3. r \in Reconcile
      BY <1>1
    <3>4. [r EXCEPT !.pc = "fetch", !.todo = ToPull(q, r)].todo = ToPull(q, r)
      BY <3>3 DEF Reconcile
    <3> HIDE DEF ToPull
    <3> QED
      BY <1>1, <1>2, <3>1, <3>2, <3>4
  <2>2. CASE ServeRootHash(q, r) \/ CompareRoots(q, r) \/ ServeTree(q, r)
    <3>1. /\ UNCHANGED <<inbox, fetches>>
          /\ \/ recon' = [recon EXCEPT ![q] = @ \ {r}]
             \/ \E pc, t : recon' = [recon EXCEPT ![q] = (@ \ {r}) \cup
                                                   {[r EXCEPT !.pc = pc, !.tree = t]}]
      BY <2>2 DEF ServeRootHash, CompareRoots, ServeTree, StepRecon, EndRecon
    <3>2. ASSUME NEW pc, NEW t PROVE [r EXCEPT !.pc = pc, !.tree = t].todo = r.todo
      BY <1>1 DEF Reconcile
    <3>3. ASSUME NEW pc, NEW t,
                 recon' = [recon EXCEPT ![q] = (@ \ {r}) \cup
                                          {[r EXCEPT !.pc = pc, !.tree = t]}]
          PROVE  \A s \in recon'[p] : s.todo = {}
      <4> DEFINE n == [r EXCEPT !.pc = pc, !.tree = t]
      <4>1. n.todo = r.todo
        BY <3>2
      <4> HIDE DEF n
      <4>2. recon' = [recon EXCEPT ![q] = (@ \ {r}) \cup {n}]
        BY <3>3 DEF n
      <4> QED
        BY <1>1, <1>2, <4>1, <4>2
    <3>4. ASSUME recon' = [recon EXCEPT ![q] = @ \ {r}]
          PROVE  \A s \in recon'[p] : s.todo = {}
      BY <1>1, <1>2, <3>4
    <3> QED
      BY <1>2, <3>1, <3>3, <3>4
  <2>3. CASE ReconcileFails(q, r) \/ ReconcileComplete(q, r)
    BY <1>1, <1>2, <2>3 DEF ReconcileFails, ReconcileComplete, EndRecon
  <2>4. ASSUME NEW x \in Path, NEW ts \in Timestamp, FetchNext(q, r, x, ts)
        PROVE  q # p /\ UNCHANGED inbox /\ fetches'[p] = {} /\ recon'[p] = recon[p]
    <3>1. q # p
      BY <1>2, <2>4 DEF FetchNext
    <3> QED
      BY <1>1, <1>2, <2>4, <3>1 DEF FetchNext, StepRecon
  <2> QED
    BY <1>2, <1>8, <2>1, <2>2, <2>3, <2>4
<1> QED
  BY <1>2, <1>3, <1>4, <1>5, <1>6, <1>7, <1>8 DEF TaskChange

LEMMA InitNothingToPull == Init => NothingToPull
BY ModeAssumption DEF Init, NothingToPull

\* Nothing that is announced, deleted or found different elsewhere changes the
\* folder of a peer started with share --readonly.
THEOREM ReadonlyFoldersKept == Spec => ReadonlyFolderKept
<1>1. TypeOK /\ NothingToPull /\ [Next]_vars =>
        [\A p \in NoPull : disk'[p] # disk[p] => ops' # ops]_vars
  <2> SUFFICES ASSUME TypeOK, NothingToPull, [Next]_vars, NEW p \in NoPull, FolderStep
               PROVE  disk'[p] = disk[p]
    BY FolderFrame
  <2>1. /\ p \in Peer /\ inbox[p] = {} /\ fetches[p] = {}
        /\ disk \in [Peer -> Folder]
    BY ModeAssumption DEF NothingToPull, TypeOK, FolderType
  <2>2. ASSUME NEW q \in Peer, NEW d \in inbox[q],
               \/ \E copied \in BOOLEAN : LoseConflict(q, d, copied)
               \/ RemoveFile(q, d)
        PROVE  disk'[p] = disk[p]
    BY <2>1, <2>2 DEF LoseConflict, RemoveFile
  <2>3. ASSUME NEW q \in Peer, NEW f \in fetches[q], WriteFile(q, f)
        PROVE  disk'[p] = disk[p]
    BY <2>1, <2>3 DEF WriteFile
  <2> QED
    BY <2>2, <2>3 DEF FolderStep
<1>2. TypeOK /\ NothingToPull /\ [Next]_vars => NothingToPull'
  BY NothingToPullStable
<1> QED
  BY <1>1, <1>2, InitNothingToPull, TypeCorrect, PTL DEF Spec, ReadonlyFolderKept

-----------------------------------------------------------------------------
(* Where fetches come from *)

\* g is the fetch f a step further: with the same data, with what the source has
\* on its disk, or with that laid over the file on p's own.
Continues(p, g, f) ==
  /\ g.path = f.path /\ g.clock = f.clock
  /\ \/ g.data = f.data
     \/ \E q \in Peer : disk[q][f.path] # None /\ g.data = Served(disk[q][f.path], f.n)
     \/ g.data = Overlay(ReadOrEmpty(disk[p][f.path]), f.data)

\* g starts: for a notification, for the conflict copy of one, or in a reconciliation.
Starts(p, g) ==
  /\ g.path \notin Excluded[p] /\ g.data = <<>>
  /\ \/ g.clock = NewClock
     \/ \E d \in inbox[p] :
          g.clock = d.note.clock /\ (g.path = d.note.path \/ g.path \in Backup)

LEMMA StartFetchStarts ==
  ASSUME TypeOK, NEW p \in Peer, NEW q \in Peer, NEW x \in Path, NEW d \in inbox[q],
         x = d.note.path \/ x \in Backup, StartFetch(q, x, d), NEW g \in fetches'[p]
  PROVE  g \in fetches[p] \/ Starts(p, g)
<1> DEFINE n == [pc |-> "request", source |-> d.source, path |-> x,
                 n |-> Len(d.note.data), clock |-> d.note.clock, ts |-> d.note.ts,
                 data |-> <<>>, hash |-> d.note.data, id |-> 0]
<1>1. /\ n.path = x /\ n.clock = d.note.clock /\ n.data = <<>>
  OBVIOUS
<1>2. fetches' = [fetches EXCEPT ![q] = IF x \in Excluded[q] THEN @ ELSE @ \cup {n}]
  BY DEF StartFetch
<1> HIDE DEF n
<1>3. CASE p = q /\ x \notin Excluded[q] /\ g = n
  BY <1>1, <1>3 DEF Starts
<1>4. CASE ~(p = q /\ x \notin Excluded[q] /\ g = n)
  BY <1>2, <1>4 DEF TypeOK, TaskType
<1> QED
  BY <1>3, <1>4

LEMMA StepContinues ==
  ASSUME TypeOK, NEW p \in Peer, NEW q \in Peer, NEW f \in fetches[q], NEW h,
         Step(q, f, h), Continues(q, h, f), NEW g \in fetches'[p]
  PROVE  \E k \in fetches[p] : Continues(p, g, k)
<1>1. fetches' = [fetches EXCEPT ![q] = (@ \ {f}) \cup {h}]
  BY DEF Step
<1>2. CASE p = q /\ g = h
  BY <1>2
<1>3. CASE ~(p = q /\ g = h)
  <2>1. g \in fetches[p]
    BY <1>1, <1>3 DEF TypeOK, TaskType
  <2> QED
    BY <2>1 DEF Continues
<1> QED
  BY <1>2, <1>3

\* A fetch has just started, or was running before the step.
LEMMA FetchOrigin ==
  ASSUME TypeOK, [Next]_vars, NEW p \in Peer, NEW g \in fetches'[p]
  PROVE  (\E f \in fetches[p] : Continues(p, g, f)) \/ Starts(p, g)
<1> DEFINE goal == (\E f \in fetches[p] : Continues(p, g, f)) \/ Starts(p, g)
<1>1. /\ inbox \in [Peer -> SUBSET Delivery]
      /\ fetches \in [Peer -> SUBSET Fetch]
      /\ recon \in [Peer -> SUBSET Reconcile]
  BY DEF TypeOK, TaskType
<1>2. CASE g \in fetches[p]
  BY <1>2 DEF Continues
<1>3. CASE g \notin fetches[p]
  <2>1. TaskChange
    BY <1>3, TaskFrame
  <2>2. ASSUME NEW q \in Peer, NEW r \in Peer, Restart(q, r)
        PROVE  FALSE
    BY <1>1, <1>3, <2>2 DEF Restart
  <2>3. ASSUME NEW q \in Peer,
               \/ \E m \in gossip, r \in Peer : Relay(m, r, q)
               \/ \E r \in Peer : Discover(q, r)
        PROVE  FALSE
    BY <1>3, <2>3 DEF Relay, Discover
  <2>4. ASSUME NEW q \in Peer, NEW d \in inbox[q],
               \/ AcceptChange(q, d) \/ RejectChange(q, d)
               \/ \E copied \in BOOLEAN : LoseConflict(q, d, copied)
               \/ WinConflict(q, d) \/ RemoveFile(q, d)
        PROVE  goal
    <3> DEFINE x == d.note.path
    <3>1. x \in Path /\ d.note.kind \in {"changed", "deleted"}
      BY <1>1 DEF Delivery, Note, Path
    <3>2. CASE AcceptChange(q, d) \/ \E copied \in BOOLEAN : LoseConflict(q, d, copied)
      <4>1. StartFetch(q, x, d)
        BY <3>2 DEF AcceptChange, LoseConflict
      <4> QED
        BY <1>3, <3>1, <4>1, StartFetchStarts
    <3>3. CASE RejectChange(q, d) \/ RemoveFile(q, d)
      BY <1>3, <3>3 DEF RejectChange, RemoveFile
    <3>4. CASE WinConflict(q, d)
      <4>1. d.note.kind = "changed" /\ StartFetch(q, ConflictName[<<x, d.note.peer>>], d)
        BY <3>4 DEF WinConflict, TakeChange
      <4>2. x \in File /\ d.note.peer \in Peer
        BY <1>1, <4>1 DEF Delivery, Note
      <4>3. ConflictName[<<x, d.note.peer>>] \in Backup
        BY <4>2, PathAssumption
      <4> QED
        BY <1>3, <4>1, <4>3, StartFetchStarts DEF Path
    <3> QED
      BY <2>4, <3>2, <3>3, <3>4
  <2>5. ASSUME NEW q \in Peer, NEW f \in fetches[q],
               \/ ServeChunks(q, f) \/ RequestFails(q, f) \/ Assemble(q, f)
               \/ WriteFile(q, f) \/ WriteFails(q, f) \/ IndexFile(q, f)
        PROVE  goal
    <3>1. f \in Fetch /\ f.source \in Peer
      BY <1>1 DEF Fetch
    <3>2. ~EndFetch(q, f)
      BY <1>1, <1>3 DEF EndFetch
    <3>3. CASE ServeChunks(q, f)
      <4> DEFINE c == disk[f.source][f.path]
                 h == [f EXCEPT !.pc = "assemble", !.data = Served(c, f.n)]
      <4>1. c # None /\ Step(q, f, h)
        BY <3>2, <3>3 DEF ServeChunks
      <4>2. h.path = f.path /\ h.clock = f.clock /\ h.data = Served(c, f.n)
        BY <3>1 DEF Fetch
      <4>3. Continues(q, h, f)
        BY <3>1, <4>1, <4>2 DEF Continues
      <4> QED
        BY <4>1, <4>3, StepContinues
    <3>4. CASE Assemble(q, f)
      <4> DEFINE o == Overlay(ReadOrEmpty(disk[q][f.path]), f.data)
                 h == [f EXCEPT !.pc = "write", !.data = o]
      <4>1. Step(q, f, h)
        BY <3>2, <3>4 DEF Assemble
      <4>2. h.path = f.path /\ h.clock = f.clock /\ h.data = o
        BY <3>1 DEF Fetch
      <4>3. Continues(q, h, f)
        BY <4>2 DEF Continues
      <4> QED
        BY <4>1, <4>3, StepContinues
    <3>5. CASE WriteFile(q, f)
      <4> DEFINE h == [f EXCEPT !.pc = "index"]
      <4>1. Step(q, f, h)
        BY <3>5 DEF WriteFile
      <4>2. h.path = f.path /\ h.clock = f.clock /\ h.data = f.data
        BY <3>1 DEF Fetch
      <4>3. Continues(q, h, f)
        BY <4>2 DEF Continues
      <4> QED
        BY <4>1, <4>3, StepContinues
    <3> QED
      BY <2>5, <3>2, <3>3, <3>4, <3>5 DEF RequestFails, WriteFails, IndexFile
  <2>6. ASSUME NEW q \in Peer, NEW r \in recon[q],
               \/ ServeRootHash(q, r) \/ CompareRoots(q, r) \/ ServeTree(q, r)
               \/ DiffTrees(q, r) \/ ReconcileFails(q, r) \/ ReconcileComplete(q, r)
        PROVE  FALSE
    BY <1>3, <2>6 DEF ServeRootHash, CompareRoots, ServeTree, DiffTrees, ReconcileFails,
       ReconcileComplete
  <2>7. ASSUME NEW q \in Peer, NEW r \in recon[q], NEW x \in Path, NEW ts \in Timestamp,
               FetchNext(q, r, x, ts)
        PROVE  goal
    <3> DEFINE n == [pc |-> "request", source |-> r.source, path |-> x,
                     n |-> Len(r.tree[x]), clock |-> NewClock, ts |-> ts,
                     data |-> <<>>, hash |-> r.tree[x], id |-> r.id]
    <3>1. n.path = x /\ n.clock = NewClock /\ n.data = <<>>
      OBVIOUS
    <3>2. fetches' = [fetches EXCEPT ![q] = IF x \in Excluded[q] THEN @ ELSE @ \cup {n}]
      BY <2>7 DEF FetchNext
    <3> HIDE DEF n
    <3>3. p = q /\ x \notin Excluded[q] /\ g = n
      BY <1>1, <1>3, <3>2
    <3> QED
      BY <3>1, <3>3 DEF Starts
  <2> HIDE DEF goal
  <2>8. goal
    BY <2>1, <2>2, <2>3, <2>4, <2>5, <2>6, <2>7 DEF TaskChange
  <2> QED
    BY <2>8 DEF goal
<1> QED
  BY <1>2, <1>3

-----------------------------------------------------------------------------
(* Excluded paths in the folder *)

NoExcludedFetch == \A p \in Peer : \A f \in fetches[p] : f.path \notin Excluded[p]

LEMMA NoExcludedFetchStable ==
  ASSUME TypeOK, NoExcludedFetch, [Next]_vars
  PROVE  NoExcludedFetch'
BY FetchOrigin DEF NoExcludedFetch, Continues, Starts

LEMMA InitNoExcludedFetch == Init => NoExcludedFetch
BY DEF Init, NoExcludedFetch

\* No peer's content comes to a path that the peer excludes: besides its user, only an
\* announced deletion and the conflict copy of a file of its own change such a path.
THEOREM ExcludedNeverWritten == Spec => ExcludedNotWritten
<1>1. TypeOK /\ NoExcludedFetch /\ [Next]_vars =>
        [\A p \in Peer : \A x \in Excluded[p] :
           disk'[p][x] # disk[p][x] =>
             \/ ops' # ops
             \/ /\ disk'[p][x] = None
                /\ \E d \in inbox[p] :
                     d.note.kind = "deleted" /\ d.note.path = x /\ d.note.peer # p
             \/ \E f \in File : ConflictName[<<f, p>>] = x /\ disk'[p][x] = disk[p][f]]_vars
  <2> SUFFICES ASSUME TypeOK, NoExcludedFetch, [Next]_vars, FolderStep,
                      NEW p \in Peer, NEW x \in Excluded[p], disk'[p][x] # disk[p][x]
               PROVE  \/ /\ disk'[p][x] = None
                         /\ \E d \in inbox[p] :
                              d.note.kind = "deleted" /\ d.note.path = x /\ d.note.peer # p
                      \/ \E f \in File :
                           ConflictName[<<f, p>>] = x /\ disk'[p][x] = disk[p][f]
    BY FolderFrame
  <2>1. /\ x \in Path
        /\ disk \in [Peer -> Folder]
        /\ inbox \in [Peer -> SUBSET Delivery]
        /\ fetches \in [Peer -> SUBSET Fetch]
    BY PathAssumption DEF Path, TypeOK, FolderType, TaskType
  <2>2. ASSUME NEW q \in Peer, NEW d \in inbox[q], NEW copied \in BOOLEAN,
               LoseConflict(q, d, copied)
        PROVE  \E f \in File : ConflictName[<<f, p>>] = x /\ disk'[p][x] = disk[p][f]
    <3> DEFINE f == d.note.path
               b == ConflictName[<<f, q>>]
    <3>1. f \in File
      BY <2>1, <2>2 DEF LoseConflict, TakeChange, Delivery, Note
    <3>2. \/ disk' = [disk EXCEPT ![q][b] = disk[q][f]]
          \/ UNCHANGED disk
      BY <2>2 DEF LoseConflict
    <3> HIDE DEF f
    <3>3. q = p /\ b = x /\ disk'[p][x] = disk[p][f]
      <4> HIDE DEF b
      <4> QED
        BY <2>1, <3>2 DEF Folder
    <3> QED
      BY <3>1, <3>3
  <2>3. ASSUME NEW q \in Peer, NEW d \in inbox[q], RemoveFile(q, d)
        PROVE  /\ disk'[p][x] = None
               /\ d \in inbox[p]
               /\ d.note.kind = "deleted" /\ d.note.path = x /\ d.note.peer # p
    <3>1. d.note.path \in Path
      BY <2>1 DEF Delivery, Note, Path
    <3>2. q = p /\ d.note.path = x /\ disk'[p][x] = None
      BY <2>1, <2>3, <3>1 DEF RemoveFile, Folder
    <3> QED
      BY <2>3, <3>2 DEF RemoveFile
  <2>4. ASSUME NEW q \in Peer, NEW f \in fetches[q], WriteFile(q, f)
        PROVE  FALSE
    <3>1. f.path \in Path /\ f.path \notin Excluded[q]
      BY <2>1 DEF Fetch, NoExcludedFetch
    <3>2. disk' = [disk EXCEPT ![q][f.path] = f.data]
      BY <2>4 DEF WriteFile
    <3> QED
      BY <2>1, <3>1, <3>2 DEF Folder
  <2> QED
    BY <2>2, <2>3, <2>4 DEF FolderStep
<1>2. TypeOK /\ NoExcludedFetch /\ [Next]_vars => NoExcludedFetch'
  BY NoExcludedFetchStable
<1> QED
  BY <1>1, <1>2, InitNoExcludedFetch, TypeCorrect, PTL DEF Spec, ExcludedNotWritten

-----------------------------------------------------------------------------
(* Where notifications come from *)

\* p publishes note: a change of a file, or the removal of a path.
Announces(p, note) ==
  /\ note.peer = p
  /\ \/ /\ \E ts \in Timestamp : AnnounceChange(p, ts)
        /\ note.kind = "changed"
        /\ note.path = Head(chan[p]).path
        /\ note.clock = Tick(LocalClock(p, note.path), p)
     \/ /\ \E ts \in Timestamp : AnnounceRemoval(p, ts)
        /\ note.kind = "deleted"
        /\ note.path = Head(chan[p]).path
        /\ note.clock = LocalClock(p, note.path)

\* The steps that can change what is under way.
GossipStep ==
  \/ \E p \in Peer : \/ \E ts \in Timestamp : AnnounceChange(p, ts) \/ AnnounceRemoval(p, ts)
                     \/ \E m \in gossip, r \in Peer : Relay(m, r, p)
  \/ \E m \in gossip : LoseGossip(m)

LEMMA GossipFrame ==
  ASSUME [Next]_vars
  PROVE  GossipStep \/ UNCHANGED gossip
<1>1. CASE UNCHANGED vars
  BY <1>1 DEF vars
<1>2. ASSUME NEW p \in Peer, UserStep(p)
      PROVE  UNCHANGED gossip
  BY <1>2 DEF UserStep, UserWrite, UserRemove, UserMoveAway
<1>3. ASSUME NEW p \in Peer, LifeStep(p)
      PROVE  UNCHANGED gossip
  BY <1>3 DEF LifeStep, BuildIndex, StartWatching, Restart, Disconnect, Pause
<1>4. ASSUME NEW p \in Peer, WatchStep(p)
      PROVE  GossipStep \/ UNCHANGED gossip
  BY <1>4 DEF WatchStep, BridgeDrops, BridgeForwards, DropFsEvent, SuppressFsEvent,
     IgnoreFsEvent, GossipStep
<1>5. ASSUME NEW p \in Peer, ArrivalStep(p)
      PROVE  GossipStep \/ UNCHANGED gossip
  BY <1>5 DEF ArrivalStep, Discover, GossipStep
<1>6. ASSUME NEW p \in Peer, NEW ts \in Timestamp, TaskStep(p, ts)
      PROVE  UNCHANGED gossip
  BY <1>6 DEF TaskStep, AcceptChange, RejectChange, LoseConflict, WinConflict,
     RemoveFile, Unindex, ServeChunks, Assemble, WriteFile, IndexFile, ServeRootHash,
     CompareRoots, ServeTree, DiffTrees, FetchNext, ReconcileComplete
<1>7. ASSUME NEW p \in Peer, FailureStep(p)
      PROVE  UNCHANGED gossip
  BY <1>7 DEF FailureStep, LoseConflict, RequestFails, WriteFails, ReconcileFails
<1>8. ASSUME NEW m \in gossip, LoseGossip(m)
      PROVE  GossipStep
  BY <1>8 DEF GossipStep
<1> QED
  BY <1>1, <1>2, <1>3, <1>4, <1>5, <1>6, <1>7, <1>8 DEF Next

\* A notification under way was under way before the step, or is announced by it.
LEMMA NoteOrigin ==
  ASSUME TypeOK, [Next]_vars, NEW m \in gossip'
  PROVE  (\E k \in gossip : m.note = k.note) \/ (\E p \in Peer : Announces(p, m.note))
<1>1. gossip \subseteq [note : Note, has : SUBSET Peer]
  BY DEF TypeOK, GossipType
<1>2. CASE m \in gossip
  BY <1>2
<1>3. CASE m \notin gossip
  <2>1. GossipStep
    BY <1>3, GossipFrame
  <2>2. ASSUME NEW k \in gossip, LoseGossip(k)
        PROVE  FALSE
    BY <1>3, <2>2 DEF LoseGossip
  <2>3. ASSUME NEW p \in Peer, NEW k \in gossip, NEW r \in Peer, Relay(k, r, p)
        PROVE  m.note = k.note
    <3>1. m = [k EXCEPT !.has = @ \cup {p}]
      BY <1>3, <2>3 DEF Relay
    <3> QED
      BY <1>1, <3>1
  <2>4. ASSUME NEW p \in Peer, NEW ts \in Timestamp, AnnounceChange(p, ts)
        PROVE  Announces(p, m.note)
    <3> DEFINE x == Head(chan[p]).path
               n == [kind |-> "changed", path |-> x, data |-> disk[p][x],
                     clock |-> Tick(LocalClock(p, x), p), ts |-> ts, peer |-> p]
    <3>1. Publish(n)
      BY <2>4 DEF AnnounceChange
    <3>2. m = [note |-> n, has |-> {n.peer}]
      BY <1>3, <3>1 DEF Publish
    <3>3. m.note = n
      BY <3>2
    <3>4. m.note.peer = p /\ m.note.kind = "changed" /\ m.note.path = x
          /\ m.note.clock = Tick(LocalClock(p, x), p)
      BY <3>3
    <3> QED
      BY <2>4, <3>4 DEF Announces
  <2>5. ASSUME NEW p \in Peer, NEW ts \in Timestamp, AnnounceRemoval(p, ts)
        PROVE  Announces(p, m.note)
    <3> DEFINE x == Head(chan[p]).path
               n == [kind |-> "deleted", path |-> x, data |-> <<>>,
                     clock |-> LocalClock(p, x), ts |-> ts, peer |-> p]
    <3>1. Publish(n)
      BY <2>5 DEF AnnounceRemoval
    <3>2. m = [note |-> n, has |-> {n.peer}]
      BY <1>3, <3>1 DEF Publish
    <3>3. m.note = n
      BY <3>2
    <3>4. m.note.peer = p /\ m.note.kind = "deleted" /\ m.note.path = x
          /\ m.note.clock = LocalClock(p, x)
      BY <3>3
    <3> QED
      BY <2>5, <3>4 DEF Announces
  <2> QED
    BY <2>1, <2>2, <2>3, <2>4, <2>5 DEF GossipStep
<1> QED
  BY <1>2, <1>3

\* A notification to be handled was waiting before the step, or was under way.
LEMMA DeliveryOrigin ==
  ASSUME TypeOK, [Next]_vars, NEW p \in Peer, NEW d \in inbox'[p]
  PROVE  d \in inbox[p] \/ \E m \in gossip : d.note = m.note
<1>1. inbox \in [Peer -> SUBSET Delivery]
  BY DEF TypeOK, TaskType
<1>2. ASSUME NEW q \in Peer, NEW r \in Peer, Restart(q, r)
      PROVE  d \in inbox[p]
  BY <1>1, <1>2 DEF Restart
<1>3. ASSUME NEW q \in Peer, NEW m \in gossip, NEW r \in Peer, Relay(m, r, q)
      PROVE  d \in inbox[p] \/ d.note = m.note
  <2> DEFINE n == [source |-> r, note |-> m.note]
  <2>1. n.note = m.note
    OBVIOUS
  <2>2. \/ UNCHANGED inbox
        \/ inbox' = [inbox EXCEPT ![q] = @ \cup {n}]
    BY <1>3 DEF Relay
  <2> HIDE DEF n
  <2> QED
    BY <1>1, <2>1, <2>2
<1>4. ASSUME NEW q \in Peer, NEW e \in inbox[q],
             \/ AcceptChange(q, e) \/ RejectChange(q, e)
             \/ \E copied \in BOOLEAN : LoseConflict(q, e, copied)
             \/ WinConflict(q, e) \/ RemoveFile(q, e)
      PROVE  d \in inbox[p]
  <2>1. inbox' = [inbox EXCEPT ![q] = @ \ {e}]
    BY <1>4 DEF AcceptChange, RejectChange, LoseConflict, WinConflict, RemoveFile, TakeChange
  <2> QED
    BY <1>1, <2>1
<1>5. ASSUME NEW q \in Peer,
             \/ \E r \in Peer : Discover(q, r)
             \/ \E f \in fetches[q] :
                  \/ ServeChunks(q, f) \/ RequestFails(q, f) \/ Assemble(q, f)
                  \/ WriteFile(q, f) \/ WriteFails(q, f) \/ IndexFile(q, f)
             \/ \E r \in recon[q] :
                  \/ ServeRootHash(q, r) \/ CompareRoots(q, r) \/ ServeTree(q, r)
                  \/ DiffTrees(q, r) \/ ReconcileFails(q, r) \/ ReconcileComplete(q, r)
                  \/ \E x \in Path, ts \in Timestamp : FetchNext(q, r, x, ts)
      PROVE  UNCHANGED inbox
  BY <1>5 DEF Discover, ServeChunks, RequestFails, Assemble, WriteFile, WriteFails,
     IndexFile, ServeRootHash, CompareRoots, ServeTree, DiffTrees, ReconcileFails,
     ReconcileComplete, FetchNext
<1> QED
  BY <1>2, <1>3, <1>4, <1>5, TaskFrame DEF TaskChange

-----------------------------------------------------------------------------
(* Excluded paths in the index *)

LEMMA ExcludedStaysOut ==
  ASSUME TypeOK, NoExcludedFetch, ExcludedNotIndexed, [Next]_vars
  PROVE  ExcludedNotIndexed'
<1>1. /\ tree \in [Peer -> Folder]
      /\ Excluded \in [Peer -> SUBSET Path]
  BY PathAssumption DEF TypeOK, IndexType
<1>2. ASSUME NEW p \in Peer, NEW x \in Excluded[p], IndexStep
      PROVE  tree'[p][x] = None
  <2>1. x \in Path /\ tree[p][x] = None
    BY <1>1, <1>2 DEF ExcludedNotIndexed
  <2>2. ASSUME NEW q \in Peer, NEW ts \in Timestamp, BuildIndex(q, ts)
        PROVE  tree'[p][x] = None
    BY <1>1, <2>1, <2>2 DEF BuildIndex, Scan
  <2>3. ASSUME NEW q \in Peer, NEW r \in Peer, Restart(q, r)
        PROVE  tree'[p][x] = None
    BY <1>1, <2>1, <2>3 DEF Restart, EmptyFolder
  <2>4. ASSUME NEW q \in Peer, NEW ts \in Timestamp, AnnounceChange(q, ts)
        PROVE  tree'[p][x] = None
    <3> DEFINE y == Head(chan[q]).path
    <3>1. y \in Path /\ y \notin Excluded[q]
      BY <2>4, Announced
    <3>2. tree' = [tree EXCEPT ![q][y] = disk[q][y]]
      BY <2>4 DEF AnnounceChange
    <3> HIDE DEF y
    <3> QED
      BY <1>1, <2>1, <3>1, <3>2 DEF Folder
  <2>5. ASSUME NEW q \in Peer, NEW ts \in Timestamp, AnnounceRemoval(q, ts)
        PROVE  tree'[p][x] = None
    BY <1>1, <2>1, <2>5, Removed DEF AnnounceRemoval, Forget, Folder
  <2>6. ASSUME NEW q \in Peer, NEW note \in unindex[q], Unindex(q, note)
        PROVE  tree'[p][x] = None
    BY <1>1, <2>1, <2>6, Unindexed DEF Unindex, Forget, Folder
  <2>7. ASSUME NEW q \in Peer, NEW f \in fetches[q], IndexFile(q, f)
        PROVE  tree'[p][x] = None
    <3>1. f.path \in Path /\ f.path \notin Excluded[q]
      BY Indexed DEF NoExcludedFetch
    <3>2. tree' = [tree EXCEPT ![q][f.path] = f.data]
      BY <2>7 DEF IndexFile
    <3> QED
      BY <1>1, <2>1, <3>1, <3>2 DEF Folder
  <2> QED
    BY <1>2, <2>2, <2>3, <2>4, <2>5, <2>6, <2>7 DEF IndexStep
<1>3. ASSUME NEW p \in Peer, NEW x \in Excluded[p]
      PROVE  tree'[p][x] = None
  BY <1>2, IndexFrame DEF ExcludedNotIndexed
<1>4. ASSUME NEW m \in gossip', m.note.kind = "changed", m.note.peer \in Peer
      PROVE  m.note.path \notin Excluded[m.note.peer]
  <2>1. ASSUME NEW k \in gossip, m.note = k.note
        PROVE  m.note.path \notin Excluded[m.note.peer]
    BY <1>4, <2>1 DEF ExcludedNotIndexed
  <2>2. ASSUME NEW p \in Peer, Announces(p, m.note)
        PROVE  m.note.path \notin Excluded[m.note.peer]
    <3>1. PICK ts \in Timestamp : AnnounceChange(p, ts)
      BY <1>4, <2>2 DEF Announces
    <3>2. m.note.peer = p /\ m.note.path = Head(chan[p]).path
      BY <2>2 DEF Announces
    <3> QED
      BY <3>1, <3>2, Announced
  <2> QED
    BY <2>1, <2>2, NoteOrigin
<1> QED
  BY <1>3, <1>4 DEF ExcludedNotIndexed

LEMMA InitExcludedStaysOut == Init => ExcludedNotIndexed
BY PathAssumption DEF Init, ExcludedNotIndexed, Scan, EmptyFolder

\* A path that a peer excludes never enters its index, so that no hash or tree it answers
\* with shows it, and its changes are never announced.
THEOREM ExcludedStaysPrivate == Spec => []ExcludedNotIndexed
<1>1. TypeOK /\ NoExcludedFetch /\ ExcludedNotIndexed /\ [Next]_vars => ExcludedNotIndexed'
  BY ExcludedStaysOut
<1>2. TypeOK /\ NoExcludedFetch /\ [Next]_vars => NoExcludedFetch'
  BY NoExcludedFetchStable
<1> QED
  BY <1>1, <1>2, InitExcludedStaysOut, InitNoExcludedFetch, TypeCorrect, PTL DEF Spec

-----------------------------------------------------------------------------
(* Clocks count announced edits *)

\* The clocks of the notifications that wait to be handled are honest too.
EditsAnnounced ==
  /\ NoInventedEdits
  /\ \A p \in Peer : \A d \in inbox[p] :
       d.note.path \in File => Honest(d.note.clock, d.note.path)

LEMMA IssuedFrame ==
  ASSUME [Next]_vars
  PROVE  (\E p \in Peer, ts \in Timestamp : AnnounceChange(p, ts)) \/ UNCHANGED issued
<1>1. CASE UNCHANGED vars
  BY <1>1 DEF vars
<1>2. ASSUME NEW p \in Peer, UserStep(p) \/ LifeStep(p) \/ ArrivalStep(p)
      PROVE  UNCHANGED issued
  BY <1>2 DEF UserStep, UserWrite, UserRemove, UserMoveAway, LifeStep, BuildIndex,
     StartWatching, Restart, Disconnect, Pause, ArrivalStep, Relay, Discover
<1>3. ASSUME NEW p \in Peer, WatchStep(p)
      PROVE  (\E ts \in Timestamp : AnnounceChange(p, ts)) \/ UNCHANGED issued
  BY <1>3 DEF WatchStep, BridgeDrops, BridgeForwards, DropFsEvent, SuppressFsEvent,
     IgnoreFsEvent, AnnounceRemoval
<1>4. ASSUME NEW p \in Peer, NEW ts \in Timestamp, TaskStep(p, ts)
      PROVE  UNCHANGED issued
  BY <1>4 DEF TaskStep, AcceptChange, RejectChange, LoseConflict, WinConflict,
     RemoveFile, Unindex, ServeChunks, Assemble, WriteFile, IndexFile, ServeRootHash,
     CompareRoots, ServeTree, DiffTrees, FetchNext, ReconcileComplete
<1>5. ASSUME NEW p \in Peer, FailureStep(p)
      PROVE  UNCHANGED issued
  BY <1>5 DEF FailureStep, LoseConflict, RequestFails, WriteFails, ReconcileFails
<1>6. ASSUME NEW m \in gossip, LoseGossip(m)
      PROVE  UNCHANGED issued
  BY <1>6 DEF LoseGossip
<1> QED
  BY <1>1, <1>2, <1>3, <1>4, <1>5, <1>6 DEF Next

\* What was announced stays announced.
LEMMA HonestStays ==
  ASSUME TypeOK, [Next]_vars, NEW f \in File, NEW c \in VectorClock, Honest(c, f)
  PROVE  \A q \in Peer : c[q] <= issued'[q][f]
<1>1. issued \in [Peer -> [File -> Nat]]
  BY DEF TypeOK, GroupType
<1>2. \A q \in Peer : c[q] \in Nat /\ c[q] <= issued[q][f]
  BY DEF Honest, VectorClock
<1>3. ASSUME NEW p \in Peer, NEW ts \in Timestamp, AnnounceChange(p, ts)
      PROVE  \A q \in Peer : issued[q][f] <= issued'[q][f]
  <2> DEFINE x == Head(chan[p]).path
  <2>1. x \in File
    BY <1>3, Announced
  <2>2. issued' = [issued EXCEPT ![p][x] = @ + 1]
    BY <1>3 DEF AnnounceChange
  <2> HIDE DEF x
  <2> QED
    BY <1>1, <2>1, <2>2
<1>4. \A q \in Peer : issued[q][f] <= issued'[q][f] /\ issued'[q][f] \in Nat
  BY <1>1, <1>3, IssuedFrame, NextTypes DEF TypeOK, GroupType
<1> QED
  BY <1>1, <1>2, <1>4

LEMMA NewClockHonest ==
  ASSUME TypeOK, NEW f \in File
  PROVE  Honest(NewClock, f)
BY DEF TypeOK, GroupType, Honest, NewClock

LEMMA LocalClockHonest ==
  ASSUME TypeOK, EditsAnnounced, NEW p \in Peer, NEW f \in File
  PROVE  LocalClock(p, f) \in VectorClock /\ Honest(LocalClock(p, f), f)
BY NewClockHonest, LocalMetaTypes DEF TypeOK, EditsAnnounced, NoInventedEdits, LocalClock, Path

\* A change is announced with one edit more, and counted.
LEMMA AnnounceHonest ==
  ASSUME TypeOK, EditsAnnounced, NEW p \in Peer, NEW ts \in Timestamp, AnnounceChange(p, ts)
  PROVE  LET x == Head(chan[p]).path IN
         \A q \in Peer : Tick(LocalClock(p, x), p)[q] <= issued'[q][x]
<1> DEFINE x == Head(chan[p]).path
           c == LocalClock(p, x)
<1>1. x \in File
  BY Announced
<1>2. c \in VectorClock /\ Honest(c, x)
  BY <1>1, LocalClockHonest
<1>3. issued' = [issued EXCEPT ![p][x] = @ + 1] /\ issued \in [Peer -> [File -> Nat]]
  BY DEF AnnounceChange, TypeOK, GroupType
<1> HIDE DEF x, c
<1>4. \A q \in Peer : Tick(c, p)[q] <= issued'[q][x]
  BY <1>1, <1>2, <1>3 DEF Honest, Tick, VectorClock
<1> QED
  BY <1>4 DEF x, c

LEMMA IndexStaysHonest ==
  ASSUME TypeOK, EditsAnnounced, [Next]_vars,
         NEW p \in Peer, NEW f \in File, meta'[p][f] # None
  PROVE  Honest(meta[p][f].clock, f)'
<1>1. /\ meta \in [Peer -> [Path -> Meta \cup {None}]]
      /\ f \in Path
  BY DEF TypeOK, IndexType, Path
<1>2. CASE meta'[p][f] = meta[p][f]
  <2>1. meta[p][f].clock \in VectorClock /\ Honest(meta[p][f].clock, f)
    BY <1>1, <1>2 DEF Meta, EditsAnnounced, NoInventedEdits
  <2> QED
    BY <1>2, <2>1, HonestStays DEF Honest
<1>3. CASE meta'[p][f] # meta[p][f]
  <2>1. ASSUME NEW q \in Peer, NEW ts \in Timestamp, BuildIndex(q, ts)
        PROVE  meta'[p][f].clock = NewClock
    BY <1>1, <1>3, <2>1 DEF BuildIndex, ScanMeta
  <2>2. ASSUME NEW q \in Peer, NEW r \in Peer, Restart(q, r)
        PROVE  FALSE
    BY <1>1, <1>3, <2>2 DEF Restart, EmptyFolder
  <2>3. ASSUME NEW q \in Peer, NEW ts \in Timestamp, AnnounceChange(q, ts)
        PROVE  Honest(meta[p][f].clock, f)'
    <3> DEFINE x == Head(chan[q]).path
               n == [clock |-> Tick(LocalClock(q, x), q), ts |-> ts]
    <3>1. x \in Path /\ meta' = [meta EXCEPT ![q][x] = n]
      BY <2>3, Announced DEF AnnounceChange
    <3>2. n.clock = Tick(LocalClock(q, x), q)
      OBVIOUS
    <3> HIDE DEF n
    <3>3. f = x /\ meta'[p][f] = n
      BY <1>1, <1>3, <3>1
    <3> QED
      BY <2>3, <3>2, <3>3, AnnounceHonest DEF Honest
  <2>4. ASSUME NEW q \in Peer, NEW ts \in Timestamp, AnnounceRemoval(q, ts)
        PROVE  FALSE
    BY <1>1, <1>3, <2>4, Removed DEF AnnounceRemoval, Forget
  <2>5. ASSUME NEW q \in Peer, NEW note \in unindex[q], Unindex(q, note)
        PROVE  FALSE
    BY <1>1, <1>3, <2>5, Unindexed DEF Unindex, Forget
  <2>6. ASSUME NEW q \in Peer, NEW g \in fetches[q], IndexFile(q, g)
        PROVE  Honest(meta[p][f].clock, f)'
    <3> DEFINE c == LocalClock(q, f)
    <3>1. g.path \in Path /\ g.clock \in VectorClock
      BY Indexed
    <3>2. meta' = [meta EXCEPT ![q][g.path] = Applied(q, g)] /\ UNCHANGED issued
      BY <2>6 DEF IndexFile
    <3>3. f = g.path /\ meta'[p][f].clock = Merge(c, g.clock)
      BY <1>1, <1>3, <3>1, <3>2 DEF Applied
    <3>4. /\ c \in VectorClock /\ Honest(c, f)
          /\ Honest(g.clock, f)
      BY <3>3, LocalClockHonest DEF EditsAnnounced, NoInventedEdits
    <3> HIDE DEF c
    <3>5. \A i \in Peer : Merge(c, g.clock)[i] <= issued[i][f]
      BY <3>4 DEF Honest, Merge, Max2
    <3> QED
      BY <3>2, <3>3, <3>5 DEF Honest
  <2>7. meta'[p][f].clock = NewClock => Honest(meta[p][f].clock, f)'
    BY NewClockHonest, HonestStays, ClockTypes DEF Honest
  <2> QED
    BY <1>3, <2>1, <2>2, <2>3, <2>4, <2>5, <2>6, <2>7, IndexFrame DEF IndexStep
<1> QED
  BY <1>2, <1>3

LEMMA MessagesStayHonest ==
  ASSUME TypeOK, EditsAnnounced, [Next]_vars
  PROVE  /\ \A m \in gossip' : m.note.path \in File =>
              \A q \in Peer : m.note.clock[q] <= issued'[q][m.note.path]
         /\ \A p \in Peer : \A d \in inbox'[p] : d.note.path \in File =>
              \A q \in Peer : d.note.clock[q] <= issued'[q][d.note.path]
<1>1. /\ gossip \subseteq [note : Note, has : SUBSET Peer]
      /\ inbox \in [Peer -> SUBSET Delivery]
  BY DEF TypeOK, GossipType, TaskType
<1>2. ASSUME NEW n \in Note, n.path \in File, Honest(n.clock, n.path)
      PROVE  \A q \in Peer : n.clock[q] <= issued'[q][n.path]
  <2>1. n.clock \in VectorClock
    BY DEF Note
  <2> QED
    BY <1>2, <2>1, HonestStays
<1>3. \A m \in gossip : m.note \in Note /\ (m.note.path \in File => Honest(m.note.clock, m.note.path))
  BY <1>1 DEF EditsAnnounced, NoInventedEdits
<1>4. ASSUME NEW m \in gossip', m.note.path \in File
      PROVE  \A q \in Peer : m.note.clock[q] <= issued'[q][m.note.path]
  <2>1. ASSUME NEW k \in gossip, m.note = k.note
        PROVE  \A q \in Peer : m.note.clock[q] <= issued'[q][m.note.path]
    BY <1>2, <1>3, <1>4, <2>1
  <2>2. ASSUME NEW p \in Peer, Announces(p, m.note)
        PROVE  \A q \in Peer : m.note.clock[q] <= issued'[q][m.note.path]
    <3>1. CASE m.note.kind = "changed"
      BY <2>2, <3>1, AnnounceHonest DEF Announces
    <3>2. CASE m.note.kind = "deleted"
      <4>1. m.note.clock = LocalClock(p, m.note.path)
        BY <2>2, <3>2 DEF Announces
      <4> QED
        BY <1>4, <4>1, LocalClockHonest, HonestStays
    <3> QED
      BY <2>2, <3>1, <3>2 DEF Announces
  <2> QED
    BY <2>1, <2>2, NoteOrigin
<1>5. ASSUME NEW p \in Peer, NEW d \in inbox'[p], d.note.path \in File
      PROVE  \A q \in Peer : d.note.clock[q] <= issued'[q][d.note.path]
  <2>1. CASE d \in inbox[p]
    <3>1. d.note \in Note /\ Honest(d.note.clock, d.note.path)
      BY <1>1, <1>5, <2>1 DEF EditsAnnounced, Delivery
    <3> QED
      BY <1>2, <1>5, <3>1
  <2>2. ASSUME NEW m \in gossip, d.note = m.note
        PROVE  \A q \in Peer : d.note.clock[q] <= issued'[q][d.note.path]
    BY <1>2, <1>3, <1>5, <2>2
  <2> QED
    BY <2>1, <2>2, DeliveryOrigin
<1> QED
  BY <1>4, <1>5

LEMMA FetchesStayHonest ==
  ASSUME TypeOK, EditsAnnounced, [Next]_vars,
         NEW p \in Peer, NEW g \in fetches'[p], g.path \in File
  PROVE  \A q \in Peer : g.clock[q] <= issued'[q][g.path]
<1>1. /\ inbox \in [Peer -> SUBSET Delivery]
      /\ fetches \in [Peer -> SUBSET Fetch]
  BY DEF TypeOK, TaskType
<1>2. g.clock \in VectorClock /\ Honest(g.clock, g.path)
  <2>1. ASSUME NEW f \in fetches[p], Continues(p, g, f)
        PROVE  g.clock \in VectorClock /\ Honest(g.clock, g.path)
    BY <1>1, <2>1 DEF Continues, Fetch, EditsAnnounced, NoInventedEdits
  <2>2. CASE g.clock = NewClock
    BY <2>2, NewClockHonest, ClockTypes
  <2>3. ASSUME NEW d \in inbox[p], g.clock = d.note.clock,
               g.path = d.note.path \/ g.path \in Backup
        PROVE  g.clock \in VectorClock /\ Honest(g.clock, g.path)
    <3>1. g.path = d.note.path
      BY <2>3, PathAssumption
    <3>2. d.note.clock \in VectorClock
      BY <1>1 DEF Delivery, Note
    <3> QED
      BY <2>3, <3>1, <3>2 DEF EditsAnnounced
  <2> QED
    BY <2>1, <2>2, <2>3, FetchOrigin DEF Starts
<1> QED
  BY <1>2, HonestStays

LEMMA EditsStayAnnounced ==
  ASSUME TypeOK, EditsAnnounced, [Next]_vars
  PROVE  EditsAnnounced'
BY IndexStaysHonest, MessagesStayHonest, FetchesStayHonest
   DEF EditsAnnounced, NoInventedEdits, Honest

LEMMA InitEditsAnnounced == Init => EditsAnnounced
<1> SUFFICES ASSUME Init PROVE EditsAnnounced
  OBVIOUS
<1>1. PICK ts \in Timestamp :
        meta = [p \in Peer |-> IF Running(p) THEN ScanMeta(p, ts) ELSE EmptyFolder]
  BY DEF Init
<1>2. ASSUME NEW p \in Peer, NEW f \in File, meta[p][f] # None
      PROVE  meta[p][f].clock = NewClock
  BY <1>1, <1>2 DEF ScanMeta, EmptyFolder, Path
<1>3. \A f \in File : Honest(NewClock, f)
  BY InitTypes, NewClockHonest
<1> QED
  BY <1>2, <1>3 DEF Init, EditsAnnounced, NoInventedEdits

\* No clock anywhere counts an edit that its author has not announced.
THEOREM EditsAreReal == Spec => []NoInventedEdits
<1>1. TypeOK /\ EditsAnnounced /\ [Next]_vars => EditsAnnounced'
  BY EditsStayAnnounced
<1>2. EditsAnnounced => NoInventedEdits
  BY DEF EditsAnnounced
<1> QED
  BY <1>1, <1>2, InitEditsAnnounced, TypeCorrect, PTL DEF Spec

-----------------------------------------------------------------------------
(* Chunks stay where users put them *)

\* The data of the running fetches is in place too.
DataInPlace ==
  /\ ChunksInPlace
  /\ \A p \in Peer : \A f \in fetches[p] : InPlace(f.data)

\* A content on disk was on some disk before the step, is written by a user, or
\* comes from a fetch.
LEMMA ContentOrigin ==
  ASSUME TypeOK, [Next]_vars, NEW p \in Peer, NEW x \in Path, disk'[p][x] # None
  PROVE  \/ \E q \in Peer, y \in Path : disk[q][y] = disk'[p][x]
         \/ disk'[p][x] \in Version
         \/ \E f \in fetches[p] : disk'[p][x] = f.data
<1> DEFINE goal == \/ \E q \in Peer, y \in Path : disk[q][y] = disk'[p][x]
                   \/ disk'[p][x] \in Version
                   \/ \E f \in fetches[p] : disk'[p][x] = f.data
<1>1. /\ disk \in [Peer -> [Path -> Content \cup {None}]]
      /\ inbox \in [Peer -> SUBSET Delivery]
      /\ fetches \in [Peer -> SUBSET Fetch]
  BY DEF TypeOK, FolderType, TaskType, Folder
<1>2. ASSUME UNCHANGED disk PROVE goal
  BY <1>2
<1>3. ASSUME FolderStep PROVE goal
  <2>1. ASSUME NEW q \in Peer, NEW d \in inbox[q], NEW copied \in BOOLEAN,
               LoseConflict(q, d, copied)
        PROVE  goal
    <3> DEFINE b == ConflictName[<<d.note.path, q>>]
    <3>1. d.note.path \in File
      BY <1>1, <2>1 DEF LoseConflict, TakeChange, Delivery, Note
    <3>2. b \in Path /\ d.note.path \in Path
      BY <3>1, PathAssumption DEF Path
    <3>3. \/ disk' = [disk EXCEPT ![q][b] = disk[q][d.note.path]]
          \/ UNCHANGED disk
      BY <2>1 DEF LoseConflict
    <3> HIDE DEF b
    <3> QED
      BY <1>1, <3>2, <3>3
  <2>2. ASSUME NEW q \in Peer, NEW d \in inbox[q], RemoveFile(q, d)
        PROVE  goal
    <3>1. d.note.path \in Path
      BY <1>1 DEF Delivery, Note, Path
    <3>2. \/ disk' = [disk EXCEPT ![q][d.note.path] = None]
          \/ UNCHANGED disk
      BY <2>2 DEF RemoveFile
    <3> QED
      BY <1>1, <3>1, <3>2
  <2>3. ASSUME NEW q \in Peer, NEW f \in fetches[q], WriteFile(q, f)
        PROVE  goal
    <3>1. f.path \in Path
      BY <1>1 DEF Fetch
    <3>2. disk' = [disk EXCEPT ![q][f.path] = f.data]
      BY <2>3 DEF WriteFile
    <3> QED
      BY <1>1, <3>1, <3>2
  <2> QED
    BY <1>3, <2>1, <2>2, <2>3 DEF FolderStep
<1>4. ASSUME NEW q \in Peer, NEW f \in File, NEW v \in Version, UserWrite(q, f, v)
      PROVE  goal
  <2>1. f \in Path /\ disk' = [disk EXCEPT ![q][f] = v]
    BY <1>4 DEF UserWrite, Path
  <2>2. disk'[p][x] = disk[p][x] \/ disk'[p][x] = v
    BY <1>1, <2>1
  <2> QED
    BY <2>2
<1>5. ASSUME NEW q \in Peer, NEW y \in Path, UserRemove(q, y) \/ (y \in File /\ UserMoveAway(q, y))
      PROVE  goal
  <2>1. disk' = [disk EXCEPT ![q][y] = None]
    BY <1>5 DEF UserRemove, UserMoveAway
  <2>2. disk'[p][x] = disk[p][x]
    BY <1>1, <2>1
  <2> QED
    BY <2>2
<1>6. ASSUME NEW q \in Peer, NEW r \in Peer, Restart(q, r)
      PROVE  goal
  <2>1. disk' = [disk EXCEPT ![r] = disk[q], ![q] = EmptyFolder]
    BY <1>6 DEF Restart
  <2>2. disk'[p] = disk[p] \/ disk'[p] = disk[q] \/ disk'[p] = EmptyFolder
    BY <1>1, <2>1
  <2>3. EmptyFolder[x] = None
    BY DEF EmptyFolder
  <2> QED
    BY <2>2, <2>3
<1>7. \A f \in File : f \in Path
  BY DEF Path
<1> HIDE DEF goal
<1>8. goal
  BY <1>2, <1>3, <1>4, <1>5, <1>6, <1>7, WriterFrame
<1> QED
  BY <1>8 DEF goal

LEMMA ServedInPlace ==
  ASSUME NEW c \in Content, NEW n \in Nat, InPlace(c)
  PROVE  InPlace(Served(c, n))
<1> DEFINE s == Served(c, n)
<1>1. /\ s \in Content /\ Len(s) <= Len(c)
      /\ \A i \in 1 .. Len(s) : s[i] = c[i]
  BY ServedPrefix
<1>2. DOMAIN s = 1 .. Len(s) /\ DOMAIN c = 1 .. Len(c) /\ Len(s) \in Nat /\ Len(c) \in Nat
  BY <1>1 DEF Content
<1> HIDE DEF s
<1>3. InPlace(s)
  BY <1>1, <1>2 DEF InPlace
<1> QED
  BY <1>3 DEF s

LEMMA OverlaidInPlace ==
  ASSUME NEW base \in Content, NEW c \in Content, InPlace(base), InPlace(c)
  PROVE  InPlace(Overlay(base, c))
<1> DEFINE o == Overlay(base, c)
<1>1. \A i \in DOMAIN o : \/ i \in DOMAIN c /\ o[i] = c[i]
                          \/ i \in DOMAIN base /\ o[i] = base[i]
  BY OverlayInPlace
<1> HIDE DEF o
<1>2. InPlace(o)
  BY <1>1 DEF InPlace
<1> QED
  BY <1>2 DEF o

LEMMA FetchedInPlace ==
  ASSUME TypeOK, DataInPlace, [Next]_vars, NEW p \in Peer, NEW g \in fetches'[p]
  PROVE  InPlace(g.data)
<1>1. /\ disk \in [Peer -> [Path -> Content \cup {None}]]
      /\ fetches \in [Peer -> SUBSET Fetch]
  BY DEF TypeOK, FolderType, TaskType, Folder
<1>2. ASSUME NEW f \in fetches[p], Continues(p, g, f)
      PROVE  InPlace(g.data)
  <2>1. f.path \in Path /\ f.data \in Content /\ f.n \in Nat /\ InPlace(f.data)
    BY <1>1 DEF Fetch, DataInPlace
  <2>2. ASSUME NEW q \in Peer, disk[q][f.path] # None,
               g.data = Served(disk[q][f.path], f.n)
        PROVE  InPlace(g.data)
    BY <1>1, <2>1, <2>2, ServedInPlace DEF DataInPlace, ChunksInPlace
  <2>3. CASE g.data = Overlay(ReadOrEmpty(disk[p][f.path]), f.data)
    <3>1. ReadOrEmpty(disk[p][f.path]) \in Content
      BY <1>1, <2>1, ReadIsContent
    <3>2. InPlace(ReadOrEmpty(disk[p][f.path]))
      BY <2>1 DEF ReadOrEmpty, DataInPlace, ChunksInPlace, InPlace
    <3> QED
      BY <2>1, <2>3, <3>1, <3>2, OverlaidInPlace
  <2> QED
    BY <1>2, <2>1, <2>2, <2>3 DEF Continues
<1>3. CASE g.data = <<>>
  BY <1>3 DEF InPlace
<1> QED
  BY <1>2, <1>3, FetchOrigin DEF Starts

LEMMA FoldersInPlace ==
  ASSUME TypeOK, DataInPlace, [Next]_vars,
         NEW p \in Peer, NEW x \in Path, disk'[p][x] # None
  PROVE  InPlace(disk'[p][x])
<1>1. ASSUME NEW v \in Version PROVE InPlace(v)
  BY <1>1, ContentAssumption DEF InPlace, Written, Content
<1> QED
  BY <1>1, ContentOrigin DEF DataInPlace, ChunksInPlace

LEMMA IndexInPlace ==
  ASSUME TypeOK, DataInPlace, [Next]_vars,
         NEW p \in Peer, NEW x \in Path, tree'[p][x] # None
  PROVE  InPlace(tree'[p][x])
<1>1. /\ tree \in [Peer -> Folder]
      /\ disk \in [Peer -> Folder]
  BY DEF TypeOK, IndexType, FolderType
<1>2. CASE tree'[p][x] = tree[p][x]
  BY <1>2 DEF DataInPlace, ChunksInPlace
<1>3. CASE tree'[p][x] # tree[p][x]
  <2>1. ASSUME NEW q \in Peer, NEW ts \in Timestamp, BuildIndex(q, ts)
        PROVE  tree'[p][x] = disk[p][x]
    BY <1>1, <1>3, <2>1 DEF BuildIndex, Scan
  <2>2. ASSUME NEW q \in Peer, NEW r \in Peer, Restart(q, r)
        PROVE  FALSE
    BY <1>1, <1>3, <2>2 DEF Restart, EmptyFolder
  <2>3. ASSUME NEW q \in Peer, NEW ts \in Timestamp, AnnounceChange(q, ts)
        PROVE  tree'[p][x] = disk[p][x]
    BY <1>1, <1>3, <2>3, Announced DEF AnnounceChange, Folder
  <2>4. ASSUME NEW q \in Peer, NEW ts \in Timestamp, AnnounceRemoval(q, ts)
        PROVE  FALSE
    BY <1>1, <1>3, <2>4, Removed DEF AnnounceRemoval, Forget, Folder
  <2>5. ASSUME NEW q \in Peer, NEW note \in unindex[q], Unindex(q, note)
        PROVE  FALSE
    BY <1>1, <1>3, <2>5, Unindexed DEF Unindex, Forget, Folder
  <2>6. ASSUME NEW q \in Peer, NEW f \in fetches[q], IndexFile(q, f)
        PROVE  InPlace(tree'[p][x])
    <3>1. f.path \in Path /\ tree' = [tree EXCEPT ![q][f.path] = f.data]
      BY <2>6, Indexed DEF IndexFile
    <3>2. tree'[p][x] = f.data
      BY <1>1, <1>3, <3>1 DEF Folder
    <3> QED
      BY <3>2 DEF DataInPlace
  <2>7. tree'[p][x] = disk[p][x] => InPlace(tree'[p][x])
    BY DEF DataInPlace, ChunksInPlace
  <2> QED
    BY <1>3, <2>1, <2>2, <2>3, <2>4, <2>5, <2>6, <2>7, IndexFrame DEF IndexStep
<1> QED
  BY <1>2, <1>3

LEMMA DataStaysInPlace ==
  ASSUME TypeOK, DataInPlace, [Next]_vars
  PROVE  DataInPlace'
BY FetchedInPlace, FoldersInPlace, IndexInPlace DEF DataInPlace, ChunksInPlace, InPlace

LEMMA InitDataInPlace == Init => DataInPlace
<1> SUFFICES ASSUME Init PROVE DataInPlace
  OBVIOUS
<1>1. ASSUME NEW p \in Peer, NEW x \in Path, disk[p][x] # None
      PROVE  InPlace(disk[p][x])
  <2>1. disk \in InitDisks /\ disk[p][x] \in Written
    BY <1>1 DEF Init, Written
  <2>2. disk[p][x] \in Content
    BY <1>1, <2>1, InitAssumption DEF Folder
  <2> QED
    BY <2>1, <2>2 DEF InPlace, Content
<1>2. ASSUME NEW p \in Peer, NEW x \in Path, tree[p][x] # None
      PROVE  tree[p][x] = disk[p][x]
  BY <1>2 DEF Init, Scan, EmptyFolder
<1> QED
  BY <1>1, <1>2 DEF Init, DataInPlace, ChunksInPlace

\* Transfers mix the versions of a file, and never move a chunk, taken whole, inside it.
THEOREM ChunksStayInPlace == Spec => []ChunksInPlace
<1>1. TypeOK /\ DataInPlace /\ [Next]_vars => DataInPlace'
  BY DataStaysInPlace
<1>2. DataInPlace => ChunksInPlace
  BY DEF DataInPlace
<1> QED
  BY <1>1, <1>2, InitDataInPlace, TypeCorrect, PTL DEF Spec

-----------------------------------------------------------------------------
(* Clocks implement sets of edits *)

LEMMA EditsOfClock ==
  ASSUME NEW c \in VectorClock, NEW q \in Peer, NEW k
  PROVE  <<q, k>> \in EditsOf(c) <=> k \in 1 .. c[q]
BY DEF EditsOf

\* The edits of a clock are pairs of a peer and a number.
LEMMA EditsArePairs ==
  ASSUME NEW c \in VectorClock, NEW e \in EditsOf(c)
  PROVE  \E q \in Peer, k \in Nat : e = <<q, k>> /\ k \in 1 .. c[q]
BY DEF EditsOf, VectorClock

LEMMA EditsOfNewClock == EditsOf(NewClock) = {}
BY DEF EditsOf, NewClock

LEMMA EditsOfTick ==
  ASSUME NEW c \in VectorClock, NEW p \in Peer
  PROVE  EditsOf(Tick(c, p)) = EditsOf(c) \cup {<<p, c[p] + 1>>}
<1>1. c[p] \in Nat /\ Tick(c, p) \in VectorClock /\ Tick(c, p)[p] = c[p] + 1
      /\ \A q \in Peer \ {p} : Tick(c, p)[q] = c[q]
  BY DEF VectorClock, Tick
<1>2. ASSUME NEW e \in EditsOf(Tick(c, p))
      PROVE  e \in EditsOf(c) \cup {<<p, c[p] + 1>>}
  <2>1. PICK q \in Peer, k \in Nat : e = <<q, k>> /\ k \in 1 .. Tick(c, p)[q]
    BY <1>1, <1>2, EditsArePairs
  <2>2. k \in 1 .. c[q] \/ (q = p /\ k = c[p] + 1)
    BY <1>1, <2>1 DEF VectorClock
  <2> QED
    BY <2>1, <2>2, EditsOfClock
<1>3. ASSUME NEW e \in EditsOf(c)
      PROVE  e \in EditsOf(Tick(c, p))
  <2>1. PICK q \in Peer, k \in Nat : e = <<q, k>> /\ k \in 1 .. c[q]
    BY <1>3, EditsArePairs
  <2>2. k \in 1 .. Tick(c, p)[q]
    BY <1>1, <2>1 DEF VectorClock
  <2> QED
    BY <1>1, <2>1, <2>2, EditsOfClock
<1>4. <<p, c[p] + 1>> \in EditsOf(Tick(c, p))
  BY <1>1, EditsOfClock
<1> QED
  BY <1>2, <1>3, <1>4

LEMMA EditsOfMerge ==
  ASSUME NEW c \in VectorClock, NEW d \in VectorClock
  PROVE  EditsOf(Merge(c, d)) = EditsOf(c) \cup EditsOf(d)
<1>1. Merge(c, d) \in VectorClock
  BY ClockTypes
<1>2. \A q \in Peer, k \in Nat : k \in 1 .. Merge(c, d)[q] <=> k \in 1 .. c[q] \/ k \in 1 .. d[q]
  BY DEF VectorClock, Merge, Max2
<1>3. ASSUME NEW e \in EditsOf(Merge(c, d))
      PROVE  e \in EditsOf(c) \cup EditsOf(d)
  BY <1>1, <1>2, <1>3, EditsArePairs, EditsOfClock
<1>4. ASSUME NEW e \in EditsOf(c) \cup EditsOf(d)
      PROVE  e \in EditsOf(Merge(c, d))
  BY <1>1, <1>2, <1>4, EditsArePairs, EditsOfClock
<1> QED
  BY <1>3, <1>4

\* A clock that counts announced edits stands for announced edits.
LEMMA HonestEditsAnnounced ==
  ASSUME TypeOK, NEW f \in File, NEW c \in VectorClock, Honest(c, f)
  PROVE  EditsOf(c) \in SUBSET History!Announced(f)
<1>1. \A q \in Peer : c[q] \in Nat /\ issued[q][f] \in Nat /\ c[q] <= issued[q][f]
  BY DEF Honest, VectorClock, TypeOK, GroupType
<1>2. ASSUME NEW e \in EditsOf(c)
      PROVE  e \in History!Announced(f)
  <2>1. PICK q \in Peer, k \in Nat : e = <<q, k>> /\ k \in 1 .. c[q]
    BY <1>2, EditsArePairs
  <2>2. k \in 1 .. issued[q][f]
    BY <1>1, <2>1
  <2> QED
    BY <2>1, <2>2 DEF History!Announced
<1> QED
  BY <1>2

\* What a change of the index of one peer is in the abstract state.
LEMMA OnePeerBar ==
  ASSUME NEW p \in Peer, \A q \in Peer \ {p} : meta'[q] = meta[q]
  PROVE  /\ heldBar' = [heldBar EXCEPT ![p] = {f \in File : meta'[p][f] # None}]
         /\ knownBar' = [knownBar EXCEPT ![p] = [f \in File |-> EditsOf(LocalClock(p, f)')]]
BY DEF heldBar, knownBar, LocalClock

\* What an update of the index entry of one file is in the abstract state.
LEMMA HeldFileBar ==
  ASSUME NEW p \in Peer, NEW f \in File, NEW m, m # None,
         meta \in [Peer -> [Path -> Meta \cup {None}]],
         meta' = [meta EXCEPT ![p][f] = m]
  PROVE  /\ heldBar' = [heldBar EXCEPT ![p] = @ \cup {f}]
         /\ knownBar' = [knownBar EXCEPT ![p][f] = EditsOf(m.clock)]
<1>1. f \in Path /\ File \subseteq Path
  BY DEF Path
<1>2. /\ \A q \in Peer \ {p} : meta'[q] = meta[q]
      /\ \A x \in Path : meta'[p][x] = IF x = f THEN m ELSE meta[p][x]
  BY <1>1
<1>3. {g \in File : meta'[p][g] # None} = heldBar[p] \cup {f}
  BY <1>1, <1>2 DEF heldBar
<1>4. [g \in File |-> EditsOf(LocalClock(p, g)')] = [knownBar[p] EXCEPT ![f] = EditsOf(m.clock)]
  BY <1>1, <1>2 DEF knownBar, LocalClock
<1> QED
  BY <1>2, <1>3, <1>4, OnePeerBar DEF heldBar, knownBar

\* What the end of an index entry is in the abstract state.
LEMMA DroppedFileBar ==
  ASSUME NEW p \in Peer, NEW f \in File,
         meta \in [Peer -> [Path -> Meta \cup {None}]],
         meta' = [meta EXCEPT ![p][f] = None]
  PROVE  /\ heldBar' = [heldBar EXCEPT ![p] = @ \ {f}]
         /\ knownBar' = [knownBar EXCEPT ![p][f] = {}]
<1>1. f \in Path /\ File \subseteq Path
  BY DEF Path
<1>2. /\ \A q \in Peer \ {p} : meta'[q] = meta[q]
      /\ \A x \in Path : meta'[p][x] = IF x = f THEN None ELSE meta[p][x]
  BY <1>1
<1>3. {g \in File : meta'[p][g] # None} = heldBar[p] \ {f}
  BY <1>1, <1>2 DEF heldBar
<1>4. [g \in File |-> EditsOf(LocalClock(p, g)')] = [knownBar[p] EXCEPT ![f] = {}]
  BY <1>1, <1>2, EditsOfNewClock DEF knownBar, LocalClock
<1> QED
  BY <1>2, <1>3, <1>4, OnePeerBar DEF heldBar, knownBar

\* A change to the index entry of a conflict copy is none in the abstract state.
LEMMA BackupBar ==
  ASSUME NEW p \in Peer, NEW b \in Path \ File, NEW m,
         meta \in [Peer -> [Path -> Meta \cup {None}]],
         meta' = [meta EXCEPT ![p][b] = m]
  PROVE  UNCHANGED <<heldBar, knownBar>>
<1>1. \A q \in Peer, f \in File : meta'[q][f] = meta[q][f]
  BY DEF Path
<1> QED
  BY <1>1 DEF heldBar, knownBar, LocalClock

LEMMA EditStep ==
  ASSUME TypeOK, EditsAnnounced, NEW p \in Peer, NEW ts \in Timestamp, AnnounceChange(p, ts)
  PROVE  History!Next
<1>1. PICK f \in File : f = Head(chan[p]).path
  BY Announced
<1>2. PICK c \in VectorClock : c = LocalClock(p, f) /\ Honest(c, f)
  BY LocalClockHonest
<1>3. PICK m \in Meta : m.clock = Tick(c, p) /\ meta' = [meta EXCEPT ![p][f] = m]
  <2> DEFINE n == [clock |-> Tick(c, p), ts |-> ts]
  <2>1. n \in Meta /\ n.clock = Tick(c, p)
    BY <1>1, <1>2, Announced
  <2>2. meta' = [meta EXCEPT ![p][f] = n]
    BY <1>1, <1>2 DEF AnnounceChange
  <2> HIDE DEF n
  <2> QED
    BY <2>1, <2>2
<1>4. /\ issued' = [issued EXCEPT ![p][f] = @ + 1]
      /\ issued[p][f] \in Nat
      /\ meta \in [Peer -> [Path -> Meta \cup {None}]]
  BY <1>1 DEF AnnounceChange, TypeOK, GroupType, IndexType
<1>5. knownBar[p][f] = EditsOf(c)
  BY <1>2 DEF knownBar
<1>6. /\ heldBar' = [heldBar EXCEPT ![p] = @ \cup {f}]
      /\ knownBar' = [knownBar EXCEPT ![p][f] = EditsOf(Tick(c, p))]
  <2>1. m # None /\ meta' = [meta EXCEPT ![p][f] = m]
    BY <1>3, NoneAssumption
  <2>2. heldBar' = [heldBar EXCEPT ![p] = @ \cup {f}]
    BY <1>4, <2>1, HeldFileBar
  <2>3. knownBar' = [knownBar EXCEPT ![p][f] = EditsOf(m.clock)]
    BY <1>4, <2>1, HeldFileBar
  <2> QED
    BY <1>3, <2>2, <2>3
<1>7. knownBar' = [knownBar EXCEPT ![p][f] = @ \cup {<<p, c[p] + 1>>}]
  BY <1>5, <1>6, EditsOfTick
<1>8. c[p] \in Nat /\ c[p] <= issued[p][f]
  BY <1>2 DEF VectorClock, Honest
<1>9. /\ c[p] + 1 \in 1 .. issued[p][f] + 1
      /\ \A i \in 1 .. issued[p][f] + 1 : <<p, i>> \in knownBar[p][f] <=> i < c[p] + 1
  BY <1>4, <1>5, <1>8, EditsOfClock
<1>10. History!Edit(p, f)
  BY <1>4, <1>6, <1>7, <1>9 DEF History!Edit
<1> QED
  BY <1>10 DEF History!Next

LEMMA LearnStep ==
  ASSUME TypeOK, EditsAnnounced, NEW p \in Peer, NEW g \in fetches[p], IndexFile(p, g)
  PROVE  [History!Next]_History!vars
<1>1. PICK f \in Path : f = g.path
  BY Indexed
<1>2. PICK d \in VectorClock : d = g.clock
  BY Indexed
<1>3. PICK m \in Meta : /\ m.clock = Merge(LocalClock(p, f), d)
                        /\ meta' = [meta EXCEPT ![p][f] = m]
  <2>1. Applied(p, g) \in Meta /\ Applied(p, g).clock = Merge(LocalClock(p, f), d)
    BY <1>1, <1>2, Indexed DEF Applied
  <2>2. meta' = [meta EXCEPT ![p][f] = Applied(p, g)]
    BY <1>1 DEF IndexFile
  <2> QED
    BY <2>1, <2>2
<1>4. UNCHANGED issued /\ meta \in [Peer -> [Path -> Meta \cup {None}]]
  BY DEF IndexFile, TypeOK, IndexType
<1>5. CASE f \in File
  <2>1. PICK c \in VectorClock : c = LocalClock(p, f)
    BY <1>5, LocalClockHonest
  <2>2. knownBar[p][f] = EditsOf(c) /\ Honest(d, f)
    BY <1>1, <1>2, <1>5, <2>1 DEF knownBar, EditsAnnounced, NoInventedEdits
  <2>3. /\ heldBar' = [heldBar EXCEPT ![p] = @ \cup {f}]
        /\ knownBar' = [knownBar EXCEPT ![p][f] = EditsOf(Merge(c, d))]
    <3>1. m # None
      BY NoneAssumption
    <3>2. meta' = [meta EXCEPT ![p][f] = m]
      BY <1>3
    <3>3. heldBar' = [heldBar EXCEPT ![p] = @ \cup {f}]
      BY <1>4, <1>5, <3>1, <3>2, HeldFileBar
    <3>4. knownBar' = [knownBar EXCEPT ![p][f] = EditsOf(m.clock)]
      BY <1>4, <1>5, <3>1, <3>2, HeldFileBar
    <3>5. m.clock = Merge(c, d)
      BY <1>3, <2>1
    <3> QED
      BY <3>3, <3>4, <3>5
  <2>4. knownBar' = [knownBar EXCEPT ![p][f] = @ \cup EditsOf(d)]
    BY <2>2, <2>3, EditsOfMerge
  <2>5. EditsOf(d) \in SUBSET History!Announced(f)
    BY <1>5, <2>2, HonestEditsAnnounced
  <2>6. History!Learn(p, f)
    BY <1>4, <2>3, <2>4, <2>5 DEF History!Learn
  <2> QED
    BY <1>5, <2>6 DEF History!Next
<1>6. CASE f \notin File
  BY <1>3, <1>4, <1>6, BackupBar DEF History!vars
<1> QED
  BY <1>5, <1>6

LEMMA DropStep ==
  ASSUME TypeOK, NEW p \in Peer, NEW x \in Path,
         meta' = [meta EXCEPT ![p][x] = None], UNCHANGED issued
  PROVE  [History!Next]_History!vars
<1>1. meta \in [Peer -> [Path -> Meta \cup {None}]]
  BY DEF TypeOK, IndexType
<1>2. CASE x \in File
  <2>1. /\ heldBar' = [heldBar EXCEPT ![p] = @ \ {x}]
        /\ knownBar' = [knownBar EXCEPT ![p][x] = {}]
    BY <1>1, <1>2, DroppedFileBar
  <2> QED
    BY <1>2, <2>1 DEF History!Next, History!Drop
<1>3. CASE x \notin File
  BY <1>1, <1>3, BackupBar DEF History!vars
<1> QED
  BY <1>2, <1>3

LEMMA OpenStep ==
  ASSUME TypeOK, NoIndex, NEW p \in Peer, NEW ts \in Timestamp, BuildIndex(p, ts)
  PROVE  History!Next
<1> DEFINE files == {f \in File : meta'[p][f] # None}
<1>1. /\ meta \in [Peer -> [Path -> Meta \cup {None}]]
      /\ meta' = [meta EXCEPT ![p] = ScanMeta(p, ts)]
      /\ meta[p] = EmptyFolder
      /\ UNCHANGED issued
  BY DEF TypeOK, IndexType, BuildIndex, NoIndex
<1>2. /\ \A f \in File : meta[p][f] = None
      /\ \A f \in File : LocalClock(p, f) = NewClock /\ LocalClock(p, f)' = NewClock
  BY <1>1 DEF EmptyFolder, ScanMeta, LocalClock, Path
<1>3. heldBar[p] = {} /\ knownBar[p] = [f \in File |-> {}]
  BY <1>2, EditsOfNewClock DEF heldBar, knownBar
<1>4. /\ heldBar' = [heldBar EXCEPT ![p] = files]
      /\ knownBar' = [knownBar EXCEPT ![p] = [f \in File |-> {}]]
  BY <1>1, <1>2, OnePeerBar, EditsOfNewClock
<1>5. UNCHANGED knownBar
  BY <1>3, <1>4 DEF knownBar
<1>6. History!Open(p, files)
  BY <1>1, <1>3, <1>4, <1>5 DEF History!Open
<1> QED
  BY <1>6 DEF History!Next

LEMMA CloseStep ==
  ASSUME TypeOK, NEW p \in Peer, NEW q \in Peer, Restart(p, q)
  PROVE  History!Next
<1>1. /\ meta \in [Peer -> [Path -> Meta \cup {None}]]
      /\ meta' = [meta EXCEPT ![p] = EmptyFolder]
      /\ UNCHANGED issued
  BY DEF TypeOK, IndexType, Restart
<1>2. \A f \in File : meta'[p][f] = None /\ LocalClock(p, f)' = NewClock
  BY <1>1 DEF EmptyFolder, LocalClock, Path
<1>3. {f \in File : meta'[p][f] # None} = {}
  BY <1>2
<1>4. /\ heldBar' = [heldBar EXCEPT ![p] = {}]
      /\ knownBar' = [knownBar EXCEPT ![p] = [f \in File |-> {}]]
  BY <1>1, <1>2, <1>3, OnePeerBar, EditsOfNewClock
<1> QED
  BY <1>1, <1>4 DEF History!Next, History!Close

LEMMA StepsImplementHistory ==
  ASSUME TypeOK, NoIndex, EditsAnnounced, [Next]_vars
  PROVE  [History!Next]_History!vars
<1>1. ASSUME NEW p \in Peer, NEW ts \in Timestamp, AnnounceRemoval(p, ts)
      PROVE  [History!Next]_History!vars
  <2>1. meta' = [meta EXCEPT ![p][Head(chan[p]).path] = None] /\ UNCHANGED issued
    BY <1>1 DEF AnnounceRemoval, Forget
  <2> QED
    BY <1>1, <2>1, Removed, DropStep
<1>2. ASSUME NEW p \in Peer, NEW note \in unindex[p], Unindex(p, note)
      PROVE  [History!Next]_History!vars
  <2>1. meta' = [meta EXCEPT ![p][note.path] = None] /\ UNCHANGED issued
    BY <1>2 DEF Unindex, Forget
  <2> QED
    BY <2>1, Unindexed, DropStep
<1>3. CASE IndexStep
  BY <1>1, <1>2, <1>3, EditStep, LearnStep, OpenStep, CloseStep DEF IndexStep
<1>4. CASE UNCHANGED meta
  <2>1. CASE UNCHANGED issued
    BY <1>4, <2>1 DEF History!vars, heldBar, knownBar, LocalClock
  <2>2. ASSUME NEW p \in Peer, NEW ts \in Timestamp, AnnounceChange(p, ts)
        PROVE  History!Next
    BY <2>2, EditStep
  <2> QED
    BY <2>1, <2>2, IssuedFrame
<1> QED
  BY <1>3, <1>4, IndexFrame

LEMMA InitImplementsHistory == Init => History!Init
<1> SUFFICES ASSUME Init PROVE History!Init
  OBVIOUS
<1>1. PICK ts \in Timestamp :
        meta = [p \in Peer |-> IF Running(p) THEN ScanMeta(p, ts) ELSE EmptyFolder]
  BY DEF Init
<1>2. \A p \in Peer, f \in File : LocalClock(p, f) = NewClock
  BY <1>1 DEF LocalClock, ScanMeta, EmptyFolder, Path
<1> QED
  BY <1>2, EditsOfNewClock DEF Init, History!Init, heldBar, knownBar

\* The engine's clocks implement the group's history of edits: the initial states are
\* initial states of EditHistory, and every step is one of its steps or changes nothing
\* in it.
THEOREM ClocksImplementHistory == Spec => ImplementsHistory
<1>1. TypeOK /\ EditsAnnounced /\ [Next]_vars => EditsAnnounced'
  BY EditsStayAnnounced
<1>2. TypeOK /\ NoIndex /\ [Next]_vars => NoIndex'
  BY NoIndexStable
<1>3. TypeOK /\ NoIndex /\ EditsAnnounced /\ [Next]_vars => [History!Next]_History!vars
  BY StepsImplementHistory
<1> QED
  BY <1>1, <1>2, <1>3, InitEditsAnnounced, InitNoIndex, InitImplementsHistory, TypeCorrect,
     PTL DEF Spec, ImplementsHistory, History!Spec

=============================================================================
