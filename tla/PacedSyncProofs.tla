--------------------------- MODULE PacedSyncProofs ---------------------------
(***************************************************************************)
(* What the assumptions of PacedSync buy, for any contents, files, rounds, *)
(* clocks and edits: the types of the state, that two peers who follow     *)
(* them never lose what a user wrote (RoundInv), and that their folders    *)
(* converge when the versions are alike in size (AgreeInv).                *)
(***************************************************************************)
EXTENDS PacedSync, SyncEngineProofs

-----------------------------------------------------------------------------
(* Type correctness *)

LEMMA SameVarsTypes ==
  ASSUME TypeOK, UNCHANGED vars PROVE TypeOK'
BY DEF TypeOK, vars, GroupType, FolderType, IndexType, WindowType, EventType, GossipType,
   TaskType

\* A window that ends.
LEMMA WindowEndTypes ==
  ASSUME TypeOK, NEW p \in Peer, Pause(p) \/ DebounceEnds(p) PROVE TypeOK'
BY DEF TypeOK, Pause, DebounceEnds, GroupType, FolderType, IndexType, WindowType, EventType,
   GossipType, TaskType, folderVars, indexVars, netVars, taskVars

\* Every clock shows a natural number.
LEMMA NowIsNat ==
  ASSUME PacedTypeOK, NEW p \in Peer PROVE Now(p) \in Nat
BY RoundAssumption DEF PacedTypeOK, Now

LEMMA EngineTypes ==
  ASSUME PacedTypeOK, PacedNext PROVE TypeOK'
<1>1. TypeOK
  BY DEF PacedTypeOK
<1>2. CASE StartRound \/ EndEdits
  BY <1>1, <1>2, SameVarsTypes DEF StartRound, EndEdits
<1>3. ASSUME NEW p \in Peer, NEW f \in File,
             (\E v \in Version : PacedWrite(p, f, v)) \/ PacedRemove(p, f)
      PROVE  TypeOK'
  <2>1. f \in Path
    BY DEF Path
  <2> QED
    BY <1>1, <1>3, <2>1, UserTypes DEF PacedWrite, PacedRemove
<1>4. ASSUME NEW p \in Peer, PacedPause(p) \/ DebounceEnds(p)
      PROVE  TypeOK'
  BY <1>1, <1>4, WindowEndTypes DEF PacedPause
<1>5. ASSUME NEW p \in Peer, PacedWatch(p)
      PROVE  TypeOK'
  BY <1>1, <1>5, NowIsNat, WatchTypes DEF PacedWatch
<1>6. ASSUME NEW p \in Peer, PacedArrival(p) \/ PacedTask(p)
      PROVE  TypeOK'
  BY <1>1, <1>6, NowIsNat, ArrivalTypes, TaskTypes DEF PacedArrival, PacedTask
<1> QED
  BY <1>2, <1>3, <1>4, <1>5, <1>6 DEF PacedNext

LEMMA RecordTypes ==
  ASSUME edits \subseteq Edit, NEW p \in Peer, NEW f \in File,
         NEW c \in Content \cup {None}, Record(p, f, c)
  PROVE  edits' \subseteq Edit
BY DEF Record, Edit

LEMMA PacedStepTypes ==
  ASSUME PacedTypeOK, PacedNext PROVE PacedTypeOK'
<1>1. CASE StartRound
  BY <1>1, EngineTypes, RoundAssumption DEF StartRound, PacedTypeOK
<1>2. CASE EndEdits
  BY <1>2, EngineTypes DEF EndEdits, PacedTypeOK
<1>3. ASSUME NEW p \in Peer, NEW f \in File, NEW v \in Version, PacedWrite(p, f, v)
      PROVE  PacedTypeOK'
  <2>1. v \in Content
    BY ContentAssumption
  <2>2. edits' \subseteq Edit
    BY <1>3, <2>1, RecordTypes DEF PacedWrite, PacedTypeOK
  <2> QED
    BY <1>3, <2>2, EngineTypes DEF PacedWrite, PacedTypeOK
<1>4. ASSUME NEW p \in Peer, NEW f \in File, PacedRemove(p, f)
      PROVE  PacedTypeOK'
  <2>1. edits' \subseteq Edit
    BY <1>4, RecordTypes DEF PacedRemove, PacedTypeOK
  <2> QED
    BY <1>4, <2>1, EngineTypes DEF PacedRemove, PacedTypeOK
<1>5. ASSUME UNCHANGED pacedVars
      PROVE  PacedTypeOK'
  BY <1>5, EngineTypes DEF PacedTypeOK, pacedVars
<1> QED
  BY <1>1, <1>2, <1>3, <1>4, <1>5
     DEF PacedNext, PacedPause, DebounceEnds, PacedWatch, PacedArrival, PacedTask

LEMMA InitPacedTypes == PacedInit => PacedTypeOK
BY InitTypes, RoundAssumption DEF PacedInit, PacedTypeOK

\* The rounds keep the state of every engine, and what is recorded of the users,
\* well formed, however far the clocks are apart.
THEOREM PacedTypeCorrect == PacedSpec => []PacedTypeOK
<1>1. PacedTypeOK /\ [PacedNext]_<<vars, pacedVars>> => PacedTypeOK'
  <2>1. PacedTypeOK /\ UNCHANGED <<vars, pacedVars>> => PacedTypeOK'
    BY SameVarsTypes DEF PacedTypeOK, pacedVars
  <2> QED
    BY <2>1, PacedStepTypes
<1> QED
  BY <1>1, InitPacedTypes, PTL DEF PacedSpec

-----------------------------------------------------------------------------
(* Two careful peers *)

\* The users keep these assumptions; "patient" is not one of them.
Careful == {"prompt", "quiet", "once", "single"} \subseteq Assumed

\* Every process runs, sends and receives, and shares its whole folder.
OpenGroup ==
  /\ NoPush = {} /\ NoPull = {}
  /\ \A p \in Peer : Excluded[p] = {} /\ InitStatus[p] = "up"

TwoPeers == \A p, q, r \in Peer : p = q \/ q = r \/ p = r

\* conflict_filename puts ".conflict." and eight digits into the file's name, so
\* the copies of two files differ; the copies of one file need not.
CopiesApart ==
  \A f, g \in File, p, q \in Peer :
    ConflictName[<<f, p>>] = ConflictName[<<g, q>>] => f = g

TwoCarefulPeers == Careful /\ OpenGroup /\ TwoPeers /\ CopiesApart

-----------------------------------------------------------------------------
(* The inductive invariant of a round *)

In(q, e) == \E i \in DOMAIN q : q[i] = e

Once(q, e) == \A i, j \in DOMAIN q : q[i] = e /\ q[j] = e => i = j

Ev(kind, x) == [kind |-> kind, path |-> x]

\* An event on x that the engine of p has not yet taken.
Waits(p, kind, x) == In(raw[p], Ev(kind, x)) \/ In(chan[p], Ev(kind, x))

Wrote(p, f) == \E e \in edits : e.peer = p /\ e.file = f /\ e.left # None

Gone(f) == \E e \in edits : e.file = f /\ e.left = None

Copies(f) == {ConflictName[<<f, q>>] : q \in Peer}

About(note, kind, x) == note.kind = kind /\ note.path = x

AllUp == \A p \in Peer : status[p] = "up"

\* A user edits a file at most once, and a file that is removed is edited by no
\* one else.
OneEdit ==
  \A d, e \in edits : d.file = e.file /\ (d.peer = e.peer \/ d.left = None) => d = e

\* While the users work, the engines have nothing to do but to announce.
Working ==
  phase = "edit" =>
    \A p \in Peer : inbox[p] = {} /\ fetches[p] = {} /\ unindex[p] = {} /\ guard[p] = {}

\* Reconciling is over before the first round.
Begun ==
  /\ phase = "edit" \/ edits # {} => round > 0
  /\ round > 0 => Acquainted /\ \A p \in Peer : recon[p] = {}

\* No notification is handed to its author.
Authors ==
  /\ \A m \in gossip : m.note.peer \in m.has
  /\ \A p \in Peer : \A d \in inbox[p] : d.note.peer # p

\* Nothing speaks of the deletion of a file that no user removed in this round ...
NoRemovals ==
  \A x \in Path : ~Gone(x) =>
    /\ \A m \in gossip : ~About(m.note, "deleted", x)
    /\ \A p \in Peer :
         /\ ~Waits(p, "removed", x)
         /\ \A d \in inbox[p] : ~About(d.note, "deleted", x)
         /\ \A note \in unindex[p] : note.path # x

\* ... nor of a change to a file that no user wrote.
NoChanges ==
  round > 0 =>
    \A f \in File : (\A p \in Peer : ~Wrote(p, f)) =>
      /\ \A m \in gossip : ~About(m.note, "changed", f)
      /\ \A p \in Peer :
           /\ ~Waits(p, "changed", f)
           /\ \A d \in inbox[p] : ~About(d.note, "changed", f)
           /\ \A g \in fetches[p] : g.path # f

\* What the engine writes is never announced: the guard holds the event back.
Echoes ==
  phase = "sync" =>
    \A p \in Peer, f \in File :
      /\ In(raw[p], Ev("changed", f)) => f \in guard[p]
      /\ ~In(chan[p], Ev("changed", f))

\* How many of its own changes of f a peer counts.
Count(p, f) == LocalClock(p, f)[p]

Bounded(clock, f) == \A p \in Peer : clock[p] <= Count(p, f)

\* Nobody counts more changes of a peer than the peer does, unless the file was
\* removed: its author then counts from zero.
Own ==
  \A f \in File : ~Gone(f) =>
    /\ \A m \in gossip : m.note.path = f => Bounded(m.note.clock, f)
    /\ \A p \in Peer :
         /\ Bounded(LocalClock(p, f), f)
         /\ \A d \in inbox[p] : d.note.path = f => Bounded(d.note.clock, f)
         /\ \A g \in fetches[p] : g.path = f => Bounded(g.clock, f)

OneEvent(p, f) ==
  /\ ~(In(raw[p], Ev("changed", f)) /\ In(chan[p], Ev("changed", f)))
  /\ Once(raw[p], Ev("changed", f)) /\ Once(chan[p], Ev("changed", f))

\* p has not yet announced a change of f in this round, nor looked at one.
Silent(p, f) ==
  /\ f \notin debounce[p]
  /\ \A m \in gossip : m.note.peer = p => ~About(m.note, "changed", f)

\* An edit raises one event, and the debounce window is not open when it comes.
ToldOnce ==
  phase = "edit" =>
    \A p \in Peer, f \in File :
      /\ ~Wrote(p, f) => ~Waits(p, "changed", f) /\ Silent(p, f)
      /\ Waits(p, "changed", f) => OneEvent(p, f) /\ Silent(p, f)

\* What p has announced of f, no other notification of the round knows.
Ahead ==
  \A p \in Peer, f \in File :
    Wrote(p, f) /\ (phase = "edit" => ~Waits(p, "changed", f)) =>
      /\ \A m \in gossip : m.note.path = f /\ m.note.peer # p => m.note.clock[p] < Count(p, f)
      /\ \A d \in inbox[p] : d.note.path = f => d.note.clock[p] < Count(p, f)
      /\ phase = "edit" =>
           \A q \in Peer : q # p => LocalClock(q, f)[p] < Count(p, f)

News(p, f) == {m \in gossip : About(m.note, "changed", f) /\ m.note.peer # p}

Mail(p, f) == {d \in inbox[p] : About(d.note, "changed", f)}

Loads(p, f) == {g \in fetches[p] : g.path \in {f} \cup Copies(f)}

AtMostOne(S) == \A a, b \in S : a = b

\* One change of f is on its way to p: as a notification, a task or a fetch.
OneNews ==
  round > 0 =>
    \A p \in Peer, f \in File :
      /\ AtMostOne(News(p, f)) /\ AtMostOne(Mail(p, f)) /\ AtMostOne(Loads(p, f))
      /\ News(p, f) # {} => Mail(p, f) = {} /\ Loads(p, f) = {}
      /\ Mail(p, f) # {} => Loads(p, f) = {}

\* What the user left is in the file, and nothing is fetched over it.
Stands(e) ==
  /\ disk[e.peer][e.file] = e.left
  /\ \A g \in fetches[e.peer] : g.path # e.file

\* It is in the copy, and nothing will be fetched over that.
Saved(e) ==
  /\ phase = "sync"
  /\ disk[e.peer][ConflictName[<<e.file, e.peer>>]] = e.left
  /\ News(e.peer, e.file) = {} /\ Mail(e.peer, e.file) = {}
  /\ \A g \in fetches[e.peer] : g.path \notin Copies(e.file)

Safe == \A e \in edits : e.left # None => Stands(e) \/ Saved(e)

\* The removal of f is on its way to p.
Comes(p, f) ==
  \/ \E m \in gossip : About(m.note, "deleted", f) /\ p \notin m.has
  \/ \E d \in inbox[p] : About(d.note, "deleted", f)
  \/ \E note \in unindex[p] : note.path = f

\* A removed file is forgotten by every index, or will be: the next round starts
\* with clocks that agree on it.
Forgets ==
  \A e \in edits : e.left = None =>
    \A p \in Peer :
      \/ meta[p][e.file] = None
      \/ phase = "edit" /\ Waits(e.peer, "removed", e.file)
      \/ p # e.peer /\ Comes(p, e.file)

RoundInv ==
  /\ PacedTypeOK
  /\ AllUp /\ OneEdit /\ Working /\ Begun /\ Authors
  /\ NoRemovals /\ NoChanges /\ Echoes
  /\ Own /\ ToldOnce /\ Ahead
  /\ OneNews /\ Safe /\ Forgets

-----------------------------------------------------------------------------
(* Queues *)

LEMMA InAppend ==
  ASSUME NEW S, NEW q \in Seq(S), NEW a \in S, NEW e
  PROVE  In(Append(q, a), e) <=> In(q, e) \/ e = a
<1>1. In(q, e) => In(Append(q, a), e)
  BY DEF In
<1>2. In(Append(q, a), a)
  <2>1. Len(q) + 1 \in DOMAIN Append(q, a) /\ Append(q, a)[Len(q) + 1] = a
    OBVIOUS
  <2> QED
    BY <2>1 DEF In
<1>3. In(Append(q, a), e) => In(q, e) \/ e = a
  BY DEF In
<1> QED
  BY <1>1, <1>2, <1>3

LEMMA InTail ==
  ASSUME NEW S, NEW q \in Seq(S), q # <<>>, NEW e
  PROVE  /\ In(q, e) <=> e = Head(q) \/ In(Tail(q), e)
         /\ Once(q, Head(q)) => ~In(Tail(q), Head(q))
<1>1. In(Tail(q), e) => In(q, e)
  BY DEF In
<1>2. In(q, Head(q))
  BY DEF In
<1>3. In(q, e) => e = Head(q) \/ In(Tail(q), e)
  <2>1. SUFFICES ASSUME NEW i \in DOMAIN q, q[i] = e, i # 1 PROVE In(Tail(q), e)
    BY DEF In
  <2>2. i - 1 \in DOMAIN Tail(q) /\ Tail(q)[i - 1] = e
    BY <2>1
  <2> QED
    BY <2>2 DEF In
<1>4. Once(q, Head(q)) => ~In(Tail(q), Head(q))
  <2>1. SUFFICES ASSUME NEW i \in DOMAIN Tail(q), Tail(q)[i] = Head(q), Once(q, Head(q))
                 PROVE  FALSE
    BY DEF In
  <2>2. i + 1 \in DOMAIN q /\ q[i + 1] = Head(q) /\ 1 \in DOMAIN q /\ q[1] = Head(q)
    BY <2>1
  <2> QED
    BY <2>1, <2>2 DEF Once
<1> QED
  BY <1>1, <1>2, <1>3, <1>4

LEMMA OnceKept ==
  ASSUME NEW S, NEW q \in Seq(S), NEW e
  PROVE  /\ ~In(q, e) => Once(q, e)
         /\ q # <<>> /\ Once(q, e) => Once(Tail(q), e)
         /\ \A a \in S : ~In(q, e) \/ (a # e /\ Once(q, e)) => Once(Append(q, a), e)
<1>1. ~In(q, e) => Once(q, e)
  BY DEF In, Once
<1>2. ASSUME q # <<>>, Once(q, e), NEW i \in DOMAIN Tail(q), NEW j \in DOMAIN Tail(q),
             Tail(q)[i] = e, Tail(q)[j] = e
      PROVE  i = j
  <2>1. i + 1 \in DOMAIN q /\ q[i + 1] = e /\ j + 1 \in DOMAIN q /\ q[j + 1] = e
    BY <1>2
  <2>2. i + 1 = j + 1
    BY <1>2, <2>1 DEF Once
  <2> QED
    BY <2>2
<1>3. ASSUME NEW a \in S, ~In(q, e) \/ (a # e /\ Once(q, e))
      PROVE  Once(Append(q, a), e)
  BY <1>3 DEF In, Once
<1> QED
  BY <1>1, <1>2, <1>3 DEF Once

LEMMA EmptyQueue == \A e : ~In(<<>>, e)
BY DEF In

-----------------------------------------------------------------------------
(* What a step does, given the invariant *)

users == <<round, phase, edits, status, met>>

queues == <<raw, chan>>

tasks == <<inbox, fetches, unindex, recon>>

SameTree == UNCHANGED tree

\* Windows end; that of the guard only when no event is on its way.
Rests ==
  /\ guard' = guard \/ Drained
  /\ \A q \in Peer : guard'[q] \subseteq guard[q] /\ debounce'[q] \subseteq debounce[q]
  /\ UNCHANGED <<users, disk, meta, queues, gossip, tasks>>
  /\ SameTree

\* The bridge drops an event on a path that is guarded.
Drops(p) ==
  /\ phase = "sync"
  /\ raw[p] # <<>> /\ raw' = [raw EXCEPT ![p] = Tail(raw[p])]
  /\ UNCHANGED <<users, disk, meta, chan, windowVars, gossip, tasks>>
  /\ SameTree

\* It forwards one on a path that is not.
Moves(p) ==
  /\ raw[p] # <<>> /\ Head(raw[p]).path \notin guard[p]
  /\ raw' = [raw EXCEPT ![p] = Tail(raw[p])]
  /\ chan' = [chan EXCEPT ![p] = Append(chan[p], Head(raw[p]))]
  /\ UNCHANGED <<users, disk, meta, windowVars, gossip, tasks>>
  /\ SameTree

\* The engine takes an event on a conflict copy and does nothing.
Skips(p) ==
  /\ chan[p] # <<>> /\ Head(chan[p]).kind = "changed" /\ Head(chan[p]).path \notin File
  /\ chan' = [chan EXCEPT ![p] = Tail(chan[p])]
  /\ \A q \in Peer : /\ guard'[q] \subseteq guard[q]
                     /\ guard'[q] \cap File = guard[q] \cap File
                     /\ debounce'[q] \cap File = debounce[q] \cap File
  /\ UNCHANGED <<users, disk, meta, raw, gossip, tasks>>
  /\ SameTree

\* The index and the notification get what is on disk now.
TellsContent(p, f, note) ==
  /\ note.data = disk[p][f] /\ note.ts = Now(p)
  /\ tree' = [tree EXCEPT ![p][f] = disk[p][f]]

\* It announces an edit of f.
Tells(p, f, note) ==
  /\ phase = "edit"
  /\ chan[p] # <<>> /\ Head(chan[p]) = Ev("changed", f)
  /\ chan' = [chan EXCEPT ![p] = Tail(chan[p])]
  /\ note \in Note /\ About(note, "changed", f) /\ note.peer = p
  /\ note.clock = Tick(LocalClock(p, f), p)
  /\ gossip' = gossip \cup {[note |-> note, has |-> {p}]}
  /\ meta' = [meta EXCEPT ![p][f] = [clock |-> note.clock, ts |-> note.ts]]
  /\ debounce' = [debounce EXCEPT ![p] = @ \cup {f}]
  /\ UNCHANGED <<users, disk, raw, guard, tasks>>
  /\ TellsContent(p, f, note)

Unlists(p, x) == tree' = [tree EXCEPT ![p][x] = None]

\* It announces that x was removed.
TellsRemoval(p, x, note) ==
  /\ chan[p] # <<>> /\ Head(chan[p]) = Ev("removed", x)
  /\ chan' = [chan EXCEPT ![p] = Tail(chan[p])]
  /\ note \in Note /\ About(note, "deleted", x) /\ note.peer = p
  /\ gossip' = gossip \cup {[note |-> note, has |-> {p}]}
  /\ meta' = [meta EXCEPT ![p][x] = None]
  /\ UNCHANGED <<users, disk, raw, windowVars, tasks>>
  /\ Unlists(p, x)

Through(m, d) == d.source \in m.has /\ SameTree

\* The notification m reaches p, the only peer that did not have it.
Arrives(p, m, d) ==
  /\ phase = "sync"
  /\ p \notin m.has /\ d.note = m.note
  /\ gossip' = gossip \ {m}
  /\ inbox' = [inbox EXCEPT ![p] = @ \cup {d}]
  /\ UNCHANGED <<users, disk, meta, queues, windowVars, fetches, unindex, recon>>
  /\ Through(m, d)

\* The steps of a reconciliation, up to its fetches.
Compares(p) ==
  \/ \E q \in Peer : Discover(p, q)
  \/ \E r \in recon[p] : \/ ServeRootHash(p, r) \/ CompareRoots(p, r) \/ ServeTree(p, r)
                         \/ DiffTrees(p, r) \/ ReconcileComplete(p, r)
                         \/ \E x \in Path, ts \in Nat : FetchNext(p, r, x, ts)

\* Peers meet and compare their trees, before the first round.
Reconciles(p) ==
  /\ round = 0 /\ phase = "sync"
  /\ \A q \in Peer : \A g \in fetches'[q] : g \in fetches[q] \/ g.clock = NewClock
  /\ UNCHANGED <<round, phase, edits, status, disk, meta, queues, windowVars, gossip,
                 inbox, unindex>>
  /\ Compares(p) /\ SameTree

Decides(p, d, decision) == Decision(p, d.note) = decision /\ SameTree

\* A notification is turned down.
Refuses(p, d) ==
  /\ phase = "sync" /\ d \in inbox[p] /\ d.note.kind = "changed"
  /\ inbox' = [inbox EXCEPT ![p] = @ \ {d}]
  /\ UNCHANGED <<users, disk, meta, queues, windowVars, gossip, fetches, unindex, recon>>
  /\ Decides(p, d, "Reject")

\* It asks for the version of the notification: for the file itself, or for a copy of
\* the version that loses.
AsksFor(p, d, h) ==
  /\ h.pc = "request" /\ h.source = d.source
  /\ h.n = Len(d.note.data) /\ h.ts = d.note.ts
  /\ \/ h.path = d.note.path /\ (Decides(p, d, "Accept") \/ Decides(p, d, "LocalLoses"))
     \/ h.path \in Backup /\ Decides(p, d, "RemoteLoses")

\* The fetch h is started for a notification.
Fetches(p, d, h) ==
  /\ phase = "sync" /\ d \in inbox[p] /\ d.note.kind = "changed" /\ d.note.path \in File
  /\ h \in Fetch /\ h.clock = d.note.clock
  /\ h.path \in {d.note.path} \cup Copies(d.note.path)
  /\ inbox' = [inbox EXCEPT ![p] = @ \ {d}]
  /\ fetches' = [fetches EXCEPT ![p] = @ \cup {h}]
  /\ \A q \in Peer : guard[q] \subseteq guard'[q]
  /\ UNCHANGED <<users, meta, chan, debounce, gossip, unindex, recon>>
  /\ AsksFor(p, d, h)

\* ... for a version that is newer, or for the copy of one that loses.
FetchesBeside(p, d, h) ==
  /\ Fetches(p, d, h)
  /\ Wrote(p, d.note.path) => h.path # d.note.path
  /\ UNCHANGED <<disk, raw>>

\* ... for a version that wins, when the local one has been copied.
FetchesOver(p, d, h) ==
  /\ Fetches(p, d, h) /\ h.path = d.note.path
  /\ LET b == ConflictName[<<d.note.path, p>>]
     IN \/ /\ disk[p][h.path] # None
           /\ disk' = [disk EXCEPT ![p][b] = disk[p][h.path]]
           /\ raw' = [raw EXCEPT ![p] = Append(raw[p], Ev("changed", b))]
        \/ disk[p][h.path] = None /\ UNCHANGED <<disk, raw>>

SameRequest(g, h) == h.source = g.source /\ h.n = g.n /\ h.ts = g.ts /\ SameTree

\* A fetch proceeds.
Proceeds(p, g, h) ==
  /\ phase = "sync" /\ g \in fetches[p] /\ h \in Fetch
  /\ h.path = g.path /\ h.clock = g.clock
  /\ fetches' = [fetches EXCEPT ![p] = (@ \ {g}) \cup {h}]
  /\ UNCHANGED <<users, meta, chan, debounce, gossip, inbox, unindex, recon>>
  /\ SameRequest(g, h)

\* It gets chunks, or lays them over the file.
LoadsData(p, g, h) ==
  \/ /\ g.pc = "request" /\ h.pc = "assemble"
     /\ h.data = Served(disk[g.source][g.path], g.n)
  \/ /\ g.pc = "assemble" /\ h.pc = "write"
     /\ h.data = Overlay(ReadOrEmpty(disk[p][g.path]), g.data)

Loading(p, g, h) ==
  Proceeds(p, g, h) /\ UNCHANGED <<disk, raw, guard>> /\ LoadsData(p, g, h)

WritesData(g, h) == g.pc = "write" /\ h.pc = "index" /\ h.data = g.data

Writing(p, g, h) ==
  /\ Proceeds(p, g, h)
  /\ disk' = [disk EXCEPT ![p][g.path] = g.data]
  /\ raw' = [raw EXCEPT ![p] = Append(raw[p], Ev("changed", g.path))]
  /\ guard' = [guard EXCEPT ![p] = @ \cup {g.path}]
  /\ WritesData(g, h)

\* There is nothing to fetch, or too much.
GivesUp(p, g) ==
  /\ \/ g.pc = "request" /\ disk[g.source][g.path] = None
     \/ g.pc = "assemble" /\ Len(g.data) > MaxFileSize
  /\ SameTree

Learns(p, g) == g.pc = "index" /\ tree' = [tree EXCEPT ![p][g.path] = g.data]

\* A fetch ends, and the index may learn what was written.
Ends(p, g) ==
  /\ phase = "sync" /\ g \in fetches[p]
  /\ fetches' = [fetches EXCEPT ![p] = @ \ {g}]
  /\ \/ meta' = meta /\ GivesUp(p, g)
     \/ meta' = [meta EXCEPT ![p][g.path] = Applied(p, g)] /\ Learns(p, g)
  /\ UNCHANGED <<users, disk, queues, windowVars, gossip, inbox, unindex, recon>>

\* A file is removed because its removal was announced.
Removes(p, d) ==
  /\ phase = "sync" /\ d \in inbox[p] /\ d.note.kind = "deleted" /\ d.note.peer # p
  /\ inbox' = [inbox EXCEPT ![p] = @ \ {d}]
  /\ unindex' = [unindex EXCEPT ![p] = @ \cup {d.note}]
  /\ \/ /\ disk' = [disk EXCEPT ![p][d.note.path] = None]
        /\ raw' = [raw EXCEPT ![p] = Append(raw[p], Ev("removed", d.note.path))]
     \/ disk[p][d.note.path] = None /\ UNCHANGED <<disk, raw>>
  /\ UNCHANGED <<users, meta, chan, windowVars, gossip, fetches, recon>>
  /\ SameTree

\* The index forgets it.
Forgetting(p, note) ==
  /\ phase = "sync" /\ note \in unindex[p]
  /\ unindex' = [unindex EXCEPT ![p] = @ \ {note}]
  /\ meta' = [meta EXCEPT ![p][note.path] = None]
  /\ UNCHANGED <<users, disk, queues, windowVars, gossip, inbox, fetches, recon>>
  /\ Unlists(p, note.path)

EngineStep(p) ==
  \/ Drops(p) \/ Moves(p) \/ Skips(p)
  \/ \E f \in File, note \in Note : Tells(p, f, note)
  \/ \E x \in Path, note \in Note : TellsRemoval(p, x, note)
  \/ \E m \in gossip, d \in Delivery : Arrives(p, m, d)
  \/ Reconciles(p)
  \/ \E d \in inbox[p] : \/ Refuses(p, d) \/ Removes(p, d)
                         \/ \E h \in Fetch : FetchesBeside(p, d, h) \/ FetchesOver(p, d, h)
  \/ \E g \in fetches[p] : \/ Ends(p, g)
                           \/ \E h \in Fetch : Loading(p, g, h) \/ Writing(p, g, h)
  \/ \E note \in unindex[p] : Forgetting(p, note)

LEMMA Group ==
  ASSUME TwoCarefulPeers, RoundInv
  PROVE  /\ NoPush = {} /\ NoPull = {}
         /\ \A p \in Peer : Running(p) /\ Excluded[p] = {}
         /\ \A p \in Peer, kind \in {"changed", "removed"}, x \in Path :
              Watched(p, kind, x) = Append(raw[p], Ev(kind, x))
BY DEF TwoCarefulPeers, OpenGroup, RoundInv, AllUp, Running, Watched, Ev

\* The shape of what is in the queues, the mail and the tasks.
LEMMA Shapes ==
  ASSUME PacedTypeOK
  PROVE  /\ \A p \in Peer : /\ raw[p] \in Seq(FsEvent) /\ chan[p] \in Seq(FsEvent)
                            /\ guard[p] \subseteq Path /\ debounce[p] \subseteq Path
         /\ \A m \in gossip : m.note \in Note /\ m.has \subseteq Peer
         /\ \A p \in Peer : \A d \in inbox[p] : d \in Delivery /\ d.note \in Note
         /\ \A p \in Peer : \A g \in fetches[p] : g \in Fetch
         /\ \A p \in Peer : \A note \in unindex[p] : note \in Note
         /\ \A p \in Peer, f \in Path : LocalClock(p, f) \in VectorClock
<1>1. TypeOK
  BY DEF PacedTypeOK
<1>2. /\ \A p \in Peer : /\ raw[p] \in Seq(FsEvent) /\ chan[p] \in Seq(FsEvent)
                         /\ guard[p] \subseteq Path /\ debounce[p] \subseteq Path
      /\ \A m \in gossip : m \in [note : Note, has : SUBSET Peer]
      /\ \A p \in Peer : \A d \in inbox[p] : d \in Delivery
      /\ \A p \in Peer : \A g \in fetches[p] : g \in Fetch
      /\ \A p \in Peer : \A note \in unindex[p] : note \in Note
  BY <1>1 DEF TypeOK, EventType, WindowType, GossipType, TaskType
<1>3. /\ \A m \in gossip : m.note \in Note /\ m.has \subseteq Peer
      /\ \A p \in Peer : \A d \in inbox[p] : d.note \in Note
  BY <1>2 DEF Delivery
<1>4. \A p \in Peer, f \in Path : LocalClock(p, f) \in VectorClock
  BY <1>1, LocalMetaTypes DEF TypeOK
<1> QED
  BY <1>2, <1>3, <1>4

LEMMA NoteShape ==
  ASSUME NEW note \in Note
  PROVE  /\ note.clock \in VectorClock /\ note.peer \in Peer /\ note.path \in Path
         /\ note.kind \in {"changed", "deleted"}
         /\ note.kind = "changed" => note.path \in File
BY DEF Note, Path

LEMMA EventShape ==
  ASSUME NEW q \in Seq(FsEvent), q # <<>>
  PROVE  /\ Head(q) \in FsEvent /\ Tail(q) \in Seq(FsEvent)
         /\ Head(q) = Ev(Head(q).kind, Head(q).path)
         /\ Head(q).kind \in {"changed", "removed"} /\ Head(q).path \in Path
         /\ In(q, Head(q))
<1>1. Head(q) \in FsEvent /\ Tail(q) \in Seq(FsEvent)
  OBVIOUS
<1>2. In(q, Head(q))
  BY InTail
<1> QED
  BY <1>1, <1>2 DEF FsEvent, Ev

LEMMA RestCases ==
  ASSUME NEW p \in Peer, PacedTypeOK, PacedPause(p) \/ DebounceEnds(p)
  PROVE  Rests /\ UNCHANGED skew
<1>1. CASE PacedPause(p)
  BY <1>1, Shapes DEF PacedPause, Pause, Quiet, Rests, pacedVars, users, queues, tasks,
     folderVars, indexVars, netVars, taskVars, SameTree
<1>2. CASE DebounceEnds(p)
  BY <1>2, Shapes DEF DebounceEnds, Rests, pacedVars, users, queues, tasks,
     folderVars, indexVars, netVars, taskVars, SameTree
<1> QED
  BY <1>1, <1>2

\* What the engine takes out of its channel.
LEMMA TakenChange ==
  ASSUME TwoCarefulPeers, RoundInv, NEW p \in Peer, chan[p] # <<>>,
         Head(chan[p]).kind = "changed", Head(chan[p]).path \in File
  PROVE  phase = "edit" /\ Head(chan[p]).path \notin debounce[p]
         /\ Announceable(p, Head(chan[p]).path)
<1> DEFINE f == Head(chan[p]).path
<1>1. In(chan[p], Ev("changed", f))
  BY Shapes, EventShape DEF RoundInv
<1>2. phase = "edit"
  BY <1>1 DEF RoundInv, PacedTypeOK, Echoes
<1>3. Wrote(p, f) /\ f \notin debounce[p]
  BY <1>1, <1>2 DEF RoundInv, ToldOnce, Waits, Silent
<1>4. disk[p][f] # None
  BY <1>2, <1>3 DEF RoundInv, Safe, Stands, Saved, Wrote
<1> QED
  BY <1>2, <1>3, <1>4, Group, PathAssumption DEF Announceable

LEMMA WatchCases ==
  ASSUME TwoCarefulPeers, RoundInv, NEW p \in Peer, PacedWatch(p)
  PROVE  EngineStep(p)
<1> USE DEF pacedVars, users, queues, tasks, folderVars, indexVars, windowVars, netVars, taskVars
<1> DEFINE e == Head(chan[p])
<1>0. PacedTypeOK
  BY DEF RoundInv
<1>1. CASE BridgeDrops(p)
  <2>1. phase = "sync"
    BY <1>1 DEF BridgeDrops, Fresh, RoundInv, PacedTypeOK, Working
  <2>2. Drops(p)
    BY <1>1, <2>1 DEF BridgeDrops, Drops, PacedWatch, SameTree
  <2> QED
    BY <2>2 DEF EngineStep
<1>2. CASE ~Within(p, raw[p]) /\ BridgeForwards(p)
  <2>1. Head(raw[p]).path \notin guard[p] /\ Expired(guard[p], Head(raw[p]).path) = guard[p]
    BY <1>2 DEF Within, BridgeForwards, Expired
  <2>2. guard \in [Peer -> SUBSET Path]
    BY <1>0 DEF PacedTypeOK, TypeOK, WindowType
  <2>3. guard' = guard
    BY <1>2, <2>1, <2>2 DEF BridgeForwards
  <2>4. Moves(p)
    BY <1>2, <2>1, <2>3 DEF BridgeForwards, Moves, PacedWatch, SameTree
  <2> QED
    BY <2>4 DEF EngineStep
<1>3. CASE SuppressFsEvent(p)
  <2>1. chan[p] # <<>> /\ e.kind = "changed" /\ chan' = [chan EXCEPT ![p] = Tail(chan[p])]
    BY <1>3 DEF SuppressFsEvent, TakeFsEvent
  <2>2. e.path \notin File
    BY <1>3, <2>1, TakenChange DEF SuppressFsEvent, Fresh, RoundInv, Working
  <2>3. guard' = guard \/ guard' = [guard EXCEPT ![p] = guard[p] \ {e.path}]
    BY <1>3 DEF SuppressFsEvent, Expired
  <2>4. \A q \in Peer : /\ guard'[q] \subseteq guard[q]
                        /\ guard'[q] \cap File = guard[q] \cap File
    BY <1>0, <2>2, <2>3 DEF PacedTypeOK, TypeOK, WindowType
  <2> HIDE DEF e
  <2>5. Skips(p)
    BY <1>3, <2>1, <2>2, <2>4 DEF SuppressFsEvent, Skips, PacedWatch, SameTree, e
  <2> QED
    BY <2>5 DEF EngineStep
<1>4. CASE /\ ~Within(p, chan[p])
           /\ IgnoreFsEvent(p) \/ AnnounceChange(p, Now(p))
  <2>1. TakeChangeEvent(p, e)
    BY <1>4 DEF IgnoreFsEvent, AnnounceChange
  <2>2. /\ chan[p] # <<>> /\ e.kind = "changed" /\ chan' = [chan EXCEPT ![p] = Tail(chan[p])]
        /\ debounce' = [debounce EXCEPT ![p] = debounce[p] \cup {e.path}]
        /\ guard' = [guard EXCEPT ![p] = guard[p] \ {e.path}]
    BY <2>1 DEF TakeChangeEvent, TakeFsEvent, Expired
  <2>3. e.path \notin guard[p]
    BY <1>4, <2>2 DEF Within
  <2>4. guard' = guard
    BY <1>0, <2>2, <2>3 DEF PacedTypeOK, TypeOK, WindowType
  <2>5. CASE IgnoreFsEvent(p)
    <3>1. e.path \notin File
      BY <2>2, <2>5, TakenChange DEF IgnoreFsEvent
    <3>2. \A q \in Peer : debounce'[q] \cap File = debounce[q] \cap File
      BY <1>0, <2>2, <3>1 DEF PacedTypeOK, TypeOK, WindowType
    <3> HIDE DEF e
    <3>3. Skips(p)
      BY <2>2, <2>4, <2>5, <3>1, <3>2 DEF IgnoreFsEvent, Skips, PacedWatch, SameTree, e
    <3> QED
      BY <3>3 DEF EngineStep
  <2>6. CASE AnnounceChange(p, Now(p))
    <3> DEFINE f == e.path
               note == [kind |-> "changed", path |-> f, data |-> disk[p][f],
                        clock |-> Tick(LocalClock(p, f), p), ts |-> Now(p), peer |-> p]
    <3>1. Announceable(p, f) /\ f \in Path /\ e = Ev("changed", f)
      BY <1>0, <2>2, <2>6, Shapes, EventShape DEF AnnounceChange
    <3>2. f \in File /\ disk[p][f] # None
      BY <3>1 DEF Announceable, Path
    <3>3. phase = "edit"
      BY <2>2, <3>2, TakenChange
    <3>4. note \in Note
      <4>1. disk[p][f] \in Content
        BY <1>0, <3>1, <3>2 DEF PacedTypeOK, TypeOK, FolderType, Folder
      <4>2. Tick(LocalClock(p, f), p) \in VectorClock
        BY <1>0, <3>1, Shapes, ClockTypes
      <4> QED
        BY <1>0, <3>2, <4>1, <4>2, NowIsNat DEF Note
    <3>5. /\ gossip' = gossip \cup {[note |-> note, has |-> {p}]}
          /\ meta' = [meta EXCEPT ![p][f] = [clock |-> note.clock, ts |-> note.ts]]
      BY <2>6 DEF AnnounceChange, Publish
    <3>6. /\ About(note, "changed", f) /\ note.peer = p
          /\ note.clock = Tick(LocalClock(p, f), p)
      BY DEF About
    <3>7. debounce' = [debounce EXCEPT ![p] = @ \cup {f}]
      BY <2>2
    <3>8. UNCHANGED <<users, disk, raw, tasks>>
      BY <2>6 DEF AnnounceChange, PacedWatch
    <3>9. TellsContent(p, f, note)
      BY <2>6 DEF AnnounceChange, TellsContent
    <3> HIDE DEF note, f, e
    <3>10. Tells(p, f, note)
      BY <2>2, <2>4, <3>1, <3>3, <3>4, <3>5, <3>6, <3>7, <3>8, <3>9 DEF Tells, e
    <3> QED
      BY <3>2, <3>4, <3>10 DEF EngineStep
  <2> QED
    BY <1>4, <2>5, <2>6
<1>5. CASE AnnounceRemoval(p, Now(p))
  <2> DEFINE x == e.path
             note == [kind |-> "deleted", path |-> x, data |-> <<>>,
                      clock |-> LocalClock(p, x), ts |-> Now(p), peer |-> p]
  <2>1. /\ chan[p] # <<>> /\ e.kind = "removed"
        /\ chan' = [chan EXCEPT ![p] = Tail(chan[p])]
    BY <1>5 DEF AnnounceRemoval, TakeFsEvent
  <2>2. x \in Path /\ e = Ev("removed", x)
    BY <1>0, <2>1, Shapes, EventShape
  <2>3. note \in Note
    BY <1>0, <2>2, Shapes, NowIsNat, EmptyIsContent DEF Note
  <2>4. /\ gossip' = gossip \cup {[note |-> note, has |-> {p}]}
        /\ meta' = [meta EXCEPT ![p][x] = None]
    BY <1>5 DEF AnnounceRemoval, Publish, Forget
  <2>5. About(note, "deleted", x) /\ note.peer = p
    BY DEF About
  <2>6. UNCHANGED <<users, disk, raw, windowVars, tasks>>
    BY <1>5 DEF AnnounceRemoval, PacedWatch
  <2>7. Unlists(p, x)
    BY <1>5 DEF AnnounceRemoval, Forget, Unlists
  <2> HIDE DEF note, x, e
  <2>8. TellsRemoval(p, x, note)
    BY <2>1, <2>2, <2>3, <2>4, <2>5, <2>6, <2>7 DEF TellsRemoval, e
  <2> QED
    BY <2>2, <2>3, <2>8 DEF EngineStep
<1> QED
  BY <1>1, <1>2, <1>3, <1>4, <1>5 DEF PacedWatch

LEMMA ArrivalCases ==
  ASSUME TwoCarefulPeers, RoundInv, NEW p \in Peer, PacedArrival(p)
  PROVE  EngineStep(p)
<1> USE DEF pacedVars, users, queues, tasks, folderVars, indexVars, windowVars, netVars, taskVars
<1>1. ASSUME NEW m \in gossip, NEW r \in Peer, Relay(m, r, p)
      PROVE  EngineStep(p)
  <2> DEFINE d == [source |-> r, note |-> m.note]
             n == [m EXCEPT !.has = m.has \cup {p}]
  <2>1. m \in [note : Note, has : SUBSET Peer]
    BY DEF RoundInv, PacedTypeOK, TypeOK, GossipType
  <2>2. r \in m.has /\ p \notin m.has
    BY <1>1 DEF Relay
  <2>3. n.has = Peer
    BY <2>1, <2>2 DEF TwoCarefulPeers, TwoPeers
  <2>4. gossip' = (gossip \ {m}) \cup {w \in {n} : w.has # Peer}
    BY <1>1 DEF Relay
  <2>5. gossip' = gossip \ {m}
    BY <2>3, <2>4
  <2>6. d \in Delivery /\ d.note = m.note
    BY <2>1 DEF Delivery
  <2>7. inbox' = [inbox EXCEPT ![p] = @ \cup {d}]
    BY <1>1, Group DEF Relay
  <2>8. phase = "sync" /\ UNCHANGED <<users, disk, meta, queues, windowVars, fetches, unindex, recon>>
    BY <1>1 DEF Relay, PacedArrival
  <2>9. Through(m, d)
    BY <1>1, <2>2 DEF Relay, Through, SameTree
  <2> HIDE DEF d
  <2>10. Arrives(p, m, d)
    BY <2>2, <2>5, <2>6, <2>7, <2>8, <2>9 DEF Arrives
  <2> QED
    BY <2>6, <2>10 DEF EngineStep
<1>2. ASSUME NEW q \in Peer, Discover(p, q)
      PROVE  EngineStep(p)
  <2>1. <<p, q>> \in Link /\ <<p, q>> \notin met
    BY <1>2 DEF Discover
  <2>2. ~Acquainted
    BY <2>1, Group DEF Acquainted
  <2>3. round = 0
    BY <2>2, RoundAssumption DEF RoundInv, Begun, PacedTypeOK
  <2>4. Reconciles(p)
    <3>1. Compares(p)
      BY <1>2 DEF Compares
    <3> QED
      BY <1>2, <2>3, <3>1 DEF Discover, Reconciles, PacedArrival, SameTree
  <2> QED
    BY <2>4 DEF EngineStep
<1> QED
  BY <1>1, <1>2 DEF PacedArrival, ArrivalStep

\* A fetch that is started or goes on.
LEMMA NewFetch ==
  ASSUME TypeOK', NEW p \in Peer, NEW h, h \in fetches'[p] PROVE h \in Fetch
BY DEF TypeOK, TaskType

LEMMA StartedFetch ==
  ASSUME TwoCarefulPeers, RoundInv, TypeOK', NEW p \in Peer, NEW x \in Path,
         NEW d \in inbox[p], StartFetch(p, x, d)
  PROVE  \E h \in Fetch : /\ h.path = x /\ h.clock = d.note.clock
                          /\ h.pc = "request" /\ h.source = d.source
                          /\ h.n = Len(d.note.data) /\ h.ts = d.note.ts
                          /\ fetches' = [fetches EXCEPT ![p] = @ \cup {h}]
<1> DEFINE h == [pc |-> "request", source |-> d.source, path |-> x,
                 n |-> Len(d.note.data), clock |-> d.note.clock, ts |-> d.note.ts,
                 data |-> <<>>, hash |-> d.note.data, id |-> 0]
<1>1. fetches' = [fetches EXCEPT ![p] = @ \cup {h}]
  BY Group DEF StartFetch
<1>2. /\ h.path = x /\ h.clock = d.note.clock
      /\ h.pc = "request" /\ h.source = d.source /\ h.n = Len(d.note.data) /\ h.ts = d.note.ts
  OBVIOUS
<1> HIDE DEF h
<1>3. h \in fetches'[p]
  BY <1>1 DEF RoundInv, PacedTypeOK, TypeOK, TaskType
<1> QED
  BY <1>1, <1>2, <1>3, NewFetch

\* A version that is accepted is not one of a file the user has edited: nobody who
\* has not seen the edit is ahead of it.
LEMMA AcceptedIsNew ==
  ASSUME RoundInv, NEW p \in Peer, NEW d \in inbox[p], phase = "sync",
         d.note.kind = "changed", Decision(p, d.note) = "Accept"
  PROVE  ~Wrote(p, d.note.path)
<1> DEFINE f == d.note.path
<1>1. d.note \in Note /\ f \in File /\ f \in Path /\ d.note.clock \in VectorClock
  BY Shapes, NoteShape DEF RoundInv
<1>2. d.note.peer # p
  BY DEF RoundInv, Authors
<1>3. LocalClock(p, f) \in VectorClock
  BY <1>1, Shapes DEF RoundInv
<1>4. Compare(LocalClock(p, f), d.note.clock) = "Before"
  <2> DEFINE order == Compare(LocalClock(p, f), d.note.clock)
  <2>1. order \in {"Before", "After", "Equal", "Concurrent"}
    BY <1>1, <1>3, CompareCases
  <2>2. Resolve(LocalClock(p, f), d.note.clock, LocalTs(p, f), d.note.ts, d.note.peer, p)
          = "Accept"
    BY <1>2 DEF Decision
  <2> HIDE DEF order
  <2> QED
    BY <2>1, <2>2 DEF Resolve, order
<1>5. LocalClock(p, f)[p] <= d.note.clock[p]
  BY <1>1, <1>3, <1>4, CompareIsOrder DEF Dominates
<1>6. Wrote(p, f) => d.note.clock[p] < LocalClock(p, f)[p]
  BY <1>1 DEF RoundInv, Ahead, Count
<1> QED
  BY <1>1, <1>3, <1>5, <1>6 DEF VectorClock

LEMMA HandlerCases ==
  ASSUME TwoCarefulPeers, RoundInv, TypeOK', NEW p \in Peer, NEW d \in inbox[p],
         phase = "sync", UNCHANGED pacedVars,
         \/ AcceptChange(p, d) \/ RejectChange(p, d) \/ LoseConflict(p, d, TRUE)
         \/ WinConflict(p, d) \/ RemoveFile(p, d)
  PROVE  EngineStep(p)
<1> USE DEF pacedVars, users, queues, tasks, folderVars, indexVars, windowVars, netVars, taskVars
<1> DEFINE f == d.note.path
<1>0. PacedTypeOK
  BY DEF RoundInv
<1>1. /\ d.note \in Note /\ f \in Path /\ d.note.peer \in Peer
      /\ d.note.kind = "changed" => f \in File
  BY <1>0, Shapes, NoteShape
<1>2. ASSUME d.note.kind = "changed", NEW q \in Peer
      PROVE  /\ ConflictName[<<f, q>>] \in Path /\ ConflictName[<<f, q>>] # f
             /\ ConflictName[<<f, q>>] \in Backup
             /\ ConflictName[<<f, q>>] \in Copies(f)
  BY <1>1, <1>2, PathAssumption DEF Path, Copies
<1>3. ASSUME NEW x \in {f} \cup Copies(f), NEW decision, TakeChange(p, d, decision),
             StartFetch(p, x, d), x \in Path, \A q \in Peer : guard[q] \subseteq guard'[q],
             UNCHANGED <<status, met, meta, tree, chan, debounce, gossip, unindex, recon>>,
             \/ x = f /\ decision \in {"Accept", "LocalLoses"}
             \/ x \in Backup /\ decision = "RemoteLoses"
      PROVE  \E h \in Fetch : Fetches(p, d, h) /\ h.path = x
  <2>1. PICK h \in Fetch : /\ h.path = x /\ h.clock = d.note.clock
                           /\ h.pc = "request" /\ h.source = d.source
                           /\ h.n = Len(d.note.data) /\ h.ts = d.note.ts
                           /\ fetches' = [fetches EXCEPT ![p] = @ \cup {h}]
    BY <1>3, StartedFetch
  <2>2. d.note.kind = "changed" /\ inbox' = [inbox EXCEPT ![p] = @ \ {d}]
    BY <1>3 DEF TakeChange
  <2>3. Decides(p, d, decision)
    BY <1>3 DEF TakeChange, Decides, SameTree
  <2>4. AsksFor(p, d, h)
    BY <1>3, <2>1, <2>3 DEF AsksFor
  <2>5. Fetches(p, d, h)
    BY <1>1, <1>3, <2>1, <2>2, <2>4 DEF Fetches
  <2> QED
    BY <2>1, <2>5
<1>4. CASE AcceptChange(p, d)
  <2>1. TakeChange(p, d, "Accept") /\ StartFetch(p, f, d)
    BY <1>4 DEF AcceptChange
  <2>2. ~Wrote(p, f)
    BY <2>1, AcceptedIsNew DEF TakeChange
  <2>3. guard' = [guard EXCEPT ![p] = guard[p] \cup {f}]
    BY <1>4 DEF AcceptChange, Mark
  <2>4. \A q \in Peer : guard[q] \subseteq guard'[q]
    BY <1>0, <2>3 DEF PacedTypeOK, TypeOK, WindowType
  <2>5. UNCHANGED <<status, met, meta, tree, chan, debounce, gossip, unindex, recon, disk, raw>>
    BY <1>4 DEF AcceptChange
  <2>6. PICK h \in Fetch : Fetches(p, d, h) /\ h.path = f
    BY <1>1, <1>3, <2>1, <2>4, <2>5
  <2>7. FetchesBeside(p, d, h)
    BY <2>2, <2>5, <2>6 DEF FetchesBeside
  <2> QED
    BY <2>7 DEF EngineStep
<1>5. CASE RejectChange(p, d)
  <2>1. Refuses(p, d)
    BY <1>5 DEF RejectChange, TakeChange, Refuses, Decides, SameTree
  <2> QED
    BY <2>1 DEF EngineStep
<1>6. CASE LoseConflict(p, d, TRUE)
  <2> DEFINE b == ConflictName[<<f, p>>]
  <2>1. TakeChange(p, d, "LocalLoses") /\ StartFetch(p, f, d)
    BY <1>6 DEF LoseConflict
  <2>2. d.note.kind = "changed"
    BY <2>1 DEF TakeChange
  <2>3. UNCHANGED <<status, met, meta, tree, chan, guard, debounce, gossip, unindex, recon>>
    BY <1>6 DEF LoseConflict
  <2>4. PICK h \in Fetch : Fetches(p, d, h) /\ h.path = f
    BY <1>1, <1>3, <2>1, <2>3
  <2>5. \/ /\ disk[p][f] # None
           /\ disk' = [disk EXCEPT ![p][b] = disk[p][f]]
           /\ raw' = [raw EXCEPT ![p] = Watched(p, "changed", b)]
        \/ disk[p][f] = None /\ UNCHANGED <<disk, raw>>
    BY <1>6 DEF LoseConflict
  <2>6. Watched(p, "changed", b) = Append(raw[p], Ev("changed", b))
    BY <1>2, <2>2, Group
  <2>7. FetchesOver(p, d, h)
    BY <2>4, <2>5, <2>6 DEF FetchesOver
  <2> QED
    BY <2>7 DEF EngineStep
<1>7. CASE WinConflict(p, d)
  <2> DEFINE b == ConflictName[<<f, d.note.peer>>]
  <2>1. TakeChange(p, d, "RemoteLoses") /\ StartFetch(p, b, d)
    BY <1>7 DEF WinConflict
  <2>2. b \in Path /\ b # f /\ b \in Copies(f) /\ b \in Backup
    BY <1>1, <1>2, <2>1 DEF TakeChange
  <2>3. UNCHANGED <<status, met, meta, tree, chan, guard, debounce, gossip, unindex, recon, disk, raw>>
    BY <1>7 DEF WinConflict
  <2> HIDE DEF b
  <2>4. PICK h \in Fetch : Fetches(p, d, h) /\ h.path = b
    BY <1>3, <2>1, <2>2, <2>3
  <2>5. FetchesBeside(p, d, h)
    BY <2>2, <2>3, <2>4 DEF FetchesBeside
  <2> QED
    BY <2>5 DEF EngineStep
<1>8. CASE RemoveFile(p, d)
  <2>1. Watched(p, "removed", f) = Append(raw[p], Ev("removed", f))
    BY <1>1, Group
  <2>2. \/ /\ disk' = [disk EXCEPT ![p][f] = None]
           /\ raw' = [raw EXCEPT ![p] = Append(raw[p], Ev("removed", f))]
        \/ disk[p][f] = None /\ UNCHANGED <<disk, raw>>
    BY <1>8, <2>1 DEF RemoveFile
  <2>3. Removes(p, d)
    BY <1>8, <2>2 DEF RemoveFile, Removes, SameTree
  <2> QED
    BY <2>3 DEF EngineStep
<1> QED
  BY <1>4, <1>5, <1>6, <1>7, <1>8

LEMMA FetchCases ==
  ASSUME TwoCarefulPeers, RoundInv, TypeOK', NEW p \in Peer, NEW g \in fetches[p],
         phase = "sync", UNCHANGED pacedVars,
         ServeChunks(p, g) \/ Assemble(p, g) \/ WriteFile(p, g) \/ IndexFile(p, g)
  PROVE  EngineStep(p)
<1> USE DEF pacedVars, users, queues, tasks, folderVars, indexVars, windowVars, netVars, taskVars
<1>0. PacedTypeOK /\ g \in Fetch /\ g.path \in Path
  BY Shapes DEF RoundInv, Fetch
<1>1. ASSUME NEW h, h.path = g.path, h.clock = g.clock, SameRequest(g, h), Step(p, g, h),
             UNCHANGED <<status, met, meta, chan, debounce, gossip, inbox, unindex, recon>>
      PROVE  h \in Fetch /\ Proceeds(p, g, h)
  <2>1. fetches' = [fetches EXCEPT ![p] = (@ \ {g}) \cup {h}]
    BY <1>1 DEF Step
  <2>2. h \in fetches'[p]
    BY <1>0, <2>1 DEF PacedTypeOK, TypeOK, TaskType
  <2>3. h \in Fetch
    BY <2>2, NewFetch
  <2> QED
    BY <1>1, <2>1, <2>3 DEF Proceeds
<1>2. ASSUME EndFetch(p, g), GivesUp(p, g), UNCHANGED <<status, met, disk, meta, queues, windowVars, gossip,
                                         inbox, unindex, recon>>
      PROVE  EngineStep(p)
  <2>1. Ends(p, g)
    BY <1>2 DEF EndFetch, Ends
  <2> QED
    BY <2>1 DEF EngineStep
<1>3. ASSUME NEW h, h.path = g.path, h.clock = g.clock, SameRequest(g, h), LoadsData(p, g, h),
             Step(p, g, h),
             UNCHANGED <<status, met, disk, meta, queues, windowVars, gossip, inbox,
                         unindex, recon>>
      PROVE  EngineStep(p)
  <2>1. h \in Fetch /\ Loading(p, g, h)
    BY <1>1, <1>3 DEF Loading
  <2> QED
    BY <2>1 DEF EngineStep
<1>4. CASE ServeChunks(p, g)
  <2> DEFINE c == disk[g.source][g.path]
             h == [g EXCEPT !.pc = "assemble", !.data = Served(c, g.n)]
  <2>1. h.path = g.path /\ h.clock = g.clock /\ SameRequest(g, h)
    BY <1>0, <1>4 DEF Fetch, SameRequest, ServeChunks, SameTree
  <2>2. \/ EndFetch(p, g) /\ GivesUp(p, g)
        \/ Step(p, g, h) /\ LoadsData(p, g, h)
    BY <1>0, <1>4 DEF ServeChunks, FetchAt, GivesUp, LoadsData, SameTree, Fetch
  <2>3. UNCHANGED <<status, met, disk, meta, queues, windowVars, gossip, inbox, unindex, recon>>
    BY <1>4 DEF ServeChunks
  <2> HIDE DEF h
  <2> QED
    BY <1>2, <1>3, <2>1, <2>2, <2>3
<1>5. CASE Assemble(p, g)
  <2> DEFINE h == [g EXCEPT !.pc = "write",
                            !.data = Overlay(ReadOrEmpty(disk[p][g.path]), g.data)]
  <2>1. h.path = g.path /\ h.clock = g.clock /\ SameRequest(g, h)
    BY <1>0, <1>5 DEF Fetch, SameRequest, Assemble, SameTree
  <2>2. \/ EndFetch(p, g) /\ GivesUp(p, g)
        \/ Step(p, g, h) /\ LoadsData(p, g, h)
    BY <1>0, <1>5 DEF Assemble, FetchAt, GivesUp, LoadsData, SameTree, Fetch
  <2>3. UNCHANGED <<status, met, disk, meta, queues, windowVars, gossip, inbox, unindex, recon>>
    BY <1>5 DEF Assemble
  <2> HIDE DEF h
  <2> QED
    BY <1>2, <1>3, <2>1, <2>2, <2>3
<1>6. CASE WriteFile(p, g)
  <2> DEFINE h == [g EXCEPT !.pc = "index"]
  <2>1. h.path = g.path /\ h.clock = g.clock /\ SameRequest(g, h)
    BY <1>0, <1>6 DEF Fetch, SameRequest, WriteFile, SameTree
  <2>2. Step(p, g, h) /\ UNCHANGED <<status, met, meta, chan, debounce, gossip, inbox, unindex, recon>>
    BY <1>6 DEF WriteFile
  <2>3. /\ disk' = [disk EXCEPT ![p][g.path] = g.data]
        /\ raw' = [raw EXCEPT ![p] = Append(raw[p], Ev("changed", g.path))]
        /\ guard' = [guard EXCEPT ![p] = @ \cup {g.path}]
    BY <1>0, <1>6, Group DEF WriteFile, Mark
  <2>4. WritesData(g, h)
    BY <1>0, <1>6 DEF WriteFile, FetchAt, WritesData, Fetch
  <2> HIDE DEF h
  <2>5. h \in Fetch /\ Proceeds(p, g, h)
    BY <1>1, <2>1, <2>2
  <2>6. Writing(p, g, h)
    BY <2>3, <2>4, <2>5 DEF Writing
  <2> QED
    BY <2>5, <2>6 DEF EngineStep
<1>7. CASE IndexFile(p, g)
  <2>1. Ends(p, g)
    BY <1>7 DEF IndexFile, EndFetch, Ends, FetchAt, Learns
  <2> QED
    BY <2>1 DEF EngineStep
<1> QED
  BY <1>4, <1>5, <1>6, <1>7

LEMMA ReconcileCases ==
  ASSUME RoundInv, NEW p \in Peer, NEW r \in recon[p], NEW ts \in Nat, UNCHANGED pacedVars,
         \/ ServeRootHash(p, r) \/ CompareRoots(p, r) \/ ServeTree(p, r) \/ DiffTrees(p, r)
         \/ \E x \in Path : FetchNext(p, r, x, ts)
         \/ ReconcileComplete(p, r)
  PROVE  EngineStep(p)
<1> USE DEF pacedVars, users, queues, tasks, folderVars, indexVars, windowVars, netVars, taskVars
<1>1. round = 0 /\ phase = "sync"
  BY RoundAssumption DEF RoundInv, Begun, PacedTypeOK
<1>2. ASSUME UNCHANGED fetches
      PROVE  \A q \in Peer : \A g \in fetches'[q] : g \in fetches[q] \/ g.clock = NewClock
  BY <1>2
<1>3. ASSUME NEW x \in Path, FetchNext(p, r, x, ts)
      PROVE  \A q \in Peer : \A g \in fetches'[q] : g \in fetches[q] \/ g.clock = NewClock
  <2> DEFINE h == [pc |-> "request", source |-> r.source, path |-> x,
                   n |-> Len(r.tree[x]), clock |-> NewClock, ts |-> ts,
                   data |-> <<>>, hash |-> r.tree[x], id |-> r.id]
  <2>1. \/ fetches' = [fetches EXCEPT ![p] = fetches[p]]
        \/ fetches' = [fetches EXCEPT ![p] = fetches[p] \cup {h}]
    BY <1>3 DEF FetchNext
  <2>2. h.clock = NewClock
    OBVIOUS
  <2>3. fetches \in [Peer -> SUBSET Fetch]
    BY DEF RoundInv, PacedTypeOK, TypeOK, TaskType
  <2> HIDE DEF h
  <2> QED
    BY <2>1, <2>2, <2>3
<1>4. \A q \in Peer : \A g \in fetches'[q] : g \in fetches[q] \/ g.clock = NewClock
  BY <1>2, <1>3 DEF ServeRootHash, CompareRoots, ServeTree, DiffTrees, ReconcileComplete
<1>5. Compares(p)
  BY DEF Compares
<1>6. Reconciles(p)
  BY <1>1, <1>4, <1>5 DEF Reconciles, ServeRootHash, CompareRoots, ServeTree, DiffTrees,
     FetchNext, ReconcileComplete, SameTree
<1> QED
  BY <1>6 DEF EngineStep

LEMMA TaskCases ==
  ASSUME TwoCarefulPeers, RoundInv, TypeOK', NEW p \in Peer, PacedTask(p)
  PROVE  EngineStep(p)
<1>1. Now(p) \in Nat /\ TaskStep(p, Now(p)) /\ UNCHANGED pacedVars
  BY NowIsNat DEF RoundInv, PacedTask
<1>2. inbox[p] # {} \/ fetches[p] # {} \/ unindex[p] # {} => phase = "sync"
  BY DEF RoundInv, Working, PacedTypeOK
<1>3. ASSUME NEW note \in unindex[p], Unindex(p, note)
      PROVE  EngineStep(p)
  <2>1. Forgetting(p, note)
    BY <1>1, <1>2, <1>3 DEF Unindex, Forget, Forgetting, Unlists, pacedVars, users, queues,
       folderVars, windowVars, netVars
  <2> QED
    BY <2>1 DEF EngineStep
<1> QED
  BY <1>1, <1>2, <1>3, HandlerCases, FetchCases, ReconcileCases DEF TaskStep

\* What may happen in a group of two careful peers.
LEMMA PacedCases ==
  ASSUME TwoCarefulPeers, RoundInv, PacedNext
  PROVE  \/ StartRound
         \/ EndEdits
         \/ \E p \in Peer, f \in File :
              (\E v \in Version : PacedWrite(p, f, v)) \/ PacedRemove(p, f)
         \/ Rests
         \/ \E p \in Peer : EngineStep(p)
<1>1. TypeOK'
  BY EngineTypes DEF RoundInv
<1> QED
  BY <1>1, RestCases, WatchCases, ArrivalCases, TaskCases DEF PacedNext, RoundInv

-----------------------------------------------------------------------------
(* Users and rounds *)

Begins ==
  /\ phase = "sync" /\ Quiet /\ Acquainted
  /\ \A p \in Peer : guard[p] = {} /\ debounce[p] = {}
  /\ round' = round + 1 /\ phase' = "edit" /\ edits' = {}
  /\ UNCHANGED <<status, met, disk, meta, queues, windowVars, gossip, tasks>>
  /\ SameTree

Closes ==
  /\ phase = "edit" /\ Drained /\ phase' = "sync"
  /\ UNCHANGED <<round, edits, status, met, disk, meta, queues, windowVars, gossip, tasks>>
  /\ SameTree

\* The user of p edits f for the first time in the round: c is None for a removal.
Edits(p, f, kind, c) ==
  /\ phase = "edit" /\ edits' = edits \cup {[peer |-> p, file |-> f, left |-> c]}
  /\ \A e \in edits : e.file = f => e.peer # p /\ e.left # None
  /\ disk' = [disk EXCEPT ![p][f] = c]
  /\ raw' = [raw EXCEPT ![p] = Append(raw[p], Ev(kind, f))]
  /\ UNCHANGED <<round, phase, status, met, meta, chan, windowVars, gossip, tasks>>
  /\ SameTree

Writes(p, f, v) == Edits(p, f, "changed", v) /\ v \in Content /\ v \in Version

Erases(p, f) == Edits(p, f, "removed", None) /\ \A e \in edits : e.file # f

LEMMA RecordedOnce ==
  ASSUME NEW p, NEW f, NEW c, Record(p, f, c), \A e \in edits : e.peer # p \/ e.file # f
  PROVE  edits' = edits \cup {[peer |-> p, file |-> f, left |-> c]}
BY DEF Record

LEMMA UserCases ==
  ASSUME TwoCarefulPeers, RoundInv, NEW p \in Peer, NEW f \in File
  PROVE  /\ \A v \in Version : PacedWrite(p, f, v) => Writes(p, f, v)
         /\ PacedRemove(p, f) => Erases(p, f)
<1> USE DEF pacedVars, users, queues, tasks, folderVars, indexVars, windowVars, netVars, taskVars
<1>1. f \in Path
  BY DEF Path
<1>2. {"quiet", "once", "single"} \subseteq Assumed
  BY DEF TwoCarefulPeers, Careful
<1>3. ASSUME NEW v \in Version, PacedWrite(p, f, v)
      PROVE  Writes(p, f, v)
  <2>1. /\ phase = "edit" /\ \A e \in edits : e.peer # p \/ e.file # f
        /\ \A e \in edits : e.file = f => e.left # None
    BY <1>2, <1>3 DEF PacedWrite, MayEdit
  <2>2. edits' = edits \cup {[peer |-> p, file |-> f, left |-> v]}
    BY <1>3, <2>1, RecordedOnce DEF PacedWrite
  <2>3. /\ disk' = [disk EXCEPT ![p][f] = v]
        /\ raw' = [raw EXCEPT ![p] = Append(raw[p], Ev("changed", f))]
        /\ UNCHANGED <<round, phase, status, met, meta, chan, windowVars, gossip, tasks>>
    BY <1>1, <1>3, Group DEF PacedWrite, UserWrite
  <2> QED
    BY <1>3, <2>1, <2>2, <2>3, ContentAssumption DEF Writes, Edits, PacedWrite, UserWrite, SameTree
<1>4. ASSUME PacedRemove(p, f)
      PROVE  Erases(p, f)
  <2>1. phase = "edit" /\ \A e \in edits : e.file # f
    BY <1>2, <1>4 DEF PacedRemove, MayEdit
  <2>2. edits' = edits \cup {[peer |-> p, file |-> f, left |-> None]}
    BY <1>4, <2>1, RecordedOnce DEF PacedRemove
  <2>3. /\ disk' = [disk EXCEPT ![p][f] = None]
        /\ raw' = [raw EXCEPT ![p] = Append(raw[p], Ev("removed", f))]
        /\ UNCHANGED <<round, phase, status, met, meta, chan, windowVars, gossip, tasks>>
    BY <1>1, <1>4, Group DEF PacedRemove, UserRemove
  <2> QED
    BY <1>4, <2>1, <2>2, <2>3 DEF Erases, Edits, PacedRemove, UserRemove, SameTree
<1> QED
  BY <1>3, <1>4

LEMMA RoundCases ==
  ASSUME TwoCarefulPeers, RoundInv
  PROVE  (StartRound => Begins) /\ (EndEdits => Closes)
<1>1. "prompt" \in Assumed
  BY DEF TwoCarefulPeers, Careful
<1> QED
  BY <1>1 DEF StartRound, EndEdits, Begins, Closes, SameTree, vars, queues, tasks, windowVars

RoundStep ==
  \/ Begins \/ Closes \/ Rests
  \/ \E p \in Peer, f \in File : (\E v \in Content : Writes(p, f, v)) \/ Erases(p, f)
  \/ \E p \in Peer : EngineStep(p)

LEMMA Steps ==
  ASSUME TwoCarefulPeers, RoundInv, [PacedNext]_<<vars, pacedVars>> PROVE RoundStep
<1>1. CASE UNCHANGED <<vars, pacedVars>>
  <2>1. Rests
    BY <1>1 DEF Rests, SameTree, vars, pacedVars, users, queues, tasks
  <2> QED
    BY <2>1 DEF RoundStep
<1>2. CASE PacedNext
  BY <1>2, PacedCases, UserCases, RoundCases, ContentAssumption DEF RoundStep
<1> QED
  BY <1>1, <1>2

LEMMA Domains ==
  ASSUME PacedTypeOK
  PROVE  /\ raw \in [Peer -> Seq(FsEvent)] /\ chan \in [Peer -> Seq(FsEvent)]
         /\ guard \in [Peer -> SUBSET Path] /\ debounce \in [Peer -> SUBSET Path]
         /\ inbox \in [Peer -> SUBSET Delivery] /\ fetches \in [Peer -> SUBSET Fetch]
         /\ unindex \in [Peer -> SUBSET Note]
         /\ disk \in [Peer -> [Path -> Content \cup {None}]]
         /\ meta \in [Peer -> [Path -> Meta \cup {None}]]
         /\ edits \subseteq Edit /\ round \in Nat /\ phase \in {"edit", "sync"}
BY RoundAssumption DEF PacedTypeOK, TypeOK, EventType, WindowType, TaskType, FolderType,
   Folder, IndexType

-----------------------------------------------------------------------------
(* Where events, notifications and tasks come from *)

LEMMA EvPair ==
  \A k1, k2, x1, x2 : Ev(k1, x1) = Ev(k2, x2) <=> k1 = k2 /\ x1 = x2
BY DEF Ev

LEMMA EvTypes ==
  ASSUME NEW kind \in {"changed", "removed"}, NEW x \in Path PROVE Ev(kind, x) \in FsEvent
BY DEF Ev, FsEvent

\* The events the engine of p causes itself.
Raised(p, e) ==
  \/ \E x \in Backup : e = Ev("changed", x)
  \/ \E g \in fetches[p] : e = Ev("changed", g.path) /\ g.path \in guard'[p]
  \/ \E d \in inbox[p] : d.note.kind = "deleted" /\ e = Ev("removed", d.note.path)

LEMMA EventOrigin ==
  ASSUME PacedTypeOK, NEW p \in Peer, EngineStep(p), NEW q \in Peer, NEW e
  PROVE  /\ In(raw'[q], e) => In(raw[q], e) \/ (q = p /\ Raised(p, e))
         /\ In(chan'[q], e) => \/ In(chan[q], e)
                               \/ q = p /\ Moves(p) /\ e = Head(raw[p])
<1> USE Domains DEF users, queues, tasks, windowVars
<1>1. CASE UNCHANGED raw /\ UNCHANGED chan
  BY <1>1
<1>2. ASSUME NEW a \in FsEvent, raw' = [raw EXCEPT ![p] = Append(raw[p], a)], Raised(p, a),
             UNCHANGED chan
      PROVE  /\ In(raw'[q], e) => In(raw[q], e) \/ (q = p /\ Raised(p, e))
             /\ In(chan'[q], e) => In(chan[q], e)
  <2>1. In(Append(raw[p], a), e) => In(raw[p], e) \/ e = a
    BY InAppend
  <2>2. raw'[q] = IF q = p THEN Append(raw[p], a) ELSE raw[q]
    BY <1>2
  <2> QED
    BY <1>2, <2>1, <2>2
<1>3. CASE Drops(p)
  <2>1. In(Tail(raw[p]), e) => In(raw[p], e)
    BY <1>3, InTail DEF Drops
  <2>2. raw'[q] = IF q = p THEN Tail(raw[p]) ELSE raw[q]
    BY <1>3 DEF Drops
  <2> QED
    BY <1>3, <2>1, <2>2 DEF Drops
<1>4. CASE Moves(p)
  <2>1. In(Tail(raw[p]), e) => In(raw[p], e)
    BY <1>4, InTail DEF Moves
  <2>2. Head(raw[p]) \in FsEvent
    BY <1>4, EventShape DEF Moves
  <2>3. In(Append(chan[p], Head(raw[p])), e) => In(chan[p], e) \/ e = Head(raw[p])
    BY <2>2, InAppend
  <2>4. /\ raw'[q] = IF q = p THEN Tail(raw[p]) ELSE raw[q]
        /\ chan'[q] = IF q = p THEN Append(chan[p], Head(raw[p])) ELSE chan[q]
    BY <1>4 DEF Moves
  <2> QED
    BY <1>4, <2>1, <2>3, <2>4
<1>5. CASE chan[p] # <<>> /\ chan' = [chan EXCEPT ![p] = Tail(chan[p])] /\ UNCHANGED raw
  <2>1. In(Tail(chan[p]), e) => In(chan[p], e)
    BY <1>5, InTail
  <2>2. chan'[q] = IF q = p THEN Tail(chan[p]) ELSE chan[q]
    BY <1>5
  <2> QED
    BY <1>5, <2>1, <2>2
<1>6. ASSUME NEW d \in inbox[p], Removes(p, d)
      PROVE  /\ In(raw'[q], e) => In(raw[q], e) \/ (q = p /\ Raised(p, e))
             /\ In(chan'[q], e) => In(chan[q], e)
  <2> DEFINE a == Ev("removed", d.note.path)
  <2>1. a \in FsEvent
    BY Shapes, NoteShape, EvTypes
  <2>2. Raised(p, a)
    BY <1>6 DEF Removes, Raised
  <2>3. raw' = [raw EXCEPT ![p] = Append(raw[p], a)] \/ UNCHANGED raw
    BY <1>6 DEF Removes
  <2>4. UNCHANGED chan
    BY <1>6 DEF Removes
  <2> HIDE DEF a
  <2> QED
    BY <1>1, <1>2, <2>1, <2>2, <2>3, <2>4
<1>7. ASSUME NEW d \in inbox[p], NEW h \in Fetch, FetchesOver(p, d, h)
      PROVE  /\ In(raw'[q], e) => In(raw[q], e) \/ (q = p /\ Raised(p, e))
             /\ In(chan'[q], e) => In(chan[q], e)
  <2> DEFINE b == ConflictName[<<d.note.path, p>>]
             a == Ev("changed", b)
  <2>1. d.note.path \in File
    BY <1>7 DEF FetchesOver, Fetches
  <2>2. b \in Backup /\ b \in Path
    BY <2>1, PathAssumption DEF Path
  <2>3. a \in FsEvent /\ Raised(p, a)
    BY <2>2, EvTypes DEF Raised
  <2>4. raw' = [raw EXCEPT ![p] = Append(raw[p], a)] \/ UNCHANGED raw
    BY <1>7 DEF FetchesOver
  <2>5. UNCHANGED chan
    BY <1>7 DEF FetchesOver, Fetches
  <2> HIDE DEF a
  <2> QED
    BY <1>1, <1>2, <2>3, <2>4, <2>5
<1>8. ASSUME NEW g \in fetches[p], NEW h \in Fetch, Writing(p, g, h)
      PROVE  /\ In(raw'[q], e) => In(raw[q], e) \/ (q = p /\ Raised(p, e))
             /\ In(chan'[q], e) => In(chan[q], e)
  <2> DEFINE a == Ev("changed", g.path)
  <2>1. g.path \in Path
    BY DEF Fetch
  <2>2. g.path \in guard'[p]
    BY <1>8 DEF Writing
  <2>3. a \in FsEvent /\ Raised(p, a)
    BY <2>1, <2>2, EvTypes DEF Raised
  <2>4. raw' = [raw EXCEPT ![p] = Append(raw[p], a)] /\ UNCHANGED chan
    BY <1>8 DEF Writing, Proceeds
  <2> HIDE DEF a
  <2> QED
    BY <1>2, <2>3, <2>4
<1>9. CASE Skips(p) \/ (\E f \in File, note \in Note : Tells(p, f, note))
           \/ (\E x \in Path, note \in Note : TellsRemoval(p, x, note))
  BY <1>5, <1>9 DEF Skips, Tells, TellsRemoval
<1>10. CASE \/ \E m \in gossip, d \in Delivery : Arrives(p, m, d)
            \/ Reconciles(p)
            \/ \E d \in inbox[p] : \/ Refuses(p, d)
                                   \/ \E h \in Fetch : FetchesBeside(p, d, h)
            \/ \E g \in fetches[p] : Ends(p, g) \/ \E h \in Fetch : Loading(p, g, h)
            \/ \E note \in unindex[p] : Forgetting(p, note)
  BY <1>1, <1>10 DEF Arrives, Reconciles, Refuses, FetchesBeside, Fetches, Ends, Loading,
     Proceeds, Forgetting
<1> QED
  BY <1>3, <1>4, <1>6, <1>7, <1>8, <1>9, <1>10 DEF EngineStep

\* What p publishes is about an event it has taken.
LEMMA NoteOfStep ==
  ASSUME PacedTypeOK, NEW p \in Peer, EngineStep(p), NEW m \in gossip'
  PROVE  \/ m \in gossip
         \/ \E f \in File : Tells(p, f, m.note) /\ m.has = {p}
         \/ \E x \in Path : TellsRemoval(p, x, m.note) /\ m.has = {p}
<1> USE DEF users, queues, tasks, windowVars
<1>1. ASSUME NEW f \in File, NEW note \in Note, Tells(p, f, note)
      PROVE  m \in gossip \/ (Tells(p, f, m.note) /\ m.has = {p})
  <2>1. gossip' = gossip \cup {[note |-> note, has |-> {p}]}
    BY <1>1 DEF Tells
  <2>2. m \in gossip \/ (m.note = note /\ m.has = {p})
    BY <2>1
  <2> QED
    BY <1>1, <2>2
<1>2. ASSUME NEW x \in Path, NEW note \in Note, TellsRemoval(p, x, note)
      PROVE  m \in gossip \/ (TellsRemoval(p, x, m.note) /\ m.has = {p})
  <2>1. gossip' = gossip \cup {[note |-> note, has |-> {p}]}
    BY <1>2 DEF TellsRemoval
  <2>2. m \in gossip \/ (m.note = note /\ m.has = {p})
    BY <2>1
  <2> QED
    BY <1>2, <2>2
<1>3. ASSUME gossip' \subseteq gossip
      PROVE  m \in gossip
  BY <1>3
<1> QED
  BY <1>1, <1>2, <1>3 DEF EngineStep, Drops, Moves, Skips, Arrives, Reconciles, Refuses,
     Removes, FetchesBeside, FetchesOver, Fetches, Ends, Loading, Writing, Proceeds, Forgetting

\* What arrives was published.
LEMMA MailOfStep ==
  ASSUME PacedTypeOK, NEW p \in Peer, EngineStep(p), NEW q \in Peer, NEW d \in inbox'[q]
  PROVE  \/ d \in inbox[q]
         \/ \E m \in gossip : Arrives(p, m, d) /\ q = p
<1> USE Domains DEF users, queues, tasks, windowVars
<1>1. ASSUME NEW m \in gossip, NEW w \in Delivery, Arrives(p, m, w)
      PROVE  d \in inbox[q] \/ (Arrives(p, m, d) /\ q = p)
  BY <1>1 DEF Arrives
<1>2. ASSUME inbox' = inbox \/ \E w \in inbox[p] : inbox' = [inbox EXCEPT ![p] = @ \ {w}]
      PROVE  d \in inbox[q]
  BY <1>2
<1> QED
  BY <1>1, <1>2 DEF EngineStep, Drops, Moves, Skips, Tells, TellsRemoval, Reconciles, Refuses,
     Removes, FetchesBeside, FetchesOver, Fetches, Ends, Loading, Writing, Proceeds, Forgetting

\* A fetch goes on, or was started by a notification, or before the first round.
LEMMA FetchOfStep ==
  ASSUME PacedTypeOK, NEW p \in Peer, EngineStep(p), NEW q \in Peer, NEW g \in fetches'[q]
  PROVE  \/ g \in fetches[q]
         \/ \E h \in fetches[q] : g.path = h.path /\ g.clock = h.clock
         \/ \E d \in inbox[p] : Fetches(p, d, g) /\ q = p
         \/ round = 0 /\ g.clock = NewClock
<1> USE Domains DEF users, queues, tasks, windowVars
<1>1. ASSUME NEW d \in inbox[p], NEW h \in Fetch, Fetches(p, d, h)
      PROVE  g \in fetches[q] \/ (Fetches(p, d, g) /\ q = p)
  BY <1>1 DEF Fetches
<1>2. ASSUME NEW f \in fetches[p], NEW h \in Fetch, Proceeds(p, f, h)
      PROVE  g \in fetches[q] \/ \E k \in fetches[q] : g.path = k.path /\ g.clock = k.clock
  BY <1>2 DEF Proceeds
<1>3. CASE Reconciles(p)
  BY <1>3 DEF Reconciles
<1>4. ASSUME fetches' = fetches \/ \E w \in fetches[p] : fetches' = [fetches EXCEPT ![p] = @ \ {w}]
      PROVE  g \in fetches[q]
  BY <1>4
<1>5. CASE \E d \in inbox[p], h \in Fetch : FetchesBeside(p, d, h) \/ FetchesOver(p, d, h)
  BY <1>1, <1>5 DEF FetchesBeside, FetchesOver
<1>6. CASE \E f \in fetches[p], h \in Fetch : Loading(p, f, h) \/ Writing(p, f, h)
  BY <1>2, <1>6 DEF Loading, Writing
<1> QED
  BY <1>3, <1>4, <1>5, <1>6 DEF EngineStep, Drops, Moves, Skips, Tells, TellsRemoval, Arrives,
     Refuses, Removes, Ends, Forgetting

LEMMA UnindexOfStep ==
  ASSUME PacedTypeOK, NEW p \in Peer, EngineStep(p), NEW q \in Peer, NEW note \in unindex'[q]
  PROVE  \/ note \in unindex[q]
         \/ \E d \in inbox[p] : Removes(p, d) /\ note = d.note /\ q = p
<1> USE Domains DEF users, queues, tasks, windowVars
<1>1. ASSUME NEW d \in inbox[p], Removes(p, d)
      PROVE  note \in unindex[q] \/ (note = d.note /\ q = p)
  BY <1>1 DEF Removes
<1>2. ASSUME NEW w \in unindex[p], Forgetting(p, w)
      PROVE  note \in unindex[q]
  BY <1>2 DEF Forgetting
<1> QED
  BY <1>1, <1>2 DEF EngineStep, Drops, Moves, Skips, Tells, TellsRemoval, Arrives, Reconciles,
     Refuses, FetchesBeside, FetchesOver, Fetches, Ends, Loading, Writing, Proceeds

LEMMA SameUsers ==
  ASSUME NEW p \in Peer, EngineStep(p) PROVE UNCHANGED <<round, phase, edits, status>>
BY DEF users, EngineStep, Drops, Moves, Skips, Tells, TellsRemoval, Arrives, Reconciles, Refuses,
   Removes, FetchesBeside, FetchesOver, Fetches, Ends, Loading, Writing, Proceeds, Forgetting

-----------------------------------------------------------------------------
(* The invariant is kept, part by part *)

\* While users work, engines look at events only.
LEMMA EditSteps ==
  ASSUME NEW p \in Peer, EngineStep(p), phase = "edit"
  PROVE  \/ Moves(p) \/ Skips(p)
         \/ \E f \in File, note \in Note : Tells(p, f, note)
         \/ \E x \in Path, note \in Note : TellsRemoval(p, x, note)
BY DEF EngineStep, Drops, Arrives, Reconciles, Refuses,
   Removes, FetchesBeside, FetchesOver, Fetches, Ends, Loading, Writing, Proceeds, Forgetting

LEMMA NoReconcile ==
  ASSUME NEW p \in Peer, EngineStep(p), round # 0
  PROVE  UNCHANGED <<met, recon>>
<1>1. ~Reconciles(p)
  BY DEF Reconciles
<1>2. ASSUME Drops(p) \/ Moves(p) \/ Skips(p)
             \/ (\E f \in File, note \in Note : Tells(p, f, note))
             \/ (\E x \in Path, note \in Note : TellsRemoval(p, x, note))
      PROVE  UNCHANGED <<met, recon>>
  BY <1>2 DEF users, tasks, Drops, Moves, Skips, Tells, TellsRemoval
<1>3. ASSUME NEW d, \/ \E m : Arrives(p, m, d)
                     \/ Refuses(p, d) \/ Removes(p, d)
                     \/ \E h : FetchesBeside(p, d, h) \/ FetchesOver(p, d, h)
      PROVE  UNCHANGED <<met, recon>>
  BY <1>3 DEF users, Arrives, Refuses, Removes, FetchesBeside, FetchesOver, Fetches
<1>4. ASSUME NEW g, Ends(p, g) \/ (\E h : Loading(p, g, h) \/ Writing(p, g, h)) \/ Forgetting(p, g)
      PROVE  UNCHANGED <<met, recon>>
  BY <1>4 DEF users, Ends, Loading, Writing, Proceeds, Forgetting
<1> QED
  BY <1>1, <1>2, <1>3, <1>4 DEF EngineStep

LEMMA KeepsGroup ==
  ASSUME RoundInv, RoundStep PROVE AllUp'
BY SameUsers DEF RoundInv, AllUp, RoundStep, Begins, Closes, Rests, users, Writes, Erases, Edits

LEMMA KeepsOneEdit ==
  ASSUME RoundInv, RoundStep PROVE OneEdit'
<1>0. OneEdit
  BY DEF RoundInv
<1>1. CASE Begins
  BY <1>1 DEF Begins, OneEdit
<1>2. ASSUME NEW p \in Peer, NEW f \in File, NEW v \in Content, Writes(p, f, v)
      PROVE  OneEdit'
  BY <1>0, <1>2, ContentAssumption DEF Writes, Edits, OneEdit
<1>3. ASSUME NEW p \in Peer, NEW f \in File, Erases(p, f)
      PROVE  OneEdit'
  BY <1>0, <1>3 DEF Erases, Edits, OneEdit
<1>4. CASE UNCHANGED edits
  BY <1>0, <1>4 DEF OneEdit
<1> QED
  BY <1>1, <1>2, <1>3, <1>4, SameUsers DEF RoundStep, Closes, Rests, users

LEMMA KeepsBegun ==
  ASSUME RoundInv, RoundStep PROVE Begun'
<1>0. Begun /\ round \in Nat
  BY Domains DEF RoundInv
<1>1. CASE Begins
  BY <1>0, <1>1 DEF Begins, Begun, Quiet, Acquainted, Running, tasks
<1>2. CASE Closes \/ Rests
  BY <1>0, <1>2 DEF Closes, Rests, Begun, Acquainted, Running, tasks, users
<1>3. ASSUME NEW p \in Peer, NEW f \in File, NEW kind, NEW c, Edits(p, f, kind, c)
      PROVE  Begun'
  BY <1>0, <1>3 DEF Edits, Begun, Acquainted, Running, tasks
<1>4. ASSUME NEW p \in Peer, EngineStep(p)
      PROVE  Begun'
  <2>1. UNCHANGED <<round, phase, edits, status>>
    BY <1>4, SameUsers
  <2>2. round > 0 => UNCHANGED <<met, recon>>
    BY <1>0, <1>4, NoReconcile
  <2> QED
    BY <1>0, <2>1, <2>2 DEF Begun, Acquainted, Running
<1> QED
  BY <1>1, <1>2, <1>3, <1>4 DEF RoundStep, Writes, Erases

LEMMA KeepsWorking ==
  ASSUME RoundInv, RoundStep PROVE Working'
<1>0. Working
  BY DEF RoundInv
<1>1. CASE Begins
  BY <1>1 DEF Begins, Working, Quiet, tasks, windowVars
<1>2. CASE Closes
  BY <1>2 DEF Closes, Working
<1>3. CASE Rests
  BY <1>0, <1>3 DEF Rests, Working, tasks, users
<1>4. ASSUME NEW p \in Peer, NEW f \in File, NEW kind, NEW c, Edits(p, f, kind, c)
      PROVE  Working'
  BY <1>0, <1>4 DEF Edits, Working, tasks, windowVars
<1>5. ASSUME NEW p \in Peer, EngineStep(p)
      PROVE  Working'
  <2>1. UNCHANGED phase
    BY <1>5, SameUsers
  <2>2. phase = "edit" => UNCHANGED tasks /\ \A q \in Peer : guard'[q] \subseteq guard[q]
    BY <1>5, EditSteps DEF Moves, Skips, Tells, TellsRemoval, windowVars
  <2> QED
    BY <1>0, <2>1, <2>2 DEF Working, tasks
<1> QED
  BY <1>1, <1>2, <1>3, <1>4, <1>5 DEF RoundStep, Writes, Erases

LEMMA KeepsAuthors ==
  ASSUME RoundInv, RoundStep PROVE Authors'
<1>0. Authors /\ PacedTypeOK
  BY DEF RoundInv
<1>1. ASSUME UNCHANGED <<gossip, inbox>>
      PROVE  Authors'
  BY <1>0, <1>1 DEF Authors
<1>2. ASSUME NEW p \in Peer, EngineStep(p)
      PROVE  Authors'
  <2>1. ASSUME NEW m \in gossip'
        PROVE  m.note.peer \in m.has
    BY <1>0, <1>2, NoteOfStep DEF Authors, Tells, TellsRemoval
  <2>2. ASSUME NEW q \in Peer, NEW d \in inbox'[q]
        PROVE  d.note.peer # q
    BY <1>0, <1>2, MailOfStep DEF Authors, Arrives
  <2> QED
    BY <2>1, <2>2 DEF Authors
<1> QED
  BY <1>1, <1>2 DEF RoundStep, Begins, Closes, Rests, Writes, Erases, Edits, tasks

\* What an edit does to the queues.
LEMMA EditEvents ==
  ASSUME PacedTypeOK, NEW p \in Peer, NEW f \in File, NEW kind \in {"changed", "removed"},
         NEW c, Edits(p, f, kind, c), NEW q \in Peer, NEW k, NEW x
  PROVE  Waits(q, k, x)' <=> Waits(q, k, x) \/ (q = p /\ k = kind /\ x = f)
<1>1. Ev(kind, f) \in FsEvent
  BY EvTypes DEF Path
<1>2. In(Append(raw[p], Ev(kind, f)), Ev(k, x)) <=> In(raw[p], Ev(k, x)) \/ Ev(k, x) = Ev(kind, f)
  BY <1>1, Domains, InAppend
<1>3. raw'[q] = IF q = p THEN Append(raw[p], Ev(kind, f)) ELSE raw[q]
  BY Domains DEF Edits
<1>4. UNCHANGED chan
  BY DEF Edits
<1> QED
  BY <1>2, <1>3, <1>4, EvPair DEF Waits

LEMMA EditedFiles ==
  ASSUME NEW p \in Peer, NEW f \in File, NEW kind, NEW c, Edits(p, f, kind, c)
  PROVE  /\ \A x : Gone(x) => Gone(x)'
         /\ \A q, x : Wrote(q, x) => Wrote(q, x)'
         /\ \A q, x : Wrote(q, x)' => Wrote(q, x) \/ (q = p /\ x = f)
         /\ c = None => Gone(f)'
         /\ c # None => Wrote(p, f)'
<1> DEFINE e == [peer |-> p, file |-> f, left |-> c]
<1>1. edits' = edits \cup {e}
  BY DEF Edits
<1>2. e.peer = p /\ e.file = f /\ e.left = c
  OBVIOUS
<1> HIDE DEF e
<1>3. \A x : Gone(x) => Gone(x)'
  BY <1>1 DEF Gone
<1>4. \A q, x : Wrote(q, x) => Wrote(q, x)'
  BY <1>1 DEF Wrote
<1>5. \A q, x : Wrote(q, x)' => Wrote(q, x) \/ (q = p /\ x = f)
  BY <1>1, <1>2 DEF Wrote
<1>6. (c = None => Gone(f)') /\ (c # None => Wrote(p, f)')
  BY <1>1, <1>2 DEF Gone, Wrote
<1> QED
  BY <1>3, <1>4, <1>5, <1>6

LEMMA SameFiles ==
  ASSUME UNCHANGED edits
  PROVE  /\ \A x : Gone(x)' <=> Gone(x)
         /\ \A q, x : Wrote(q, x)' <=> Wrote(q, x)
BY DEF Gone, Wrote

LEMMA KeepsNoRemovals ==
  ASSUME RoundInv, RoundStep PROVE NoRemovals'
<1>0. NoRemovals /\ PacedTypeOK
  BY DEF RoundInv
<1>1. CASE Begins
  BY <1>1, EmptyQueue DEF Begins, Quiet, Drained, NoRemovals, Waits, queues, tasks
<1>2. CASE Closes \/ Rests
  BY <1>0, <1>2 DEF Closes, Rests, NoRemovals, Waits, Gone, queues, tasks, users
<1>3. ASSUME NEW p \in Peer, NEW f \in File, NEW kind \in {"changed", "removed"}, NEW c,
             Edits(p, f, kind, c), kind = "removed" => c = None
      PROVE  NoRemovals'
  <2> SUFFICES ASSUME NEW x \in Path, ~Gone(x)'
               PROVE  /\ \A m \in gossip' : ~About(m.note, "deleted", x)
                      /\ \A q \in Peer :
                           /\ ~Waits(q, "removed", x)'
                           /\ \A d \in inbox'[q] : ~About(d.note, "deleted", x)
                           /\ \A note \in unindex'[q] : note.path # x
    BY DEF NoRemovals
  <2>1. ~Gone(x) /\ (kind = "removed" => x # f)
    BY <1>3, EditedFiles
  <2>2. \A q \in Peer : ~Waits(q, "removed", x)'
    BY <1>0, <1>3, <2>1, EditEvents DEF NoRemovals
  <2> QED
    BY <1>0, <1>3, <2>1, <2>2 DEF NoRemovals, Edits, tasks
<1>4. ASSUME NEW p \in Peer, EngineStep(p)
      PROVE  NoRemovals'
  <2> SUFFICES ASSUME NEW x \in Path, ~Gone(x)'
               PROVE  /\ \A m \in gossip' : ~About(m.note, "deleted", x)
                      /\ \A q \in Peer :
                           /\ ~Waits(q, "removed", x)'
                           /\ \A d \in inbox'[q] : ~About(d.note, "deleted", x)
                           /\ \A note \in unindex'[q] : note.path # x
    BY DEF NoRemovals
  <2>1. ~Gone(x)
    BY <1>4, SameUsers, SameFiles
  <2>2. ASSUME NEW m \in gossip', About(m.note, "deleted", x)
        PROVE  FALSE
    <3>1. m \in gossip \/ TellsRemoval(p, x, m.note)
      BY <1>0, <1>4, <2>2, NoteOfStep DEF About, Tells, TellsRemoval
    <3>2. TellsRemoval(p, x, m.note) => Waits(p, "removed", x)
      BY <1>0, Domains, EventShape DEF TellsRemoval, Waits
    <3> QED
      BY <1>0, <2>1, <2>2, <3>1, <3>2 DEF NoRemovals
  <2>3. ASSUME NEW q \in Peer, Waits(q, "removed", x)'
        PROVE  FALSE
    <3> DEFINE e == Ev("removed", x)
    <3>1. In(raw'[q], e) \/ In(chan'[q], e)
      BY <2>3 DEF Waits
    <3>2. ~Raised(p, e)
      BY <1>0, <2>1, EvPair DEF Raised, NoRemovals, About
    <3>3. ~Waits(q, "removed", x) /\ ~Waits(p, "removed", x)
      BY <1>0, <2>1 DEF NoRemovals
    <3>4. Moves(p) => In(raw[p], Head(raw[p]))
      BY <1>0, Domains, EventShape DEF Moves
    <3> QED
      BY <1>0, <1>4, <3>1, <3>2, <3>3, <3>4, EventOrigin DEF Waits
  <2>4. ASSUME NEW q \in Peer, NEW d \in inbox'[q], About(d.note, "deleted", x)
        PROVE  FALSE
    <3>1. d \in inbox[q] \/ \E m \in gossip : d.note = m.note
      BY <1>0, <1>4, MailOfStep DEF Arrives
    <3> QED
      BY <1>0, <2>1, <2>4, <3>1 DEF NoRemovals
  <2>5. ASSUME NEW q \in Peer, NEW note \in unindex'[q], note.path = x
        PROVE  FALSE
    <3>1. note \in unindex[q] \/ \E d \in inbox[p] : About(d.note, "deleted", x)
      BY <1>0, <1>4, <2>5, UnindexOfStep DEF Removes, About
    <3> QED
      BY <1>0, <2>1, <2>5, <3>1 DEF NoRemovals
  <2> QED
    BY <2>2, <2>3, <2>4, <2>5
<1> QED
  BY <1>1, <1>2, <1>3, <1>4 DEF RoundStep, Writes, Erases

LEMMA CopiesAreBackups ==
  ASSUME NEW f \in File, NEW x \in Copies(f)
  PROVE  x \in Backup /\ x \in Path /\ x \notin File
BY PathAssumption DEF Copies, Path

LEMMA KeepsNoChanges ==
  ASSUME RoundInv, RoundStep PROVE NoChanges'
<1>0. NoChanges /\ PacedTypeOK
  BY DEF RoundInv
<1>1. CASE Begins
  BY <1>1, EmptyQueue DEF Begins, Quiet, Drained, NoChanges, Waits, queues, tasks
<1>2. CASE Closes \/ Rests
  BY <1>0, <1>2 DEF Closes, Rests, NoChanges, Waits, Wrote, queues, tasks, users
<1>3. ASSUME NEW p \in Peer, NEW f \in File, NEW kind \in {"changed", "removed"}, NEW c,
             Edits(p, f, kind, c), kind = "changed" => c # None
      PROVE  NoChanges'
  <2> SUFFICES ASSUME NEW x \in File, \A q \in Peer : ~Wrote(q, x)', round' > 0
               PROVE  /\ \A m \in gossip' : ~About(m.note, "changed", x)
                      /\ \A q \in Peer :
                           /\ ~Waits(q, "changed", x)'
                           /\ \A d \in inbox'[q] : ~About(d.note, "changed", x)
                           /\ \A g \in fetches'[q] : g.path # x
    BY DEF NoChanges
  <2>1. (\A q \in Peer : ~Wrote(q, x)) /\ (kind = "changed" => x # f)
    BY <1>3, EditedFiles
  <2>2. round > 0 /\ UNCHANGED <<gossip, inbox, fetches>>
    BY <1>3 DEF Edits, tasks
  <2>3. \A q \in Peer : ~Waits(q, "changed", x)'
    BY <1>0, <1>3, <2>1, <2>2, EditEvents DEF NoChanges
  <2> QED
    BY <1>0, <2>1, <2>2, <2>3 DEF NoChanges
<1>4. ASSUME NEW p \in Peer, EngineStep(p)
      PROVE  NoChanges'
  <2> SUFFICES ASSUME NEW x \in File, \A q \in Peer : ~Wrote(q, x)', round' > 0
               PROVE  /\ \A m \in gossip' : ~About(m.note, "changed", x)
                      /\ \A q \in Peer :
                           /\ ~Waits(q, "changed", x)'
                           /\ \A d \in inbox'[q] : ~About(d.note, "changed", x)
                           /\ \A g \in fetches'[q] : g.path # x
    BY DEF NoChanges
  <2>1. round > 0 /\ \A q \in Peer : ~Wrote(q, x)
    BY <1>4, SameUsers, SameFiles
  <2>2. ASSUME NEW m \in gossip', About(m.note, "changed", x)
        PROVE  FALSE
    <3>1. m \in gossip \/ Tells(p, x, m.note)
      BY <1>0, <1>4, <2>2, NoteOfStep DEF About, Tells, TellsRemoval
    <3>2. Tells(p, x, m.note) => Waits(p, "changed", x)
      BY <1>0, Domains, EventShape DEF Tells, Waits
    <3> QED
      BY <1>0, <2>1, <2>2, <3>1, <3>2 DEF NoChanges
  <2>3. ASSUME NEW q \in Peer, Waits(q, "changed", x)'
        PROVE  FALSE
    <3> DEFINE e == Ev("changed", x)
    <3>1. In(raw'[q], e) \/ In(chan'[q], e)
      BY <2>3 DEF Waits
    <3>2. ~Raised(p, e)
      BY <1>0, <2>1, EvPair, PathAssumption DEF Raised, NoChanges
    <3>3. ~Waits(q, "changed", x) /\ ~Waits(p, "changed", x)
      BY <1>0, <2>1 DEF NoChanges
    <3>4. Moves(p) => In(raw[p], Head(raw[p]))
      BY <1>0, Domains, EventShape DEF Moves
    <3> QED
      BY <1>0, <1>4, <3>1, <3>2, <3>3, <3>4, EventOrigin DEF Waits
  <2>4. ASSUME NEW q \in Peer, NEW d \in inbox'[q], About(d.note, "changed", x)
        PROVE  FALSE
    <3>1. d \in inbox[q] \/ \E m \in gossip : d.note = m.note
      BY <1>0, <1>4, MailOfStep DEF Arrives
    <3> QED
      BY <1>0, <2>1, <2>4, <3>1 DEF NoChanges
  <2>5. ASSUME NEW q \in Peer, NEW g \in fetches'[q], g.path = x
        PROVE  FALSE
    <3>1. \/ \E h \in fetches[q] : h.path = x
          \/ \E d \in inbox[p] : Fetches(p, d, g)
      BY <1>0, <1>4, <2>1, <2>5, FetchOfStep
    <3>2. ASSUME NEW d \in inbox[p], Fetches(p, d, g)
          PROVE  About(d.note, "changed", x)
      BY <2>5, <3>2, CopiesAreBackups DEF Fetches, About
    <3> QED
      BY <1>0, <2>1, <3>1, <3>2 DEF NoChanges
  <2> QED
    BY <2>2, <2>3, <2>4, <2>5
<1>5. CASE \E p \in Peer, f \in File, v \in Content : Writes(p, f, v)
  BY <1>3, <1>5, ContentAssumption DEF Writes
<1>6. CASE \E p \in Peer, f \in File : Erases(p, f)
  BY <1>3, <1>6 DEF Erases
<1> QED
  BY <1>1, <1>2, <1>4, <1>5, <1>6 DEF RoundStep

LEMMA GuardKept ==
  ASSUME PacedTypeOK, NEW p \in Peer, EngineStep(p), NEW q \in Peer
  PROVE  guard[q] \cap File \subseteq guard'[q]
<1>1. CASE UNCHANGED guard
  BY <1>1
<1>2. CASE Skips(p)
  BY <1>2 DEF Skips
<1>3. ASSUME NEW d, NEW h, FetchesBeside(p, d, h) \/ FetchesOver(p, d, h)
      PROVE  guard[q] \subseteq guard'[q]
  BY <1>3 DEF FetchesBeside, FetchesOver, Fetches
<1>4. ASSUME NEW g, NEW h, Writing(p, g, h)
      PROVE  guard[q] \subseteq guard'[q]
  BY <1>4, Domains DEF Writing
<1>5. ASSUME \/ Drops(p) \/ Moves(p) \/ Reconciles(p)
             \/ \E f \in File, note \in Note : Tells(p, f, note)
             \/ \E x \in Path, note \in Note : TellsRemoval(p, x, note)
             \/ \E m \in gossip, d \in Delivery : Arrives(p, m, d)
             \/ \E d \in inbox[p] : Refuses(p, d) \/ Removes(p, d)
             \/ \E g \in fetches[p] : Ends(p, g) \/ \E h \in Fetch : Loading(p, g, h)
             \/ \E note \in unindex[p] : Forgetting(p, note)
      PROVE  UNCHANGED guard
  BY <1>5 DEF windowVars, Drops, Moves, Tells, TellsRemoval, Arrives, Reconciles, Refuses,
     Removes, Ends, Loading, Forgetting
<1> QED
  BY <1>1, <1>2, <1>3, <1>4, <1>5 DEF EngineStep

LEMMA KeepsEchoes ==
  ASSUME RoundInv, RoundStep PROVE Echoes'
<1>0. Echoes /\ PacedTypeOK
  BY DEF RoundInv
<1>1. CASE Begins \/ \E p \in Peer, f \in File : \E kind, c : Edits(p, f, kind, c)
  BY <1>1 DEF Begins, Edits, Echoes
<1>2. CASE Closes
  BY <1>2, EmptyQueue DEF Closes, Drained, Echoes, queues
<1>3. CASE Rests
  BY <1>0, <1>3, EmptyQueue DEF Rests, Drained, Echoes, queues, users
<1>4. ASSUME NEW p \in Peer, EngineStep(p)
      PROVE  Echoes'
  <2> SUFFICES ASSUME NEW q \in Peer, NEW f \in File, phase' = "sync"
               PROVE  /\ In(raw'[q], Ev("changed", f)) => f \in guard'[q]
                      /\ ~In(chan'[q], Ev("changed", f))
    BY DEF Echoes
  <2> DEFINE e == Ev("changed", f)
  <2>1. phase = "sync"
    BY <1>4, SameUsers
  <2>2. ASSUME In(raw'[q], e)
        PROVE  f \in guard'[q]
    <3>1. In(raw[q], e) => f \in guard'[q]
      BY <1>0, <1>4, <2>1, GuardKept DEF Echoes
    <3>2. Raised(p, e) => f \in guard'[p]
      BY EvPair, PathAssumption DEF Raised
    <3> QED
      BY <1>0, <1>4, <2>2, <3>1, <3>2, EventOrigin
  <2>3. ASSUME In(chan'[q], e)
        PROVE  FALSE
    <3>1. q = p /\ Moves(p) /\ e = Head(raw[p])
      BY <1>0, <1>4, <2>1, <2>3, EventOrigin DEF Echoes
    <3>2. In(raw[p], e) /\ e.path = f
      BY <1>0, <3>1, Domains, EventShape DEF Moves, Ev
    <3> QED
      BY <1>0, <2>1, <3>1, <3>2 DEF Echoes, Moves
  <2> QED
    BY <2>2, <2>3
<1> QED
  BY <1>1, <1>2, <1>3, <1>4 DEF RoundStep, Writes, Erases

\* The clock of a file that nobody removed is ticked by an edit of its peer, or
\* merged with that of what was fetched.
LEMMA ClockOfStep ==
  ASSUME RoundInv, NEW p \in Peer, EngineStep(p), NEW q \in Peer, NEW f \in File, ~Gone(f)
  PROVE  \/ LocalClock(q, f)' = LocalClock(q, f)
         \/ /\ q = p /\ (\E note \in Note : Tells(p, f, note))
            /\ LocalClock(p, f)' = Tick(LocalClock(p, f), p)
         \/ /\ q = p /\ phase = "sync"
            /\ \E g \in fetches[p] : /\ g.path = f
                                     /\ LocalClock(p, f)' = Merge(LocalClock(p, f), g.clock)
<1>0. /\ PacedTypeOK /\ NoRemovals /\ f \in Path
      /\ meta \in [Peer -> [Path -> Meta \cup {None}]]
  BY Domains DEF RoundInv, Path
<1>1. CASE meta'[q][f] = meta[q][f]
  BY <1>1 DEF LocalClock
<1>2. ASSUME NEW x \in File, NEW note \in Note, Tells(p, x, note), meta'[q][f] # meta[q][f]
      PROVE  q = p /\ x = f /\ LocalClock(p, f)' = Tick(LocalClock(p, f), p)
  <2>1. meta' = [meta EXCEPT ![p][x] = [clock |-> note.clock, ts |-> note.ts]]
    BY <1>2 DEF Tells
  <2>2. q = p /\ x = f /\ meta'[p][f] = [clock |-> note.clock, ts |-> note.ts]
    BY <1>0, <1>2, <2>1
  <2>3. note.clock = Tick(LocalClock(p, f), p)
    BY <1>2, <2>2 DEF Tells
  <2>4. [clock |-> note.clock, ts |-> note.ts] \in Meta
    BY DEF Note, Meta
  <2> QED
    BY <2>2, <2>3, <2>4, NoneAssumption DEF LocalClock
<1>3. ASSUME NEW x \in Path, NEW note \in Note, TellsRemoval(p, x, note)
      PROVE  meta'[q][f] = meta[q][f]
  <2>1. Waits(p, "removed", x)
    BY <1>0, <1>3, Domains, EventShape DEF TellsRemoval, Waits
  <2>2. x # f
    BY <1>0, <2>1 DEF NoRemovals
  <2> QED
    BY <1>0, <1>3, <2>2 DEF TellsRemoval
<1>4. ASSUME NEW note \in unindex[p], Forgetting(p, note)
      PROVE  meta'[q][f] = meta[q][f]
  <2>1. note.path # f /\ note.path \in Path
    BY <1>0, Shapes, NoteShape DEF NoRemovals
  <2> QED
    BY <1>0, <1>4, <2>1 DEF Forgetting
<1>5. ASSUME NEW g \in fetches[p], Ends(p, g), meta'[q][f] # meta[q][f]
      PROVE  /\ q = p /\ g.path = f /\ phase = "sync"
             /\ LocalClock(p, f)' = Merge(LocalClock(p, f), g.clock)
  <2>1. meta' = [meta EXCEPT ![p][g.path] = Applied(p, g)] /\ phase = "sync"
    BY <1>5 DEF Ends
  <2>2. g \in Fetch /\ g.path \in Path
    BY <1>0, Shapes DEF Fetch
  <2>3. q = p /\ g.path = f /\ meta'[p][f] = Applied(p, g)
    BY <1>0, <1>5, <2>1, <2>2
  <2>4. Applied(p, g) \in Meta
    BY <1>0, <2>2, Shapes, ClockTypes DEF Applied, Meta, Fetch
  <2> QED
    BY <2>1, <2>3, <2>4, NoneAssumption DEF LocalClock, Applied
<1>6. CASE UNCHANGED meta
  BY <1>1, <1>6
<1>7. CASE \E x \in File, note \in Note : Tells(p, x, note)
  BY <1>1, <1>2, <1>7
<1>8. CASE \E g \in fetches[p] : Ends(p, g)
  BY <1>1, <1>5, <1>8
<1> QED
  BY <1>1, <1>3, <1>4, <1>6, <1>7, <1>8 DEF EngineStep, Drops, Moves, Skips, Arrives,
     Reconciles, Refuses, Removes, FetchesBeside, FetchesOver, Fetches, Loading, Writing, Proceeds

LEMMA CountTypes ==
  ASSUME PacedTypeOK, NEW f \in File, NEW p \in Peer PROVE Count(p, f) \in Nat
BY Shapes DEF Count, VectorClock, Path

\* No count goes down, and only an announcement makes one go up.
LEMMA CountsGrow ==
  ASSUME RoundInv, NEW p \in Peer, EngineStep(p), NEW q \in Peer, NEW f \in File, ~Gone(f)
  PROVE  /\ Count(q, f)' \in Nat /\ Count(q, f) <= Count(q, f)'
         /\ \/ Count(q, f)' = Count(q, f)
            \/ q = p /\ (\E note \in Note : Tells(p, f, note))
         /\ (\E note \in Note : Tells(p, f, note)) => Count(p, f)' = Count(p, f) + 1
<1>0. /\ PacedTypeOK /\ Own /\ f \in Path /\ LocalClock(q, f) \in VectorClock
      /\ LocalClock(p, f) \in VectorClock
  BY Shapes DEF RoundInv, Path
<1>1. CASE LocalClock(q, f)' = LocalClock(q, f) /\ ~\E note \in Note : Tells(p, f, note)
  BY <1>0, <1>1 DEF Count, VectorClock
<1>2. ASSUME LocalClock(p, f)' = Tick(LocalClock(p, f), p)
      PROVE  Count(p, f)' = Count(p, f) + 1
  BY <1>0, <1>2 DEF Count, Tick, VectorClock
<1>3. ASSUME NEW note \in Note, Tells(p, f, note)
      PROVE  LocalClock(p, f)' = Tick(LocalClock(p, f), p) /\ (q # p => LocalClock(q, f)' = LocalClock(q, f))
  <2>1. meta' = [meta EXCEPT ![p][f] = [clock |-> note.clock, ts |-> note.ts]]
    BY <1>3 DEF Tells
  <2>2. /\ meta'[p][f] = [clock |-> note.clock, ts |-> note.ts]
        /\ q # p => meta'[q] = meta[q]
    BY <1>0, <2>1, Domains
  <2>3. [clock |-> note.clock, ts |-> note.ts] \in Meta
    BY DEF Note, Meta
  <2>4. note.clock = Tick(LocalClock(p, f), p)
    BY <1>3 DEF Tells
  <2> QED
    BY <2>2, <2>3, <2>4, NoneAssumption DEF LocalClock
<1>4. CASE \E note \in Note : Tells(p, f, note)
  <2>1. Count(p, f)' = Count(p, f) + 1
    BY <1>2, <1>3, <1>4
  <2>2. q # p => Count(q, f)' = Count(q, f)
    BY <1>3, <1>4 DEF Count
  <2> QED
    BY <1>0, <1>4, <2>1, <2>2, CountTypes
<1>5. ASSUME q = p, NEW g \in fetches[p], g.path = f,
             LocalClock(p, f)' = Merge(LocalClock(p, f), g.clock)
      PROVE  Count(p, f)' = Count(p, f)
  <2>1. g.clock \in VectorClock
    BY <1>0, Shapes DEF Fetch
  <2>2. g.clock[p] <= LocalClock(p, f)[p]
    BY <1>0, <1>5 DEF Own, Bounded, Count
  <2> QED
    BY <1>0, <1>5, <2>1, <2>2 DEF Count, Merge, Max2, VectorClock
<1>6. CASE \E g \in fetches[p] : /\ q = p /\ g.path = f
                                 /\ LocalClock(p, f)' = Merge(LocalClock(p, f), g.clock)
                                 /\ ~\E note \in Note : Tells(p, f, note)
  BY <1>0, <1>5, <1>6, CountTypes
<1> QED
  BY <1>1, <1>4, <1>6, ClockOfStep

LEMMA BoundKept ==
  ASSUME RoundInv, NEW p \in Peer, EngineStep(p), NEW f \in File, ~Gone(f),
         NEW c \in VectorClock, Bounded(c, f)
  PROVE  Bounded(c, f)'
<1>1. ASSUME NEW q \in Peer
      PROVE  c[q] <= Count(q, f)'
  <2>1. Count(q, f)' \in Nat /\ Count(q, f) <= Count(q, f)' /\ Count(q, f) \in Nat
    BY CountsGrow, CountTypes DEF RoundInv
  <2>2. c[q] \in Nat /\ c[q] <= Count(q, f)
    BY DEF Bounded, VectorClock
  <2> HIDE DEF Count
  <2> QED
    BY <2>1, <2>2
<1> QED
  BY <1>1 DEF Bounded

\* A clock that an index holds after the step is bounded by what its peers count then.
LEMMA ClocksStayBounded ==
  ASSUME RoundInv, NEW p \in Peer, EngineStep(p), NEW q \in Peer, NEW f \in File, ~Gone(f)
  PROVE  Bounded(LocalClock(q, f), f)'
<1>0. PacedTypeOK /\ Own /\ f \in Path
  BY DEF RoundInv, Path
<1>1. LocalClock(q, f) \in VectorClock /\ Bounded(LocalClock(q, f), f)
  BY <1>0, Shapes DEF Own
<1>2. CASE LocalClock(q, f)' = LocalClock(q, f)
  <2>1. \A c \in VectorClock : Bounded(c, f) => Bounded(c, f)'
    BY BoundKept
  <2>2. \A r \in Peer : LocalClock(q, f)[r] <= Count(r, f)'
    BY <1>1, <2>1 DEF Bounded
  <2> QED
    BY <1>2, <2>2 DEF Bounded
<1>3. ASSUME q = p, NEW note \in Note, Tells(p, f, note),
             LocalClock(p, f)' = Tick(LocalClock(p, f), p), NEW r \in Peer
      PROVE  LocalClock(q, f)'[r] <= Count(r, f)'
  <2>1. CASE r = p
    <3>1. LocalClock(q, f)'[r] = Count(r, f)' /\ Count(r, f)' \in Nat
      BY <1>3, <2>1, CountsGrow DEF Count
    <3> HIDE DEF Count
    <3> QED
      BY <3>1
  <2>2. CASE r # p
    <3>1. LocalClock(q, f)'[r] = LocalClock(q, f)[r] /\ LocalClock(q, f)[r] \in Nat
      BY <1>1, <1>3, <2>2 DEF Tick, VectorClock
    <3>2. Count(r, f) \in Nat /\ Count(r, f)' \in Nat /\ Count(r, f) <= Count(r, f)'
      BY <1>0, CountsGrow, CountTypes
    <3>3. LocalClock(q, f)[r] <= Count(r, f)
      BY <1>1 DEF Bounded
    <3> QED
      BY <3>1, <3>2, <3>3
  <2> QED
    BY <2>1, <2>2
<1>4. ASSUME q = p, NEW g \in fetches[p], g.path = f,
             LocalClock(p, f)' = Merge(LocalClock(p, f), g.clock), NEW r \in Peer
      PROVE  LocalClock(q, f)'[r] <= Count(r, f)'
  <2>1. g.clock \in VectorClock /\ Bounded(g.clock, f)
    BY <1>0, <1>4, Shapes DEF Own, Fetch
  <2>2. Count(r, f) \in Nat /\ Count(r, f)' \in Nat /\ Count(r, f) <= Count(r, f)'
    BY <1>0, CountsGrow, CountTypes
  <2>3. /\ LocalClock(q, f)[r] \in Nat /\ LocalClock(q, f)[r] <= Count(r, f)
        /\ g.clock[r] \in Nat /\ g.clock[r] <= Count(r, f)
    BY <1>1, <2>1 DEF Bounded, VectorClock
  <2>4. LocalClock(q, f)'[r] \in {LocalClock(q, f)[r], g.clock[r]}
    BY <1>1, <1>4, <2>1 DEF Merge, Max2
  <2> QED
    BY <2>2, <2>3, <2>4
<1>5. CASE ~(LocalClock(q, f)' = LocalClock(q, f))
  <2>1. \A r \in Peer : LocalClock(q, f)'[r] <= Count(r, f)'
    BY <1>3, <1>4, <1>5, ClockOfStep
  <2> QED
    BY <2>1 DEF Bounded
<1> QED
  BY <1>2, <1>5

LEMMA KeepsOwn ==
  ASSUME RoundInv, RoundStep PROVE Own'
<1>0. Own /\ PacedTypeOK /\ NoRemovals
  BY DEF RoundInv
<1>1. CASE Begins
  <2> SUFFICES ASSUME NEW f \in File
               PROVE  /\ \A m \in gossip' : FALSE
                      /\ \A p \in Peer : /\ Bounded(LocalClock(p, f), f)'
                                         /\ inbox'[p] = {} /\ fetches'[p] = {}
    BY DEF Own
  <2>1. /\ gossip' = {} /\ UNCHANGED meta
        /\ \A p \in Peer : inbox'[p] = {} /\ fetches'[p] = {}
    BY <1>1 DEF Begins, Quiet, tasks
  <2>2. CASE ~Gone(f)
    <3>1. \A p \in Peer : Bounded(LocalClock(p, f), f)
      BY <1>0, <2>2 DEF Own
    <3> QED
      BY <2>1, <3>1 DEF Bounded, Count, LocalClock
  <2>3. CASE Gone(f)
    <3>1. PICK e \in edits : e.file = f /\ e.left = None
      BY <2>3 DEF Gone
    <3>2. /\ phase = "sync" /\ gossip = {}
          /\ \A p \in Peer : inbox[p] = {} /\ unindex[p] = {}
      BY <1>1 DEF Begins, Quiet
    <3>3. \A p \in Peer : meta[p][f] = None
      BY <3>1, <3>2 DEF RoundInv, Forgets, Comes
    <3>4. \A p \in Peer : LocalClock(p, f)' = NewClock
      BY <2>1, <3>3 DEF LocalClock
    <3>5. \A p, q \in Peer : LocalClock(p, f)'[q] = 0
      BY <3>4 DEF NewClock
    <3> QED
      BY <2>1, <3>5 DEF Bounded, Count
  <2> QED
    BY <2>1, <2>2, <2>3
<1>2. CASE Closes \/ Rests
  BY <1>0, <1>2 DEF Closes, Rests, Own, Gone, Bounded, Count, LocalClock, tasks, users
<1>3. ASSUME NEW p \in Peer, NEW f \in File, NEW kind, NEW c, Edits(p, f, kind, c)
      PROVE  Own'
  <2>1. UNCHANGED <<meta, gossip, inbox, fetches>>
    BY <1>3 DEF Edits, tasks
  <2>2. \A x : Gone(x) => Gone(x)'
    BY <1>3, EditedFiles
  <2> QED
    BY <1>0, <2>1, <2>2 DEF Own, Bounded, Count, LocalClock
<1>4. ASSUME NEW p \in Peer, EngineStep(p)
      PROVE  Own'
  <2> SUFFICES ASSUME NEW f \in File, ~Gone(f)'
               PROVE  /\ \A m \in gossip' : m.note.path = f => Bounded(m.note.clock, f)'
                      /\ \A q \in Peer :
                           /\ Bounded(LocalClock(q, f), f)'
                           /\ \A d \in inbox'[q] : d.note.path = f => Bounded(d.note.clock, f)'
                           /\ \A g \in fetches'[q] : g.path = f => Bounded(g.clock, f)'
    BY DEF Own, Bounded
  <2>1. ~Gone(f) /\ f \in Path
    BY <1>4, SameUsers, SameFiles DEF Path
  <2>2. \A q \in Peer : Bounded(LocalClock(q, f), f)'
    BY <1>4, <2>1, ClocksStayBounded
  <2>3. \A c \in VectorClock : Bounded(c, f) => Bounded(c, f)'
    BY <1>4, <2>1, BoundKept
  <2>4. ASSUME NEW m \in gossip', m.note.path = f
        PROVE  Bounded(m.note.clock, f)'
    <3>1. CASE m \in gossip
      <4>1. m.note.clock \in VectorClock /\ Bounded(m.note.clock, f)
        BY <1>0, <2>1, <2>4, <3>1, Shapes, NoteShape DEF Own
      <4> QED
        BY <2>3, <4>1
    <3>2. CASE \E x \in File : Tells(p, x, m.note)
      <4>1. Tells(p, f, m.note) /\ m.note \in Note
        BY <2>4, <3>2 DEF Tells, About
      <4>2. LocalClock(p, f)' = m.note.clock
        <5>1. meta'[p][f] = [clock |-> m.note.clock, ts |-> m.note.ts]
          BY <1>0, <2>1, <4>1, Domains DEF Tells
        <5>2. [clock |-> m.note.clock, ts |-> m.note.ts] \in Meta
          BY <4>1 DEF Note, Meta
        <5> QED
          BY <5>1, <5>2, NoneAssumption DEF LocalClock
      <4>3. Bounded(LocalClock(p, f), f)'
        BY <2>2
      <4> QED
        BY <4>2, <4>3 DEF Bounded
    <3>3. CASE \E x \in Path : TellsRemoval(p, x, m.note)
      <4>1. TellsRemoval(p, f, m.note)
        BY <2>4, <3>3 DEF TellsRemoval, About
      <4>2. Waits(p, "removed", f)
        BY <1>0, <4>1, Domains, EventShape DEF TellsRemoval, Waits
      <4> QED
        BY <1>0, <2>1, <4>2 DEF NoRemovals
    <3> QED
      BY <1>0, <1>4, <3>1, <3>2, <3>3, NoteOfStep
  <2>5. ASSUME NEW q \in Peer, NEW d \in inbox'[q], d.note.path = f
        PROVE  Bounded(d.note.clock, f)'
    <3>1. \/ d \in inbox[q]
          \/ \E m \in gossip : d.note = m.note
      BY <1>0, <1>4, MailOfStep DEF Arrives
    <3>2. d.note.clock \in VectorClock /\ Bounded(d.note.clock, f)
      BY <1>0, <2>1, <2>5, <3>1, Shapes, NoteShape DEF Own
    <3> QED
      BY <2>3, <3>2
  <2>6. ASSUME NEW q \in Peer, NEW g \in fetches'[q], g.path = f
        PROVE  Bounded(g.clock, f)'
    <3>1. CASE \E h \in fetches[q] : g.path = h.path /\ g.clock = h.clock
      <4>1. g.clock \in VectorClock /\ Bounded(g.clock, f)
        BY <1>0, <2>1, <2>6, <3>1, Shapes DEF Own, Fetch
      <4> QED
        BY <2>3, <4>1
    <3>2. ASSUME NEW d \in inbox[p], Fetches(p, d, g)
          PROVE  Bounded(g.clock, f)'
      <4>1. d.note.path = f /\ g.clock = d.note.clock
        BY <2>6, <3>2, CopiesAreBackups DEF Fetches
      <4>2. g.clock \in VectorClock /\ Bounded(g.clock, f)
        BY <1>0, <2>1, <4>1, Shapes, NoteShape DEF Own
      <4> QED
        BY <2>3, <4>2
    <3>3. CASE g.clock = NewClock
      <4>1. \A r \in Peer : Count(r, f)' \in Nat
        BY <1>4, <2>1, CountsGrow
      <4>2. \A r \in Peer : g.clock[r] = 0
        BY <3>3 DEF NewClock
      <4> QED
        BY <4>1, <4>2 DEF Bounded
    <3> QED
      BY <1>0, <1>4, <3>1, <3>2, <3>3, FetchOfStep
  <2> QED
    BY <2>2, <2>4, <2>5, <2>6
<1> QED
  BY <1>1, <1>2, <1>3, <1>4 DEF RoundStep, Writes, Erases

\* While users work an event waits until the engine takes it.
LEMMA EventStays ==
  ASSUME PacedTypeOK, phase = "edit", NEW p \in Peer, EngineStep(p), NEW q \in Peer,
         NEW kind, NEW x, Waits(q, kind, x)
  PROVE  \/ Waits(q, kind, x)'
         \/ q = p /\ kind = "changed" /\ \/ x \notin File
                                         \/ \E note \in Note : Tells(p, x, note)
         \/ q = p /\ kind = "removed" /\ \E note \in Note : TellsRemoval(p, x, note)
<1> DEFINE e == Ev(kind, x)
<1> USE Domains
<1>1. CASE Moves(p)
  <2>1. Head(raw[p]) \in FsEvent /\ raw[p] # <<>>
    BY <1>1, EventShape DEF Moves
  <2>2. In(raw[p], e) <=> e = Head(raw[p]) \/ In(Tail(raw[p]), e)
    BY <2>1, InTail
  <2>3. In(Append(chan[p], Head(raw[p])), e) <=> In(chan[p], e) \/ e = Head(raw[p])
    BY <2>1, InAppend
  <2>4. /\ raw'[q] = IF q = p THEN Tail(raw[p]) ELSE raw[q]
        /\ chan'[q] = IF q = p THEN Append(chan[p], Head(raw[p])) ELSE chan[q]
    BY <1>1 DEF Moves
  <2> QED
    BY <2>2, <2>3, <2>4 DEF Waits
<1>2. ASSUME chan[p] # <<>>, chan' = [chan EXCEPT ![p] = Tail(chan[p])], UNCHANGED raw
      PROVE  Waits(q, kind, x)' \/ (q = p /\ e = Head(chan[p]))
  <2>1. In(chan[p], e) <=> e = Head(chan[p]) \/ In(Tail(chan[p]), e)
    BY <1>2, InTail
  <2>2. chan'[q] = IF q = p THEN Tail(chan[p]) ELSE chan[q]
    BY <1>2
  <2> QED
    BY <1>2, <2>1, <2>2 DEF Waits
<1>3. CASE Skips(p)
  <2>1. Waits(q, kind, x)' \/ (q = p /\ e = Head(chan[p]))
    BY <1>2, <1>3 DEF Skips
  <2>2. Head(chan[p]).kind = "changed" /\ Head(chan[p]).path \notin File
    BY <1>3 DEF Skips
  <2>3. e.kind = kind /\ e.path = x
    BY DEF Ev
  <2> QED
    BY <2>1, <2>2, <2>3
<1>4. ASSUME NEW f \in File, NEW note \in Note, Tells(p, f, note)
      PROVE  \/ Waits(q, kind, x)'
             \/ q = p /\ kind = "changed" /\ Tells(p, x, note)
  <2>1. Waits(q, kind, x)' \/ (q = p /\ e = Head(chan[p]))
    BY <1>2, <1>4 DEF Tells
  <2>2. Head(chan[p]) = Ev("changed", f)
    BY <1>4 DEF Tells
  <2> QED
    BY <1>4, <2>1, <2>2, EvPair
<1>5. ASSUME NEW f \in Path, NEW note \in Note, TellsRemoval(p, f, note)
      PROVE  \/ Waits(q, kind, x)'
             \/ q = p /\ kind = "removed" /\ TellsRemoval(p, x, note)
  <2>1. Waits(q, kind, x)' \/ (q = p /\ e = Head(chan[p]))
    BY <1>2, <1>5 DEF TellsRemoval
  <2>2. Head(chan[p]) = Ev("removed", f)
    BY <1>5 DEF TellsRemoval
  <2> QED
    BY <1>5, <2>1, <2>2, EvPair
<1> QED
  BY <1>1, <1>3, <1>4, <1>5, EditSteps

\* What a step leaves of the events an engine has still to take, as users work.
LEMMA EventGoes ==
  ASSUME PacedTypeOK, phase = "edit", NEW p \in Peer, EngineStep(p), NEW q \in Peer,
         NEW kind, NEW x, Waits(q, kind, x)'
  PROVE  Waits(q, kind, x)
<1> DEFINE e == Ev(kind, x)
<1> USE Domains
<1>1. CASE Moves(p)
  <2>1. Head(raw[p]) \in FsEvent /\ raw[p] # <<>>
    BY <1>1, EventShape DEF Moves
  <2>2. In(raw[p], e) <=> e = Head(raw[p]) \/ In(Tail(raw[p]), e)
    BY <2>1, InTail
  <2>3. In(Append(chan[p], Head(raw[p])), e) <=> In(chan[p], e) \/ e = Head(raw[p])
    BY <2>1, InAppend
  <2>4. /\ raw'[q] = IF q = p THEN Tail(raw[p]) ELSE raw[q]
        /\ chan'[q] = IF q = p THEN Append(chan[p], Head(raw[p])) ELSE chan[q]
    BY <1>1 DEF Moves
  <2> QED
    BY <2>2, <2>3, <2>4 DEF Waits
<1>2. CASE chan[p] # <<>> /\ chan' = [chan EXCEPT ![p] = Tail(chan[p])] /\ UNCHANGED raw
  <2>1. In(chan[p], e) <=> e = Head(chan[p]) \/ In(Tail(chan[p]), e)
    BY <1>2, InTail
  <2>2. chan'[q] = IF q = p THEN Tail(chan[p]) ELSE chan[q]
    BY <1>2
  <2> QED
    BY <1>2, <2>1, <2>2 DEF Waits
<1> QED
  BY <1>1, <1>2, EditSteps DEF Skips, Tells, TellsRemoval

\* One event stays one, and is gone when the engine has announced it.
LEMMA OneEventStays ==
  ASSUME PacedTypeOK, phase = "edit", NEW p \in Peer, EngineStep(p), NEW q \in Peer, NEW x,
         OneEvent(q, x)
  PROVE  /\ OneEvent(q, x)'
         /\ (\E note \in Note : Tells(p, x, note)) /\ q = p => ~Waits(p, "changed", x)'
<1> DEFINE e == Ev("changed", x)
<1> USE Domains
<1>0. /\ ~(In(raw[q], e) /\ In(chan[q], e))
      /\ Once(raw[q], e) /\ Once(chan[q], e)
  BY DEF OneEvent
<1>1. CASE Moves(p)
  <2>1. Head(raw[p]) \in FsEvent /\ raw[p] # <<>>
    BY <1>1, EventShape DEF Moves
  <2>2. /\ In(raw[p], e) <=> e = Head(raw[p]) \/ In(Tail(raw[p]), e)
        /\ Once(raw[p], Head(raw[p])) => ~In(Tail(raw[p]), Head(raw[p]))
        /\ Once(raw[p], e) => Once(Tail(raw[p]), e)
    BY <2>1, InTail, OnceKept
  <2>3. /\ In(Append(chan[p], Head(raw[p])), e) <=> In(chan[p], e) \/ e = Head(raw[p])
        /\ ~In(chan[p], e) \/ (Head(raw[p]) # e /\ Once(chan[p], e))
             => Once(Append(chan[p], Head(raw[p])), e)
    BY <2>1, InAppend, OnceKept
  <2>4. /\ raw'[q] = IF q = p THEN Tail(raw[p]) ELSE raw[q]
        /\ chan'[q] = IF q = p THEN Append(chan[p], Head(raw[p])) ELSE chan[q]
    BY <1>1 DEF Moves
  <2>5. OneEvent(q, x)'
    BY <1>0, <2>2, <2>3, <2>4 DEF OneEvent
  <2>6. ~\E note \in Note : Tells(p, x, note)
    <3>1. chan'[p] = Append(chan[p], Head(raw[p]))
      BY <1>1 DEF Moves
    <3>2. Len(chan'[p]) = Len(chan[p]) + 1
      BY <2>1, <3>1
    <3>3. (\E note \in Note : Tells(p, x, note)) => chan'[p] = Tail(chan[p]) /\ chan[p] # <<>>
      BY DEF Tells
    <3>4. chan[p] # <<>> => Len(Tail(chan[p])) = Len(chan[p]) - 1
      OBVIOUS
    <3> QED
      BY <3>2, <3>3, <3>4
  <2> QED
    BY <2>5, <2>6
<1>2. CASE chan[p] # <<>> /\ chan' = [chan EXCEPT ![p] = Tail(chan[p])] /\ UNCHANGED raw
  <2>1. /\ In(chan[p], e) <=> e = Head(chan[p]) \/ In(Tail(chan[p]), e)
        /\ Once(chan[p], Head(chan[p])) => ~In(Tail(chan[p]), Head(chan[p]))
        /\ Once(chan[p], e) => Once(Tail(chan[p]), e)
    BY <1>2, InTail, OnceKept
  <2>2. chan'[q] = IF q = p THEN Tail(chan[p]) ELSE chan[q]
    BY <1>2
  <2>3. OneEvent(q, x)'
    BY <1>0, <1>2, <2>1, <2>2 DEF OneEvent
  <2>4. ASSUME NEW note \in Note, Tells(p, x, note), q = p
        PROVE  ~Waits(p, "changed", x)'
    <3>1. e = Head(chan[p])
      BY <2>4 DEF Tells
    <3> QED
      BY <1>0, <1>2, <2>1, <2>2, <2>4, <3>1 DEF Waits
  <2> QED
    BY <2>3, <2>4
<1> QED
  BY <1>1, <1>2, EditSteps DEF Skips, Tells, TellsRemoval

LEMMA KeepsToldOnce ==
  ASSUME RoundInv, RoundStep PROVE ToldOnce'
<1>0. ToldOnce /\ PacedTypeOK
  BY DEF RoundInv
<1>1. CASE Begins
  <2>1. /\ \A q \in Peer : raw'[q] = <<>> /\ chan'[q] = <<>> /\ debounce'[q] = {}
        /\ gossip' = {}
    BY <1>1 DEF Begins, Quiet, Drained, queues, windowVars
  <2>2. \A q \in Peer, f \in File : ~Waits(q, "changed", f)' /\ Silent(q, f)'
    BY <2>1, EmptyQueue DEF Waits, Silent
  <2> QED
    BY <2>2 DEF ToldOnce
<1>2. CASE Closes
  BY <1>2 DEF Closes, ToldOnce
<1>3. CASE Rests
  <2>1. /\ UNCHANGED <<phase, edits, raw, chan, gossip>>
        /\ \A q \in Peer : debounce'[q] \subseteq debounce[q]
    BY <1>3 DEF Rests, users, queues
  <2>2. \A q \in Peer, f \in File : Silent(q, f) => Silent(q, f)'
    BY <2>1 DEF Silent
  <2> QED
    BY <1>0, <2>1, <2>2 DEF ToldOnce, Waits, Wrote, OneEvent
<1>4. ASSUME NEW p \in Peer, NEW f \in File, NEW kind \in {"changed", "removed"}, NEW c,
             Edits(p, f, kind, c), kind = "changed" => c # None
      PROVE  ToldOnce'
  <2> SUFFICES ASSUME NEW q \in Peer, NEW x \in File
               PROVE  /\ ~Wrote(q, x)' => ~Waits(q, "changed", x)' /\ Silent(q, x)'
                      /\ Waits(q, "changed", x)' => OneEvent(q, x)' /\ Silent(q, x)'
    BY DEF ToldOnce
  <2> DEFINE e == Ev("changed", x)
             a == Ev(kind, f)
  <2>1. /\ ~Wrote(q, x) => ~Waits(q, "changed", x) /\ Silent(q, x)
        /\ Waits(q, "changed", x) => OneEvent(q, x) /\ Silent(q, x)
    BY <1>0, <1>4 DEF ToldOnce, Edits
  <2>2. Silent(q, x) => Silent(q, x)'
    BY <1>4 DEF Edits, Silent, windowVars
  <2>3. ~Wrote(p, f)
    BY <1>4 DEF Edits, Wrote
  <2>4. Waits(q, "changed", x)' <=> Waits(q, "changed", x) \/ (q = p /\ kind = "changed" /\ x = f)
    BY <1>0, <1>4, EditEvents
  <2>5. ~Wrote(q, x)' => ~Wrote(q, x) /\ ~(q = p /\ kind = "changed" /\ x = f)
    BY <1>4, EditedFiles
  <2>6. OneEvent(q, x)' \/ ~Waits(q, "changed", x)'
    <3>1. /\ raw[p] \in Seq(FsEvent) /\ a \in FsEvent
          /\ raw'[q] = IF q = p THEN Append(raw[p], a) ELSE raw[q]
          /\ UNCHANGED chan
      BY <1>0, <1>4, Domains, EvTypes DEF Edits, Path
    <3>2. /\ In(Append(raw[p], a), e) <=> In(raw[p], e) \/ e = a
          /\ ~In(raw[p], e) \/ (a # e /\ Once(raw[p], e)) => Once(Append(raw[p], a), e)
      BY <3>1, InAppend, OnceKept
    <3>3. e = a <=> kind = "changed" /\ x = f
      BY EvPair
    <3>4. ASSUME ~Waits(q, "changed", x)
          PROVE  Once(raw[q], e) /\ Once(chan[q], e)
      BY <1>0, <3>4, Domains, OnceKept DEF Waits
    <3> HIDE DEF a, e
    <3>5. CASE q = p /\ e = a
      <4>1. ~Waits(q, "changed", x)
        BY <2>1, <2>3, <3>3, <3>5
      <4>2. ~In(raw[q], e) /\ ~In(chan[q], e) /\ Once(chan[q], e)
        BY <3>4, <4>1 DEF Waits, e
      <4>3. Once(raw'[q], e)
        BY <3>1, <3>2, <3>5, <4>2
      <4> QED
        BY <3>1, <4>2, <4>3 DEF OneEvent, e
    <3>6. CASE ~(q = p /\ e = a) /\ Waits(q, "changed", x)
      <4>1. OneEvent(q, x)
        BY <2>1, <3>6
      <4>2. ~(In(raw[q], e) /\ In(chan[q], e)) /\ Once(raw[q], e) /\ Once(chan[q], e)
        BY <4>1 DEF OneEvent, e
      <4>3. (In(raw'[q], e) <=> In(raw[q], e)) /\ Once(raw'[q], e)
        BY <3>1, <3>2, <3>6, <4>2
      <4> QED
        BY <3>1, <4>2, <4>3 DEF OneEvent, e
    <3> QED
      BY <2>4, <3>3, <3>5, <3>6
  <2> QED
    BY <2>1, <2>2, <2>3, <2>4, <2>5, <2>6
<1>5. ASSUME NEW p \in Peer, EngineStep(p)
      PROVE  ToldOnce'
  <2> SUFFICES ASSUME phase = "edit", NEW q \in Peer, NEW x \in File
               PROVE  /\ ~Wrote(q, x)' => ~Waits(q, "changed", x)' /\ Silent(q, x)'
                      /\ Waits(q, "changed", x)' => OneEvent(q, x)' /\ Silent(q, x)'
    BY <1>5, SameUsers DEF ToldOnce
  <2>1. /\ ~Wrote(q, x) => ~Waits(q, "changed", x) /\ Silent(q, x)
        /\ Waits(q, "changed", x) => OneEvent(q, x) /\ Silent(q, x)
    BY <1>0 DEF ToldOnce
  <2>2. ~Wrote(q, x)' => ~Wrote(q, x)
    BY <1>5, SameUsers, SameFiles
  <2>3. Waits(q, "changed", x)' => Waits(q, "changed", x)
    BY <1>0, <1>5, EventGoes
  <2>4. OneEvent(q, x) => OneEvent(q, x)'
    BY <1>0, <1>5, OneEventStays
  <2>5. (\E note \in Note : Tells(p, x, note)) /\ q = p =>
           Waits(q, "changed", x) /\ ~Waits(q, "changed", x)'
    <3>1. (\E note \in Note : Tells(p, x, note)) => Waits(p, "changed", x)
      BY <1>0, Domains, EventShape DEF Tells, Waits
    <3> QED
      BY <1>0, <1>5, <2>1, <3>1, OneEventStays
  <2>6. ASSUME Silent(q, x)
        PROVE  Silent(q, x)' \/ (q = p /\ \E note \in Note : Tells(p, x, note))
    <3>1. x \notin debounce'[q] \/ (q = p /\ \E note \in Note : Tells(p, x, note))
      <4>1. ASSUME NEW f \in File, NEW note \in Note, Tells(p, f, note)
            PROVE  x \notin debounce'[q] \/ (q = p /\ x = f)
        BY <1>0, <2>6, <4>1, Domains DEF Tells, Silent
      <4>2. CASE Skips(p)
        BY <2>6, <4>2 DEF Skips, Silent
      <4>3. CASE UNCHANGED debounce
        BY <2>6, <4>3 DEF Silent
      <4> QED
        BY <1>5, <4>1, <4>2, <4>3, EditSteps DEF Moves, TellsRemoval, windowVars
    <3>2. ASSUME NEW m \in gossip', m.note.peer = q, About(m.note, "changed", x)
          PROVE  q = p /\ \E note \in Note : Tells(p, x, note)
      <4>1. m \notin gossip
        BY <2>6, <3>2 DEF Silent
      <4>2. ASSUME NEW f \in File, Tells(p, f, m.note)
            PROVE  f = x /\ q = p /\ m.note \in Note
        BY <3>2, <4>2 DEF Tells, About
      <4>3. ~\E f \in Path : TellsRemoval(p, f, m.note)
        BY <3>2 DEF TellsRemoval, About
      <4> QED
        BY <1>0, <1>5, <4>1, <4>2, <4>3, NoteOfStep
    <3> QED
      BY <3>1, <3>2 DEF Silent
  <2> QED
    BY <2>1, <2>2, <2>3, <2>4, <2>5, <2>6
<1>6. CASE \E p \in Peer, f \in File, v \in Content : Writes(p, f, v)
  BY <1>4, <1>6, ContentAssumption DEF Writes
<1>7. CASE \E p \in Peer, f \in File : Erases(p, f)
  BY <1>4, <1>7 DEF Erases
<1> QED
  BY <1>1, <1>2, <1>3, <1>5, <1>6, <1>7 DEF RoundStep

LEMMA WrittenStays ==
  ASSUME OneEdit, NEW p \in Peer, NEW f, Wrote(p, f) PROVE ~Gone(f)
BY DEF OneEdit, Wrote, Gone

LEMMA KeepsAhead ==
  ASSUME RoundInv, RoundStep PROVE Ahead'
<1>0. Ahead /\ PacedTypeOK /\ NoRemovals /\ OneEdit /\ Working /\ Authors /\ Own
  BY DEF RoundInv
<1>1. CASE Begins
  BY <1>1 DEF Begins, Ahead, Wrote
<1>2. CASE Closes
  <2>1. \A p \in Peer, f \in File : ~Waits(p, "changed", f)
    BY <1>2, EmptyQueue DEF Closes, Drained, Waits
  <2> QED
    BY <1>0, <1>2, <2>1 DEF Closes, Ahead, Wrote, Count, LocalClock, tasks
<1>3. CASE Rests
  BY <1>0, <1>3 DEF Rests, Ahead, Wrote, Waits, Count, LocalClock, users, queues, tasks
<1>4. ASSUME NEW p \in Peer, NEW f \in File, NEW kind \in {"changed", "removed"}, NEW c,
             Edits(p, f, kind, c), kind = "removed" => c = None
      PROVE  Ahead'
  <2>1. ASSUME NEW q \in Peer, NEW x \in File, Wrote(q, x)', ~Waits(q, "changed", x)'
        PROVE  Wrote(q, x) /\ ~Waits(q, "changed", x)
    <3>1. ~Waits(q, "changed", x) /\ ~(q = p /\ kind = "changed" /\ x = f)
      BY <1>0, <1>4, <2>1, EditEvents
    <3>2. kind = "removed" => (Wrote(q, x)' => Wrote(q, x))
      BY <1>4 DEF Edits, Wrote
    <3> QED
      BY <1>4, <2>1, <3>1, <3>2, EditedFiles
  <2>2. phase' = "edit" /\ phase = "edit" /\ UNCHANGED <<meta, gossip, inbox>>
    BY <1>4 DEF Edits, tasks
  <2> QED
    BY <1>0, <2>1, <2>2 DEF Ahead, Count, LocalClock
<1>5. ASSUME NEW r \in Peer, EngineStep(r)
      PROVE  Ahead'
  <2> SUFFICES ASSUME NEW p \in Peer, NEW f \in File, Wrote(p, f)',
                      phase = "edit" => ~Waits(p, "changed", f)'
               PROVE  /\ \A m \in gossip' : m.note.path = f /\ m.note.peer # p =>
                                              m.note.clock[p] < Count(p, f)'
                      /\ \A d \in inbox'[p] : d.note.path = f => d.note.clock[p] < Count(p, f)'
                      /\ phase = "edit" =>
                           \A q \in Peer : q # p => LocalClock(q, f)'[p] < Count(p, f)'
    BY <1>5, SameUsers DEF Ahead
  <2>0. Wrote(p, f) /\ ~Gone(f) /\ f \in Path
    BY <1>0, <1>5, SameUsers, SameFiles, WrittenStays DEF Path
  <2>1. \A q \in Peer : LocalClock(q, f) \in VectorClock
    BY <1>0, <2>0, Shapes
  <2>2. /\ Count(p, f) \in Nat /\ Count(p, f)' \in Nat
        /\ \/ Count(p, f)' = Count(p, f)
           \/ p = r /\ (\E note \in Note : Tells(p, f, note))
    BY <1>0, <1>5, <2>0, CountTypes, CountsGrow
  <2>3. ASSUME NEW m \in gossip', m \notin gossip, m.note.path = f
        PROVE  Tells(r, f, m.note) /\ m.note.peer = r
    <3>1. \/ \E x \in File : Tells(r, x, m.note)
          \/ \E x \in Path : TellsRemoval(r, x, m.note)
      BY <1>0, <1>5, <2>3, NoteOfStep
    <3>2. ~TellsRemoval(r, f, m.note)
      <4>1. TellsRemoval(r, f, m.note) => Waits(r, "removed", f)
        BY <1>0, Domains, EventShape DEF TellsRemoval, Waits
      <4> QED
        BY <1>0, <2>0, <4>1 DEF NoRemovals
    <3>3. \A x \in Path : TellsRemoval(r, x, m.note) => x = f
      BY <2>3 DEF TellsRemoval, About
    <3> QED
      BY <2>3, <3>1, <3>2, <3>3 DEF Tells, About
  <2>4. ASSUME NEW d \in inbox'[p], d.note.path = f
        PROVE  phase = "sync" /\ \/ d \in inbox[p]
                                 \/ \E m \in gossip : m.note = d.note /\ m.note.peer # p
    <3>1. d \in inbox[p] \/ \E m \in gossip : Arrives(r, m, d) /\ p = r
      BY <1>0, <1>5, <2>4, MailOfStep
    <3>2. d \in inbox[p] => phase = "sync"
      BY <1>0 DEF Working, PacedTypeOK
    <3> QED
      BY <1>0, <3>1, <3>2 DEF Arrives, Authors
  <2>5. CASE p = r /\ \E note \in Note : Tells(p, f, note)
    <3>1. Count(p, f)' = Count(p, f) + 1 /\ phase = "edit"
      BY <1>5, <2>0, <2>5, CountsGrow DEF Tells
    <3>2. \A n \in Nat : n <= Count(p, f) => n < Count(p, f)'
      <4> HIDE DEF Count
      <4> QED
        BY <2>2, <3>1
    <3>3. ASSUME NEW m \in gossip', m.note.path = f, m.note.peer # p
          PROVE  m.note.clock[p] < Count(p, f)'
      <4>1. m \in gossip
        BY <2>3, <2>5, <3>3
      <4>2. m.note.clock[p] <= Count(p, f) /\ m.note.clock[p] \in Nat
        BY <1>0, <2>0, <3>3, <4>1, Shapes, NoteShape DEF Own, Bounded, VectorClock
      <4> QED
        BY <3>2, <4>2
    <3>4. ASSUME NEW q \in Peer, q # p
          PROVE  LocalClock(q, f)'[p] < Count(p, f)'
      <4>1. LocalClock(q, f)' = LocalClock(q, f)
        BY <1>5, <2>0, <2>5, <3>4, ClockOfStep
      <4>2. LocalClock(q, f)[p] <= Count(p, f) /\ LocalClock(q, f)[p] \in Nat
        BY <1>0, <2>0, <2>1 DEF Own, Bounded, VectorClock
      <4> QED
        BY <3>2, <4>1, <4>2
    <3> QED
      BY <2>4, <3>1, <3>3, <3>4
  <2>6. CASE ~(p = r /\ \E note \in Note : Tells(p, f, note))
    <3>1. Count(p, f)' = Count(p, f)
      BY <2>2, <2>6
    <3>2. phase = "edit" => ~Waits(p, "changed", f)
      BY <1>0, <1>5, <2>6, EventStays
    <3>3. /\ \A m \in gossip : m.note.path = f /\ m.note.peer # p =>
                                  m.note.clock[p] < Count(p, f)
          /\ \A d \in inbox[p] : d.note.path = f => d.note.clock[p] < Count(p, f)
          /\ phase = "edit" =>
                \A q \in Peer : q # p => LocalClock(q, f)[p] < Count(p, f)
      BY <1>0, <2>0, <3>2 DEF Ahead
    <3>4. ASSUME NEW m \in gossip', m.note.path = f, m.note.peer # p
          PROVE  m.note.clock[p] < Count(p, f)
      <4>1. CASE m \notin gossip
        <5>1. Tells(r, f, m.note) /\ r # p
          BY <2>3, <3>4, <4>1
        <5>2. m.note.clock = Tick(LocalClock(r, f), r) /\ phase = "edit"
          BY <5>1 DEF Tells
        <5>3. m.note.clock[p] = LocalClock(r, f)[p]
          BY <2>1, <5>1, <5>2 DEF Tick, VectorClock
        <5> QED
          BY <3>3, <5>1, <5>2, <5>3
      <4> QED
        BY <3>3, <3>4, <4>1
    <3>5. ASSUME NEW d \in inbox'[p], d.note.path = f
          PROVE  d.note.clock[p] < Count(p, f)
      BY <2>4, <3>3, <3>5
    <3>6. ASSUME phase = "edit", NEW q \in Peer, q # p
          PROVE  LocalClock(q, f)'[p] < Count(p, f)
      <4>1. \/ LocalClock(q, f)' = LocalClock(q, f)
            \/ q = r /\ LocalClock(q, f)' = Tick(LocalClock(q, f), q)
        BY <1>5, <2>0, <3>6, ClockOfStep
      <4>2. LocalClock(q, f)'[p] = LocalClock(q, f)[p]
        BY <2>1, <3>6, <4>1 DEF Tick, VectorClock
      <4> QED
        BY <3>3, <3>6, <4>2
    <3> QED
      BY <3>1, <3>4, <3>5, <3>6
  <2> QED
    BY <2>5, <2>6
<1>6. CASE \E p \in Peer, f \in File, v \in Content : Writes(p, f, v)
  BY <1>4, <1>6 DEF Writes
<1>7. CASE \E p \in Peer, f \in File : Erases(p, f)
  BY <1>4, <1>7 DEF Erases
<1> QED
  BY <1>1, <1>2, <1>3, <1>5, <1>6, <1>7 DEF RoundStep

\* At most one of these is there, in one place.
Alone(N, M, L) ==
  /\ AtMostOne(N) /\ AtMostOne(M) /\ AtMostOne(L)
  /\ N # {} => M = {} /\ L = {}
  /\ M # {} => L = {}

LEMMA FewerAlone ==
  ASSUME NEW N, NEW M, NEW L, Alone(N, M, L),
         NEW n \in SUBSET N, NEW m \in SUBSET M, NEW l \in SUBSET L
  PROVE  Alone(n, m, l)
BY DEF Alone, AtMostOne

LEMMA LoadsApart ==
  ASSUME CopiesApart, NEW f \in File, NEW g \in File,
         NEW x \in {f} \cup Copies(f), x \in {g} \cup Copies(g)
  PROVE  f = g
<1>1. ASSUME x \in Copies(f), x \in Copies(g)
      PROVE  f = g
  BY <1>1 DEF Copies, CopiesApart
<1> QED
  BY <1>1, CopiesAreBackups

LEMMA KeepsOneNews ==
  ASSUME TwoCarefulPeers, RoundInv, RoundStep PROVE OneNews'
<1>0. /\ OneNews /\ PacedTypeOK /\ Working /\ Authors /\ ToldOnce
      /\ TwoPeers /\ CopiesApart
  BY DEF RoundInv, TwoCarefulPeers
<1>1. SUFFICES ASSUME round' > 0, NEW p \in Peer, NEW f \in File
               PROVE  Alone(News(p, f)', Mail(p, f)', Loads(p, f)')
  BY DEF OneNews, Alone
<1>2. CASE Begins
  BY <1>2 DEF Begins, Quiet, News, Mail, Loads, Alone, AtMostOne, tasks
<1>3. CASE ~Begins
  <2>1. round' = round
    BY <1>3, SameUsers DEF RoundStep, Closes, Rests, users, Writes, Erases, Edits
  <2>2. Alone(News(p, f), Mail(p, f), Loads(p, f))
    BY <1>0, <1>1, <2>1 DEF OneNews, Alone
  <2>3. ASSUME UNCHANGED <<gossip, inbox, fetches>>
        PROVE  Alone(News(p, f)', Mail(p, f)', Loads(p, f)')
    BY <2>2, <2>3 DEF News, Mail, Loads
  <2>4. ASSUME NEW r \in Peer, EngineStep(r)
        PROVE  Alone(News(p, f)', Mail(p, f)', Loads(p, f)')
    <3> USE Domains, <1>0 DEF users, queues, tasks, windowVars
    <3>1. ASSUME NEW x \in File, NEW note \in Note, Tells(r, x, note)
          PROVE  Alone(News(p, f)', Mail(p, f)', Loads(p, f)')
      <4>1. Mail(p, f)' = {} /\ Loads(p, f)' = {}
        BY <3>1 DEF Tells, Working, Mail, Loads
      <4>2. gossip' = gossip \cup {[note |-> note, has |-> {r}]}
        BY <3>1 DEF Tells
      <4>3. CASE x # f \/ r = p
        <5>1. News(p, f)' = News(p, f)
          BY <3>1, <4>2, <4>3 DEF News, Tells, About
        <5> QED
          BY <2>2, <4>1, <5>1 DEF Alone, AtMostOne
      <4>4. CASE x = f /\ r # p
        <5>1. Waits(r, "changed", f)
          BY <3>1, <4>4, EventShape DEF Tells, Waits
        <5>2. Silent(r, f)
          BY <3>1, <5>1 DEF Tells, ToldOnce
        <5>3. \A m \in gossip : m.note.peer = p \/ m.note.peer = r
          BY <4>4, Shapes, NoteShape DEF TwoPeers
        <5>4. News(p, f) = {}
          BY <5>2, <5>3 DEF News, Silent
        <5>5. News(p, f)' \subseteq {[note |-> note, has |-> {r}]}
          BY <4>2, <5>4 DEF News
        <5> QED
          BY <4>1, <5>5 DEF Alone, AtMostOne
      <4> QED
        BY <4>3, <4>4
    <3>2. ASSUME NEW x \in Path, NEW note \in Note, TellsRemoval(r, x, note)
          PROVE  Alone(News(p, f)', Mail(p, f)', Loads(p, f)')
      <4>1. gossip' = gossip \cup {[note |-> note, has |-> {r}]} /\ note.kind = "deleted"
        BY <3>2 DEF TellsRemoval, About
      <4>2. News(p, f)' = News(p, f)
        BY <4>1 DEF News, About
      <4>3. Mail(p, f)' = Mail(p, f) /\ Loads(p, f)' = Loads(p, f)
        BY <3>2 DEF TellsRemoval, Mail, Loads
      <4> QED
        BY <2>2, <4>2, <4>3
    <3>3. ASSUME NEW m \in gossip, NEW d \in Delivery, Arrives(r, m, d)
          PROVE  Alone(News(p, f)', Mail(p, f)', Loads(p, f)')
      <4>1. /\ News(p, f)' = News(p, f) \ {m} /\ Loads(p, f)' = Loads(p, f)
            /\ r \notin m.has /\ d.note = m.note
        BY <3>3 DEF Arrives, News, Loads
      <4>2. inbox' = [inbox EXCEPT ![r] = @ \cup {d}]
        BY <3>3 DEF Arrives
      <4>3. CASE p = r /\ About(m.note, "changed", f)
        <5>1. m.note.peer # p
          BY <4>1, <4>3 DEF Authors
        <5>2. m \in News(p, f)
          BY <4>3, <5>1 DEF News
        <5>3. News(p, f)' = {} /\ Mail(p, f) = {} /\ Loads(p, f)' = {}
          BY <2>2, <4>1, <5>2 DEF Alone, AtMostOne
        <5>4. Mail(p, f)' \subseteq Mail(p, f) \cup {d}
          BY <4>2 DEF Mail
        <5> QED
          BY <5>3, <5>4 DEF Alone, AtMostOne
      <4>4. CASE ~(p = r /\ About(m.note, "changed", f))
        <5>1. Mail(p, f)' = Mail(p, f)
          BY <4>1, <4>2, <4>4 DEF Mail
        <5> QED
          BY <2>2, <4>1, <5>1, FewerAlone
      <4> QED
        BY <4>3, <4>4
    <3>4. ASSUME NEW d \in inbox[r], NEW h \in Fetch, Fetches(r, d, h)
          PROVE  Alone(News(p, f)', Mail(p, f)', Loads(p, f)')
      <4>1. /\ News(p, f)' = News(p, f) /\ d.note.kind = "changed" /\ d.note.path \in File
            /\ h.path \in {d.note.path} \cup Copies(d.note.path)
            /\ inbox' = [inbox EXCEPT ![r] = @ \ {d}]
            /\ fetches' = [fetches EXCEPT ![r] = @ \cup {h}]
        BY <3>4 DEF Fetches, News
      <4>2. CASE p = r /\ d.note.path = f
        <5>1. d \in Mail(p, f)
          BY <4>1, <4>2 DEF Mail, About
        <5>2. News(p, f)' = {} /\ Mail(p, f)' = {} /\ Loads(p, f) = {}
          <6>1. News(p, f)' = {} /\ Loads(p, f) = {} /\ \A c \in Mail(p, f) : c = d
            BY <2>2, <4>1, <5>1 DEF Alone, AtMostOne
          <6>2. Mail(p, f)' \subseteq Mail(p, f) \ {d}
            BY <4>1, <4>2 DEF Mail
          <6> QED
            BY <6>1, <6>2
        <5>3. Loads(p, f)' \subseteq Loads(p, f) \cup {h}
          BY <4>1 DEF Loads
        <5> QED
          BY <5>2, <5>3 DEF Alone, AtMostOne
      <4>3. CASE ~(p = r /\ d.note.path = f)
        <5>1. Mail(p, f)' \subseteq Mail(p, f)
          BY <4>1 DEF Mail
        <5>2. Loads(p, f)' = Loads(p, f)
          BY <4>1, <4>3, LoadsApart DEF Loads
        <5> QED
          BY <2>2, <4>1, <5>1, <5>2, FewerAlone
      <4> QED
        BY <4>2, <4>3
    <3>5. ASSUME NEW g \in fetches[r], NEW h \in Fetch, Proceeds(r, g, h)
          PROVE  Alone(News(p, f)', Mail(p, f)', Loads(p, f)')
      <4>1. /\ News(p, f)' = News(p, f) /\ Mail(p, f)' = Mail(p, f) /\ h.path = g.path
            /\ fetches' = [fetches EXCEPT ![r] = (@ \ {g}) \cup {h}]
        BY <3>5 DEF Proceeds, News, Mail
      <4>2. CASE p = r /\ g \in Loads(p, f)
        <5>1. News(p, f) = {} /\ Mail(p, f) = {} /\ \A k \in Loads(p, f) : k = g
          BY <2>2, <4>2 DEF Alone, AtMostOne
        <5>2. Loads(p, f)' \subseteq (Loads(p, f) \ {g}) \cup {h}
          BY <4>1, <4>2 DEF Loads
        <5>3. \A k \in Loads(p, f)' : k = h
          BY <5>1, <5>2
        <5> QED
          BY <4>1, <5>1, <5>3 DEF Alone, AtMostOne
      <4>3. CASE ~(p = r /\ g \in Loads(p, f))
        <5>1. Loads(p, f)' \subseteq Loads(p, f)
          BY <4>1, <4>3 DEF Loads
        <5> QED
          BY <2>2, <4>1, <5>1, FewerAlone
      <4> QED
        BY <4>2, <4>3
    <3>6. ASSUME gossip' \subseteq gossip, \A q \in Peer : inbox'[q] \subseteq inbox[q],
                 \A q \in Peer : fetches'[q] \subseteq fetches[q]
          PROVE  Alone(News(p, f)', Mail(p, f)', Loads(p, f)')
      <4>1. /\ News(p, f)' \subseteq News(p, f) /\ Mail(p, f)' \subseteq Mail(p, f)
            /\ Loads(p, f)' \subseteq Loads(p, f)
        BY <3>6 DEF News, Mail, Loads
      <4> QED
        BY <2>2, <4>1 DEF Alone, AtMostOne
    <3>7. ~Reconciles(r)
      BY <1>1, <2>1 DEF Reconciles
    <3>8. CASE \/ Drops(r) \/ Moves(r) \/ Skips(r)
               \/ \E d \in inbox[r] : Refuses(r, d) \/ Removes(r, d)
               \/ \E g \in fetches[r] : Ends(r, g)
               \/ \E note \in unindex[r] : Forgetting(r, note)
      <4>1. ASSUME NEW d \in inbox[r], Refuses(r, d) \/ Removes(r, d)
            PROVE  /\ gossip' \subseteq gossip /\ \A q \in Peer : inbox'[q] \subseteq inbox[q]
                   /\ fetches' = fetches
        <5>1. gossip' = gossip /\ inbox' = [inbox EXCEPT ![r] = @ \ {d}] /\ fetches' = fetches
          BY <4>1 DEF Refuses, Removes
        <5> QED
          BY <5>1
      <4>2. ASSUME NEW g \in fetches[r], Ends(r, g)
            PROVE  /\ gossip' \subseteq gossip /\ inbox' = inbox
                   /\ \A q \in Peer : fetches'[q] \subseteq fetches[q]
        BY <4>2 DEF Ends
      <4>3. CASE Drops(r) \/ Moves(r) \/ Skips(r) \/ \E note \in unindex[r] : Forgetting(r, note)
        BY <2>3, <4>3 DEF Drops, Moves, Skips, Forgetting
      <4> QED
        BY <3>6, <3>8, <4>1, <4>2, <4>3
    <3>9. CASE \E d \in inbox[r], h \in Fetch : FetchesBeside(r, d, h) \/ FetchesOver(r, d, h)
      BY <3>4, <3>9 DEF FetchesBeside, FetchesOver
    <3>10. CASE \E g \in fetches[r], h \in Fetch : Loading(r, g, h) \/ Writing(r, g, h)
      BY <3>5, <3>10 DEF Loading, Writing
    <3> QED
      BY <2>4, <3>1, <3>2, <3>3, <3>7, <3>8, <3>9, <3>10 DEF EngineStep
  <2> QED
    BY <1>3, <2>3, <2>4 DEF RoundStep, Closes, Rests, Writes, Erases, Edits, tasks
<1> QED
  BY <1>2, <1>3

\* The file a user wrote stands until it is copied.
LEMMA StandsOrSaved ==
  ASSUME TwoCarefulPeers, RoundInv, NEW r \in Peer, EngineStep(r),
         NEW e \in edits, e.left # None, Stands(e)
  PROVE  Stands(e)' \/ Saved(e)'
<1> DEFINE p == e.peer
           f == e.file
<1>0. /\ PacedTypeOK /\ NoRemovals /\ OneNews /\ Begun /\ OneEdit
      /\ round \in Nat /\ p \in Peer /\ f \in File /\ f \in Path
  BY Domains DEF RoundInv, Edit, Path
<1>1. Wrote(p, f) /\ ~Gone(f) /\ round > 0
  BY <1>0, WrittenStays DEF Wrote, Begun
<1>2. disk[p][f] = e.left /\ \A g \in fetches[p] : g.path # f
  BY DEF Stands
<1> HIDE DEF p, f
<1> USE Domains DEF users, queues, tasks, windowVars
<1>3. ASSUME disk'[p][f] = disk[p][f],
             \A g \in fetches'[p] : g \in fetches[p] \/ g.path # f
      PROVE  Stands(e)'
  BY <1>2, <1>3 DEF Stands, p, f
<1>4. CASE \/ Drops(r) \/ Moves(r) \/ Skips(r)
           \/ \E x \in File, note \in Note : Tells(r, x, note)
           \/ \E x \in Path, note \in Note : TellsRemoval(r, x, note)
           \/ \E m \in gossip, d \in Delivery : Arrives(r, m, d)
           \/ \E d \in inbox[r] : Refuses(r, d)
           \/ \E note \in unindex[r] : Forgetting(r, note)
  BY <1>3, <1>4 DEF Drops, Moves, Skips, Tells, TellsRemoval, Arrives, Refuses, Forgetting
<1>5. ~Reconciles(r)
  BY <1>1 DEF Reconciles
<1>6. ASSUME NEW g \in fetches[r], Ends(r, g)
      PROVE  Stands(e)'
  <2>1. UNCHANGED disk /\ fetches' = [fetches EXCEPT ![r] = @ \ {g}]
    BY <1>6 DEF Ends
  <2> QED
    BY <1>0, <1>3, <2>1
<1>7. ASSUME NEW g \in fetches[r], NEW h \in Fetch, Loading(r, g, h) \/ Writing(r, g, h)
      PROVE  Stands(e)'
  <2>1. /\ fetches' = [fetches EXCEPT ![r] = (@ \ {g}) \cup {h}] /\ h.path = g.path
        /\ UNCHANGED disk \/ disk' = [disk EXCEPT ![r][g.path] = g.data]
    BY <1>7 DEF Loading, Writing, Proceeds
  <2>2. r = p => g.path # f
    BY <1>2
  <2> QED
    BY <1>0, <1>3, <2>1, <2>2
<1>8. ASSUME NEW d \in inbox[r], Removes(r, d)
      PROVE  Stands(e)'
  <2>1. /\ UNCHANGED fetches
        /\ UNCHANGED disk \/ disk' = [disk EXCEPT ![r][d.note.path] = None]
        /\ d.note.kind = "deleted"
    BY <1>8 DEF Removes
  <2>2. d.note.path # f
    BY <1>0, <1>1, <2>1 DEF NoRemovals, About
  <2>3. CASE UNCHANGED disk
    BY <1>3, <2>1, <2>3
  <2>4. CASE disk' = [disk EXCEPT ![r][d.note.path] = None]
    <3>1. disk'[p][f] = disk[p][f]
      BY <1>0, <2>2, <2>4
    <3> QED
      BY <1>3, <2>1, <3>1
  <2> QED
    BY <2>1, <2>3, <2>4
<1>9. ASSUME NEW d \in inbox[r], NEW h \in Fetch, FetchesBeside(r, d, h)
      PROVE  Stands(e)'
  <2>1. /\ UNCHANGED disk /\ fetches' = [fetches EXCEPT ![r] = @ \cup {h}]
        /\ d.note.path \in File /\ h.path \in {d.note.path} \cup Copies(d.note.path)
        /\ Wrote(r, d.note.path) => h.path # d.note.path
    BY <1>9 DEF FetchesBeside, Fetches
  <2>2. r = p => h.path # f
    BY <1>0, <1>1, <2>1, CopiesAreBackups
  <2> QED
    BY <1>0, <1>3, <2>1, <2>2
<1>10. ASSUME NEW d \in inbox[r], NEW h \in Fetch, FetchesOver(r, d, h)
       PROVE  Stands(e)' \/ Saved(e)'
  <2> DEFINE b == ConflictName[<<d.note.path, r>>]
  <2>1. /\ phase = "sync" /\ UNCHANGED <<phase, gossip>>
        /\ d.note.kind = "changed" /\ d.note.path \in File /\ h.path = d.note.path
        /\ fetches' = [fetches EXCEPT ![r] = @ \cup {h}]
        /\ inbox' = [inbox EXCEPT ![r] = @ \ {d}]
        /\ \/ /\ disk[r][h.path] # None
              /\ disk' = [disk EXCEPT ![r][b] = disk[r][h.path]]
           \/ disk[r][h.path] = None /\ UNCHANGED disk
    BY <1>10 DEF FetchesOver, Fetches
  <2>2. b \in Copies(d.note.path) /\ b \in Backup /\ b \in Path
    BY <2>1, CopiesAreBackups DEF Copies
  <2>3. b # f
    BY <1>0, <2>2, PathAssumption
  <2> HIDE DEF b
  <2>4. CASE r # p \/ d.note.path # f
    <3>1. disk'[p][f] = disk[p][f]
      <4>1. CASE UNCHANGED disk
        BY <4>1
      <4>2. CASE disk' = [disk EXCEPT ![r][b] = disk[r][h.path]]
        BY <1>0, <2>3, <4>2
      <4> QED
        BY <2>1, <4>1, <4>2
    <3>2. \A g \in fetches'[p] : g \in fetches[p] \/ g.path # f
      BY <1>0, <2>1, <2>4
    <3> QED
      BY <1>3, <3>1, <3>2
  <2>5. CASE r = p /\ d.note.path = f
    <3>1. disk'[p][b] = e.left /\ b = ConflictName[<<f, p>>]
      BY <1>0, <1>2, <2>1, <2>2, <2>5 DEF b
    <3>2. d \in Mail(p, f)
      BY <2>1, <2>5 DEF Mail, About
    <3>3. News(p, f) = {} /\ Loads(p, f) = {} /\ \A c \in Mail(p, f) : c = d
      BY <1>0, <1>1, <3>2 DEF OneNews, AtMostOne
    <3>4. News(p, f)' = {} /\ Mail(p, f)' = {}
      <4>1. News(p, f)' = News(p, f)
        BY <2>1 DEF News
      <4>2. Mail(p, f)' \subseteq Mail(p, f) \ {d}
        BY <1>0, <2>1, <2>5 DEF Mail
      <4> QED
        BY <3>3, <4>1, <4>2
    <3>5. ASSUME NEW g \in fetches'[p]
          PROVE  g.path \notin Copies(f)
      <4>1. g \in fetches[p] \/ g.path = f
        BY <1>0, <2>1, <2>5
      <4>2. g \in fetches[p] => g.path \notin Copies(f)
        BY <3>3 DEF Loads
      <4>3. f \notin Copies(f)
        BY <1>0, CopiesAreBackups
      <4> QED
        BY <4>1, <4>2, <4>3
    <3> QED
      BY <2>1, <3>1, <3>4, <3>5 DEF Saved, p, f
  <2> QED
    BY <2>4, <2>5
<1> QED
  BY <1>4, <1>5, <1>6, <1>7, <1>8, <1>9, <1>10 DEF EngineStep

\* A copy that has been made stays.
LEMMA SavedStays ==
  ASSUME TwoCarefulPeers, RoundInv, NEW r \in Peer, EngineStep(r),
         NEW e \in edits, e.left # None, Saved(e)
  PROVE  Saved(e)'
<1> DEFINE p == e.peer
           f == e.file
           b == ConflictName[<<f, p>>]
<1>0. /\ PacedTypeOK /\ NoRemovals /\ Begun /\ Authors /\ CopiesApart
      /\ round \in Nat /\ p \in Peer /\ f \in File /\ f \in Path
  BY Domains DEF RoundInv, TwoCarefulPeers, Edit, Path
<1>1. b \in Copies(f) /\ b \in Path /\ b \notin File
  BY <1>0, CopiesAreBackups DEF Copies
<1>2. /\ phase = "sync" /\ disk[p][b] = e.left /\ News(p, f) = {} /\ Mail(p, f) = {}
      /\ \A g \in fetches[p] : g.path \notin Copies(f)
  BY DEF Saved
<1>3. round > 0 /\ ~Gone(b)
  BY <1>0, <1>1, Domains DEF Begun, Gone, Edit
<1> HIDE DEF p, f, b
<1>4. phase' = "sync"
  BY <1>2, SameUsers
<1>5. News(p, f)' = {}
  <2> SUFFICES ASSUME NEW m \in gossip', About(m.note, "changed", f), m.note.peer # p
               PROVE  FALSE
    BY DEF News
  <2>1. m \notin gossip
    BY <1>2 DEF News
  <2> QED
    BY <1>0, <1>2, <2>1, NoteOfStep DEF Tells, TellsRemoval, About
<1>6. Mail(p, f)' = {}
  <2> SUFFICES ASSUME NEW d \in inbox'[p], About(d.note, "changed", f)
               PROVE  FALSE
    BY DEF Mail
  <2>1. d \notin inbox[p]
    BY <1>2 DEF Mail
  <2>2. PICK m \in gossip : Arrives(r, m, d) /\ p = r
    BY <1>0, <2>1, MailOfStep
  <2>3. m.note.peer # p /\ m.note = d.note
    BY <1>0, <2>2 DEF Arrives, Authors
  <2> QED
    BY <1>2, <2>3 DEF News
<1>7. ASSUME NEW g \in fetches'[p]
      PROVE  g.path \notin Copies(f)
  <2>1. ASSUME NEW d \in inbox[r], Fetches(r, d, g), p = r
        PROVE  g.path \notin Copies(f)
    <3>1. /\ d.note.kind = "changed" /\ d.note.path \in File
          /\ g.path \in {d.note.path} \cup Copies(d.note.path)
      BY <2>1 DEF Fetches
    <3>2. d.note.path # f
      BY <1>2, <2>1, <3>1 DEF Mail, About
    <3> QED
      BY <1>0, <3>1, <3>2, LoadsApart
  <2> QED
    BY <1>0, <1>2, <1>3, <2>1, FetchOfStep
<1>8. disk'[p][b] = disk[p][b]
  <2> USE Domains DEF users, queues, tasks, windowVars
  <2>1. ASSUME NEW d \in inbox[r], Removes(r, d)
        PROVE  disk'[p][b] = disk[p][b]
    <3>1. /\ UNCHANGED disk \/ disk' = [disk EXCEPT ![r][d.note.path] = None]
          /\ d.note.kind = "deleted"
      BY <2>1 DEF Removes
    <3>2. d.note.path # b
      BY <1>0, <1>1, <1>3, <3>1 DEF NoRemovals, About
    <3>3. CASE UNCHANGED disk
      BY <3>3
    <3>4. CASE disk' = [disk EXCEPT ![r][d.note.path] = None]
      BY <1>0, <1>1, <3>2, <3>4
    <3> QED
      BY <3>1, <3>3, <3>4
  <2>2. ASSUME NEW d \in inbox[r], NEW h \in Fetch, FetchesOver(r, d, h)
        PROVE  disk'[p][b] = disk[p][b]
    <3> DEFINE c == ConflictName[<<d.note.path, r>>]
    <3>1. /\ d.note.kind = "changed" /\ d.note.path \in File
          /\ \/ UNCHANGED disk
             \/ disk' = [disk EXCEPT ![r][c] = disk[r][h.path]]
      BY <2>2 DEF FetchesOver, Fetches
    <3>2. CASE r = p
      <4>1. d.note.path # f
        BY <1>2, <3>1, <3>2 DEF Mail, About
      <4>2. c # b
        BY <1>0, <3>1, <4>1 DEF CopiesApart, b
      <4> HIDE DEF c
      <4>3. CASE UNCHANGED disk
        BY <4>3
      <4>4. CASE disk' = [disk EXCEPT ![r][c] = disk[r][h.path]]
        BY <1>0, <1>1, <4>2, <4>4
      <4> QED
        BY <3>1, <4>3, <4>4
    <3>3. CASE r # p
      <4> HIDE DEF c
      <4> QED
        BY <1>0, <3>1, <3>3
    <3> QED
      BY <3>2, <3>3
  <2>3. ASSUME NEW g \in fetches[r], NEW h \in Fetch, Writing(r, g, h)
        PROVE  disk'[p][b] = disk[p][b]
    <3>1. disk' = [disk EXCEPT ![r][g.path] = g.data]
      BY <2>3 DEF Writing
    <3>2. r = p => g.path # b
      BY <1>1, <1>2
    <3> QED
      BY <1>0, <1>1, <3>1, <3>2
  <2>4. CASE UNCHANGED disk
    BY <2>4
  <2> QED
    BY <2>1, <2>2, <2>3, <2>4 DEF EngineStep, Drops, Moves, Skips, Tells, TellsRemoval, Arrives,
       Reconciles, Refuses, FetchesBeside, Ends, Loading, Forgetting
<1> QED
  BY <1>2, <1>4, <1>5, <1>6, <1>7, <1>8 DEF Saved, p, f, b

LEMMA KeepsSafe ==
  ASSUME TwoCarefulPeers, RoundInv, RoundStep PROVE Safe'
<1>0. Safe /\ PacedTypeOK /\ Working
  BY DEF RoundInv
<1>1. CASE Begins
  BY <1>1 DEF Begins, Safe
<1>2. CASE Closes
  BY <1>0, <1>2 DEF Closes, Safe, Stands, Saved, tasks
<1>3. CASE Rests
  BY <1>0, <1>3 DEF Rests, Safe, Stands, Saved, News, Mail, users, tasks
<1>4. ASSUME NEW p \in Peer, NEW f \in File, NEW kind, NEW c, Edits(p, f, kind, c)
      PROVE  Safe'
  <2> DEFINE n == [peer |-> p, file |-> f, left |-> c]
  <2>1. /\ phase = "edit" /\ edits' = edits \cup {n} /\ UNCHANGED fetches
        /\ disk' = [disk EXCEPT ![p][f] = c]
        /\ \A e \in edits : e.file = f => e.peer # p
    BY <1>4 DEF Edits, tasks
  <2>2. n.peer = p /\ n.file = f /\ n.left = c
    OBVIOUS
  <2> HIDE DEF n
  <2>3. \A q \in Peer : fetches[q] = {}
    BY <1>0, <2>1 DEF Working
  <2>4. disk'[p][f] = c /\ f \in Path
    BY <1>0, <2>1, Domains DEF Path
  <2>5. ASSUME NEW e \in edits, e.left # None
        PROVE  Stands(e)'
    <3>1. Stands(e) /\ e.peer \in Peer /\ e.file \in File
      BY <1>0, <2>1, <2>5, Domains DEF Safe, Saved, Edit
    <3>2. disk'[e.peer][e.file] = disk[e.peer][e.file]
      BY <1>0, <2>1, <2>4, <3>1, Domains
    <3> QED
      BY <2>1, <3>1, <3>2 DEF Stands
  <2>6. Stands(n)'
    BY <2>1, <2>2, <2>3, <2>4 DEF Stands
  <2> QED
    BY <2>1, <2>5, <2>6 DEF Safe
<1>5. ASSUME NEW r \in Peer, EngineStep(r)
      PROVE  Safe'
  BY <1>0, <1>5, SameUsers, StandsOrSaved, SavedStays DEF Safe
<1> QED
  BY <1>1, <1>2, <1>3, <1>4, <1>5 DEF RoundStep, Writes, Erases

\* A file that an index has forgotten stays forgotten: nobody wrote it again.
LEMMA ForgottenStays ==
  ASSUME RoundInv, NEW r \in Peer, EngineStep(r), NEW f \in File, Gone(f),
         NEW p \in Peer, meta[p][f] = None
  PROVE  meta'[p][f] = None
<1>0. /\ PacedTypeOK /\ NoChanges /\ Begun /\ OneEdit /\ round \in Nat /\ f \in Path
      /\ meta \in [Peer -> [Path -> Meta \cup {None}]]
  BY Domains DEF RoundInv, Path
<1>1. round > 0 /\ \A q \in Peer : ~Wrote(q, f)
  BY <1>0, WrittenStays DEF Begun, Gone
<1>2. ASSUME NEW x \in File, NEW note \in Note, Tells(r, x, note)
      PROVE  meta'[p][f] = meta[p][f]
  <2>1. Waits(r, "changed", x)
    BY <1>0, <1>2, Domains, EventShape DEF Tells, Waits
  <2>2. x # f
    BY <1>0, <1>1, <2>1 DEF NoChanges
  <2>3. meta' = [meta EXCEPT ![r][x] = [clock |-> note.clock, ts |-> note.ts]]
    BY <1>2 DEF Tells
  <2> QED
    BY <1>0, <2>2, <2>3
<1>3. ASSUME NEW g \in fetches[r], Ends(r, g)
      PROVE  meta'[p][f] = meta[p][f]
  <2>1. g.path # f
    BY <1>0, <1>1 DEF NoChanges
  <2>2. meta' = meta \/ meta' = [meta EXCEPT ![r][g.path] = Applied(r, g)]
    BY <1>3 DEF Ends
  <2>3. CASE meta' = [meta EXCEPT ![r][g.path] = Applied(r, g)]
    BY <1>0, <2>1, <2>3
  <2> QED
    BY <2>2, <2>3
<1>4. ASSUME NEW x, meta' = [meta EXCEPT ![r][x] = None]
      PROVE  meta'[p][f] = None
  BY <1>0, <1>4
<1>5. CASE UNCHANGED meta
  BY <1>5
<1> QED
  BY <1>2, <1>3, <1>4, <1>5 DEF EngineStep, Drops, Moves, Skips, TellsRemoval, Arrives,
     Reconciles, Refuses, Removes, FetchesBeside, FetchesOver, Fetches, Loading, Writing,
     Proceeds, Forgetting

\* The removal of a file reaches the index.
LEMMA RemovalComes ==
  ASSUME TwoCarefulPeers, RoundInv, NEW r \in Peer, EngineStep(r), NEW p \in Peer,
         NEW f \in File, Comes(p, f)
  PROVE  Comes(p, f)' \/ meta'[p][f] = None
<1>0. PacedTypeOK /\ Authors /\ TwoPeers /\ f \in Path
  BY DEF RoundInv, TwoCarefulPeers, Path
<1> USE Domains DEF users, queues, tasks, windowVars
<1>1. ASSUME NEW m \in gossip, About(m.note, "deleted", f), p \notin m.has
      PROVE  Comes(p, f)'
  <2>1. ASSUME NEW k \in gossip, NEW d \in Delivery, Arrives(r, k, d)
        PROVE  Comes(p, f)'
    <3>1. /\ gossip' = gossip \ {k} /\ r \notin k.has /\ d.note = k.note
          /\ inbox' = [inbox EXCEPT ![r] = @ \cup {d}]
      BY <2>1 DEF Arrives
    <3>2. CASE k # m
      BY <1>1, <3>1, <3>2 DEF Comes
    <3>3. CASE k = m /\ r = p
      <4>1. d \in inbox'[p] /\ About(d.note, "deleted", f)
        BY <1>0, <1>1, <3>1, <3>3
      <4> QED
        BY <4>1 DEF Comes
    <3>4. CASE k = m /\ r # p
      <4>1. m.note.peer \in m.has /\ m.note.peer \in Peer
        BY <1>0, Shapes, NoteShape DEF Authors
      <4>2. p = r \/ r = m.note.peer \/ p = m.note.peer
        BY <1>0, <4>1 DEF TwoPeers
      <4> QED
        BY <1>1, <3>1, <3>4, <4>1, <4>2
    <3> QED
      BY <3>2, <3>3, <3>4
  <2>2. ASSUME gossip \subseteq gossip'
        PROVE  Comes(p, f)'
    BY <1>1, <2>2 DEF Comes
  <2> QED
    BY <2>1, <2>2 DEF EngineStep, Drops, Moves, Skips, Tells, TellsRemoval, Reconciles, Refuses,
       Removes, FetchesBeside, FetchesOver, Fetches, Ends, Loading, Writing, Proceeds, Forgetting
<1>2. ASSUME NEW d \in inbox[p], About(d.note, "deleted", f)
      PROVE  Comes(p, f)'
  <2>1. ASSUME NEW k \in inbox[r], Removes(r, k)
        PROVE  Comes(p, f)'
    <3>1. /\ inbox' = [inbox EXCEPT ![r] = @ \ {k}]
          /\ unindex' = [unindex EXCEPT ![r] = @ \cup {k.note}]
      BY <2>1 DEF Removes
    <3>2. CASE k = d /\ r = p
      <4>1. d.note \in unindex'[p] /\ d.note.path = f
        BY <1>0, <1>2, <3>1, <3>2 DEF About
      <4> QED
        BY <4>1 DEF Comes
    <3>3. CASE ~(k = d /\ r = p)
      <4>1. d \in inbox'[p]
        BY <1>0, <3>1, <3>3
      <4> QED
        BY <1>2, <4>1 DEF Comes
    <3> QED
      BY <3>2, <3>3
  <2>2. ASSUME NEW k \in inbox[r], k.note.kind = "changed", inbox' = [inbox EXCEPT ![r] = @ \ {k}]
        PROVE  Comes(p, f)'
    <3>1. d \in inbox'[p]
      BY <1>0, <1>2, <2>2 DEF About
    <3> QED
      BY <1>2, <3>1 DEF Comes
  <2>3. ASSUME inbox[p] \subseteq inbox'[p]
        PROVE  Comes(p, f)'
    BY <1>2, <2>3 DEF Comes
  <2>4. CASE \E m \in gossip, k \in Delivery : Arrives(r, m, k)
    <3>1. inbox[p] \subseteq inbox'[p]
      BY <1>0, <2>4 DEF Arrives
    <3> QED
      BY <2>3, <3>1
  <2>5. CASE \E k \in inbox[r] : Refuses(r, k) \/ \E h \in Fetch : FetchesBeside(r, k, h)
                                                                 \/ FetchesOver(r, k, h)
    BY <2>2, <2>5 DEF Refuses, FetchesBeside, FetchesOver, Fetches
  <2>6. CASE UNCHANGED inbox
    BY <2>3, <2>6
  <2> QED
    BY <2>1, <2>4, <2>5, <2>6 DEF EngineStep, Drops, Moves, Skips, Tells, TellsRemoval,
       Reconciles, Ends, Loading, Writing, Proceeds, Forgetting
<1>3. ASSUME NEW note \in unindex[p], note.path = f
      PROVE  Comes(p, f)' \/ meta'[p][f] = None
  <2>1. ASSUME NEW k \in unindex[r], Forgetting(r, k)
        PROVE  Comes(p, f)' \/ meta'[p][f] = None
    <3>1. /\ unindex' = [unindex EXCEPT ![r] = @ \ {k}]
          /\ meta' = [meta EXCEPT ![r][k.path] = None]
      BY <2>1 DEF Forgetting
    <3>2. CASE k = note /\ r = p
      BY <1>0, <1>3, <3>1, <3>2
    <3>3. CASE ~(k = note /\ r = p)
      <4>1. note \in unindex'[p]
        BY <1>0, <3>1, <3>3
      <4> QED
        BY <1>3, <4>1 DEF Comes
    <3> QED
      BY <3>2, <3>3
  <2>2. ASSUME unindex[p] \subseteq unindex'[p]
        PROVE  Comes(p, f)'
    BY <1>3, <2>2 DEF Comes
  <2>3. CASE \E k \in inbox[r] : Removes(r, k)
    <3>1. unindex[p] \subseteq unindex'[p]
      BY <1>0, <2>3 DEF Removes
    <3> QED
      BY <2>2, <3>1
  <2>4. CASE UNCHANGED unindex
    BY <2>2, <2>4
  <2> QED
    BY <2>1, <2>3, <2>4 DEF EngineStep, Drops, Moves, Skips, Tells, TellsRemoval, Arrives,
       Reconciles, Refuses, FetchesBeside, FetchesOver, Fetches, Ends, Loading, Writing, Proceeds
<1> QED
  BY <1>1, <1>2, <1>3 DEF Comes

LEMMA KeepsForgets ==
  ASSUME TwoCarefulPeers, RoundInv, RoundStep PROVE Forgets'
<1>0. Forgets /\ PacedTypeOK
  BY DEF RoundInv
<1>1. CASE Begins
  BY <1>1 DEF Begins, Forgets
<1>2. CASE Closes
  <2>1. \A q \in Peer, x \in File : ~Waits(q, "removed", x)
    BY <1>2, EmptyQueue DEF Closes, Drained, Waits
  <2>2. edits \subseteq Edit
    BY <1>0, Domains
  <2> QED
    BY <1>0, <1>2, <2>1, <2>2 DEF Closes, Forgets, Comes, Edit, tasks
<1>3. CASE Rests
  BY <1>0, <1>3 DEF Rests, Forgets, Comes, Waits, users, queues, tasks
<1>4. ASSUME NEW p \in Peer, NEW f \in File, NEW kind \in {"changed", "removed"}, NEW c,
             Edits(p, f, kind, c), kind = "changed" => c # None
      PROVE  Forgets'
  <2> DEFINE n == [peer |-> p, file |-> f, left |-> c]
  <2>1. /\ phase = "edit" /\ UNCHANGED phase /\ edits' = edits \cup {n}
        /\ UNCHANGED <<meta, gossip, inbox, unindex>>
    BY <1>4 DEF Edits, tasks
  <2>2. n.peer = p /\ n.file = f /\ n.left = c
    OBVIOUS
  <2> HIDE DEF n
  <2>3. \A q \in Peer : \A x : Waits(q, "removed", x) => Waits(q, "removed", x)'
    BY <1>0, <1>4, EditEvents
  <2>4. kind = "removed" => Waits(p, "removed", f)'
    BY <1>0, <1>4, EditEvents
  <2>5. \A q, x : Comes(q, x)' <=> Comes(q, x)
    BY <2>1 DEF Comes
  <2>6. edits \subseteq Edit
    BY <1>0, Domains
  <2>7. ASSUME NEW e \in edits', e.left = None, NEW q \in Peer
        PROVE  \/ meta'[q][e.file] = None
               \/ phase' = "edit" /\ Waits(e.peer, "removed", e.file)'
               \/ q # e.peer /\ Comes(q, e.file)'
    <3>1. CASE e = n
      BY <1>4, <2>1, <2>2, <2>4, <2>7, <3>1
    <3>2. CASE e \in edits
      BY <1>0, <2>1, <2>3, <2>5, <2>6, <2>7, <3>2 DEF Forgets, Edit
    <3> QED
      BY <2>1, <3>1, <3>2
  <2> QED
    BY <2>7 DEF Forgets
<1>5. ASSUME NEW r \in Peer, EngineStep(r)
      PROVE  Forgets'
  <2>1. UNCHANGED <<phase, edits>>
    BY <1>5, SameUsers
  <2> SUFFICES ASSUME NEW e \in edits, e.left = None, NEW p \in Peer
               PROVE  \/ meta'[p][e.file] = None
                      \/ phase = "edit" /\ Waits(e.peer, "removed", e.file)'
                      \/ p # e.peer /\ Comes(p, e.file)'
    BY <2>1 DEF Forgets
  <2> DEFINE f == e.file
             a == e.peer
  <2>2. f \in File /\ f \in Path /\ a \in Peer /\ Gone(f)
    BY <1>0, Domains DEF Edit, Gone, Path
  <2>3. \/ meta[p][f] = None
        \/ phase = "edit" /\ Waits(a, "removed", f)
        \/ p # a /\ Comes(p, f)
    BY <1>0 DEF Forgets
  <2> HIDE DEF f, a
  <2>4. CASE meta[p][f] = None
    BY <1>5, <2>2, <2>4, ForgottenStays DEF f
  <2>5. CASE phase = "edit" /\ Waits(a, "removed", f)
    <3>1. \/ Waits(a, "removed", f)'
          \/ a = r /\ \E note \in Note : TellsRemoval(r, f, note)
      BY <1>0, <1>5, <2>2, <2>5, EventStays
    <3>2. ASSUME a = r, NEW note \in Note, TellsRemoval(r, f, note)
          PROVE  meta'[p][f] = None \/ (p # a /\ Comes(p, f)')
      <4>1. /\ gossip' = gossip \cup {[note |-> note, has |-> {r}]}
            /\ meta' = [meta EXCEPT ![r][f] = None] /\ About(note, "deleted", f)
        BY <3>2 DEF TellsRemoval
      <4>2. CASE p = r
        BY <1>0, <2>2, <4>1, <4>2, Domains
      <4>3. CASE p # r
        <5> DEFINE m == [note |-> note, has |-> {r}]
        <5>1. m \in gossip' /\ About(m.note, "deleted", f) /\ p \notin m.has
          BY <4>1, <4>3
        <5> QED
          BY <3>2, <4>3, <5>1 DEF Comes
      <4> QED
        BY <4>2, <4>3
    <3> QED
      BY <2>5, <3>1, <3>2 DEF f, a
  <2>6. CASE p # a /\ Comes(p, f)
    BY <1>5, <2>2, <2>6, RemovalComes DEF f, a
  <2> QED
    BY <2>3, <2>4, <2>5, <2>6
<1>6. CASE \E p \in Peer, f \in File, v \in Content : Writes(p, f, v)
  BY <1>4, <1>6, ContentAssumption DEF Writes
<1>7. CASE \E p \in Peer, f \in File : Erases(p, f)
  BY <1>4, <1>7 DEF Erases
<1> QED
  BY <1>1, <1>2, <1>3, <1>5, <1>6, <1>7 DEF RoundStep

-----------------------------------------------------------------------------
(* No edit is lost *)

LEMMA StartClocks ==
  ASSUME PacedInit, NEW p \in Peer, NEW f \in File PROVE LocalClock(p, f) = NewClock
<1>1. PICK ts \in Timestamp :
        meta = [q \in Peer |-> IF Running(q) THEN ScanMeta(q, ts) ELSE EmptyFolder]
  BY DEF PacedInit, Init
<1>2. f \in Path
  BY DEF Path
<1>3. meta[p][f] \in {None, [clock |-> NewClock, ts |-> ts]}
  BY <1>1, <1>2 DEF ScanMeta, EmptyFolder
<1> QED
  BY <1>3 DEF LocalClock

LEMMA InitRoundInv ==
  ASSUME TwoCarefulPeers, PacedInit PROVE RoundInv
<1>1. PacedTypeOK
  BY InitPacedTypes
<1>2. /\ round = 0 /\ phase = "sync" /\ edits = {} /\ gossip = {}
      /\ \A p \in Peer : /\ guard[p] = {} /\ raw[p] = <<>> /\ chan[p] = <<>>
                         /\ inbox[p] = {} /\ fetches[p] = {} /\ unindex[p] = {}
  BY DEF PacedInit, Init
<1>3. AllUp
  BY DEF AllUp, PacedInit, Init, TwoCarefulPeers, OpenGroup
<1>4. \A p \in Peer : \A kind, x : ~Waits(p, kind, x)
  BY <1>2, EmptyQueue DEF Waits
<1>5. OneEdit /\ Working /\ Begun /\ Authors /\ NoRemovals /\ NoChanges
  BY <1>2, <1>4 DEF OneEdit, Working, Begun, Authors, NoRemovals, NoChanges
<1>6. Echoes /\ ToldOnce /\ OneNews /\ Safe /\ Forgets
  BY <1>2, EmptyQueue DEF Echoes, ToldOnce, OneNews, Safe, Forgets
<1>7. Ahead
  BY <1>2 DEF Ahead, Wrote
<1>8. Own
  <2>1. \A p, q \in Peer, f \in File : LocalClock(p, f)[q] = 0
    BY StartClocks DEF NewClock
  <2> QED
    BY <1>2, <2>1 DEF Own, Bounded, Count
<1> QED
  BY <1>1, <1>3, <1>5, <1>6, <1>7, <1>8 DEF RoundInv

LEMMA RoundInvKept ==
  ASSUME TwoCarefulPeers, RoundInv, [PacedNext]_<<vars, pacedVars>> PROVE RoundInv'
<1>1. PacedTypeOK'
  BY PacedStepTypes, SameVarsTypes DEF RoundInv, PacedTypeOK, pacedVars
<1>2. RoundStep
  BY Steps
<1> QED
  BY <1>1, <1>2, KeepsGroup, KeepsOneEdit, KeepsWorking, KeepsBegun, KeepsAuthors,
     KeepsNoRemovals, KeepsNoChanges, KeepsEchoes, KeepsOwn, KeepsToldOnce, KeepsAhead,
     KeepsOneNews, KeepsSafe, KeepsForgets DEF RoundInv

LEMMA SafeKeepsEdits == RoundInv => EditKept
BY DEF RoundInv, Safe, Stands, Saved, EditKept

\* In a group of two who share their whole folders, and whose users edit between the
\* rounds, each file once and none that is being deleted, what a user wrote stays
\* on the user's machine: in the file, or in the copy made before the other's
\* version was fetched.  The clocks of the machines need not agree, and the
\* debounce window need not be waited for.
THEOREM EditsKept ==
  ASSUME Careful, OpenGroup, TwoPeers, CopiesApart
  PROVE  PacedSpec => []EditKept
<1>1. TwoCarefulPeers
  BY DEF TwoCarefulPeers
<1>2. PacedInit => RoundInv
  BY <1>1, InitRoundInv
<1>3. RoundInv /\ [PacedNext]_<<vars, pacedVars>> => RoundInv'
  BY <1>1, RoundInvKept
<1>4. RoundInv => EditKept
  BY SafeKeepsEdits
<1> QED
  BY <1>2, <1>3, <1>4, PTL DEF PacedSpec

-----------------------------------------------------------------------------
(* Two careful peers, whose files are alike *)

\* Every version of every file has the same size, within the limits of a transfer: a
\* shorter version does not replace a longer one.
OneSize ==
  \A c, d \in Written :
    Len(c) = Len(d) /\ Len(c) <= MaxChunkIndex /\ Len(c) <= MaxFileSize

\* Each peer has another, and a connection to it.
Linked ==
  /\ \A p \in Peer : \E q \in Peer : q # p
  /\ \A p, q \in Peer : <<p, q>> \in Link <=> p # q

\* At the start a file may be missing in a folder, unless the peers have reconciled,
\* and is otherwise the same in all.
OneVersion ==
  \A d \in InitDisks, p, q \in Peer, f \in File :
    /\ d[p][f] = None \/ d[q][f] = None \/ d[p][f] = d[q][f]
    /\ <<p, q>> \in InitMet /\ d[q][f] # None => d[p][f] # None

AlikePeers == TwoCarefulPeers /\ OneSize /\ Linked /\ OneVersion

-----------------------------------------------------------------------------
(* The inductive invariant of convergence *)

\* No transfer makes up a content.
Sized == \A p \in Peer, f \in File : disk[p][f] # None => disk[p][f] \in Written

\* The index knows what is on disk, or is about to.
Follows(p, f) ==
  \/ tree[p][f] = disk[p][f]
  \/ phase = "edit" /\ (Waits(p, "changed", f) \/ Waits(p, "removed", f))
  \/ \E g \in fetches[p] : g.path = f /\ g.pc = "index"
  \/ \E note \in unindex[p] : note.path = f

IndexFollows == \A p \in Peer, f \in File : Follows(p, f)

\* Before the first round nothing was announced.
Blank ==
  round = 0 =>
    /\ gossip = {}
    /\ \A p \in Peer :
         /\ inbox[p] = {} /\ unindex[p] = {}
         /\ \A f \in File : LocalClock(p, f) = NewClock
         /\ \A g \in fetches[p] : g.clock = NewClock

Holds(p, f) == disk[p][f] # None /\ tree[p][f] = disk[p][f]

Pulls(p, f) ==
  (\E r \in recon[p] : f \in r.todo) \/ (\E g \in fetches[p] : g.path = f)

\* The fetch g brings q what p has in f.
Brings(g, p, q, f) ==
  /\ g.source = p
  /\ g.n = Len(disk[p][f])
  /\ g.pc # "request" => g.data = disk[p][f]
  /\ g.pc = "index" => disk[q][f] = disk[p][f]

\* The reconciliation r will find f in the tree of its source, or has.
Looks(r, f) ==
  \/ r.pc \in {"root", "tree"}
  \/ r.pc \in {"compare", "diff"} /\ r.tree[f] # None

Asks(p, q, f) == <<p, q>> \notin met \/ Pulls(p, f) \/ \E r \in recon[p] : Looks(r, f)

\* Before the first round a file is pulled by a peer that lacks it from one that holds
\* it, and by nobody else.
Meets(p, q, f) ==
  /\ disk[p][f] = None \/ disk[q][f] = None \/ disk[p][f] = disk[q][f]
  /\ tree[p][f] # None => Holds(p, f)
  /\ Pulls(p, f) => Holds(q, f) /\ ~Pulls(q, f)
  /\ \A g \in fetches[p] : g.path = f => Brings(g, q, p, f)
  /\ \A r \in recon[p] : /\ r.source = q
                         /\ r.tree[f] # None => Holds(q, f) /\ r.tree[f] = disk[q][f]
  /\ Holds(q, f) => Holds(p, f) \/ Asks(p, q, f)

Meeting == round = 0 => \A p, q \in Peer, f \in File : p # q => Meets(p, q, f)

\* What is taken for removed is.
Emptied ==
  \A p \in Peer, f \in File :
    Waits(p, "removed", f) \/ (\E note \in unindex[p] : note.path = f) => disk[p][f] = None

\* p has no longer the file that e removed, or will hear of it.
Loses(p, e) ==
  \/ disk[p][e.file] = None
  \/ phase = "edit" /\ p # e.peer /\ Waits(e.peer, "removed", e.file)
  \/ \E m \in gossip : About(m.note, "deleted", e.file) /\ p \notin m.has
  \/ \E d \in inbox[p] : About(d.note, "deleted", e.file)

\* A removal reaches every folder.
Vanishes == \A e \in edits : e.left = None => \A p \in Peer : Loses(p, e)

\* p has announced its change of f.
Told(p, f) == Wrote(p, f) /\ (phase = "edit" => ~Waits(p, "changed", f))

\* A version of a round before, or of this one when its edits are over.
Past(ts, q) == ts < Now(q) \/ (phase = "sync" /\ ts = Now(q))

\* p has seen all that q has.  If it has seen more, that was lost to a version of q,
\* which has not learnt of the conflict and whose time p took over.
Covers(p, q, f) ==
  /\ Dominates(LocalClock(p, f), LocalClock(q, f))
  /\ LocalClock(p, f) # LocalClock(q, f) => Past(LocalTs(p, f), q)

\* A round starts with one version of a file, and with clocks that are ordered.
Untouched ==
  round > 0 =>
    \A f \in File : ~Gone(f) =>
      \A p, q \in Peer :
        /\ ~Wrote(p, f) /\ ~Wrote(q, f) => disk[p][f] = disk[q][f]
        /\ p # q /\ ~Told(p, f) /\ ~Told(q, f) => Covers(p, q, f) \/ Covers(q, p, f)

\* A change that is announced is one of this round.
Timely(note) ==
  note.kind = "changed" => Wrote(note.peer, note.path) /\ note.ts = Now(note.peer)

Dated ==
  round > 0 =>
    /\ \A m \in gossip : Timely(m.note)
    /\ \A p \in Peer : \A d \in inbox[p] : Timely(d.note)

\* The notification is of what p has in f.
Conveys(note, p, f) ==
  /\ About(note, "changed", f) /\ note.peer = p
  /\ note.clock = LocalClock(p, f) /\ note.ts = LocalTs(p, f) /\ note.data = disk[p][f]

\* The change of p is newer than what the other peer has, or is later.
Newer(p, f) ==
  \A q \in Peer : q # p /\ ~Told(q, f) =>
    Dominates(LocalClock(p, f), LocalClock(q, f)) \/ LocalTs(q, f) < Now(p)

Published ==
  phase = "edit" =>
    \A p \in Peer, f \in File : Told(p, f) =>
      /\ disk[p][f] # None /\ LocalTs(p, f) = Now(p)
      /\ \E m \in gossip : Conveys(m.note, p, f) /\ m.has = {p}
      /\ Newer(p, f)

\* Of what was written in f this round the version of p stays.
Prevails(p, f) ==
  Wrote(p, f) /\ \A q \in Peer : q # p /\ Wrote(q, f) => RemoteWins(Now(q), Now(p), p, q)

\* q takes the version of p when it hears of it.
GivesWay(p, q, f) ==
  /\ LocalClock(q, f)[p] < LocalClock(p, f)[p]
  /\ \/ Dominates(LocalClock(p, f), LocalClock(q, f))
     \/ RemoteWins(LocalTs(q, f), LocalTs(p, f), p, q)

Hears(p, q, f) ==
  \/ \E m \in gossip : Conveys(m.note, p, f) /\ m.has = {p}
  \/ \E d \in inbox[q] : Conveys(d.note, p, f) /\ d.source = p

Fetching(p, q, f) ==
  \E g \in fetches[q] :
    /\ g.path = f /\ Brings(g, p, q, f)
    /\ g.clock = LocalClock(p, f) /\ g.ts = LocalTs(p, f)

HasTaken(p, q, f) ==
  /\ disk[q][f] = disk[p][f] /\ Covers(q, p, f)
  /\ News(q, f) = {} /\ Mail(q, f) = {} /\ \A g \in fetches[q] : g.path # f

Takes(p, q, f) ==
  \/ GivesWay(p, q, f) /\ Hears(p, q, f)
  \/ Fetching(p, q, f)
  \/ HasTaken(p, q, f)

\* It stays as it is, and every other peer will take it, or has.
Remains(p, f) ==
  disk[p][f] # None /\ LocalTs(p, f) = Now(p) /\ \A g \in fetches[p] : g.path # f

Decided ==
  round > 0 /\ phase = "sync" =>
    \A p \in Peer, f \in File : Prevails(p, f) =>
      Remains(p, f) /\ \A q \in Peer : q # p => Takes(p, q, f)

\* What a user left stands while users work, and the version that stays until the end.
Standing ==
  \A e \in edits :
    phase = "edit" \/ Prevails(e.peer, e.file) => disk[e.peer][e.file] = e.left

AgreeInv ==
  /\ RoundInv
  /\ Sized /\ IndexFollows /\ Blank /\ Meeting
  /\ Emptied /\ Vanishes
  /\ Untouched /\ Dated /\ Published /\ Decided /\ Standing

-----------------------------------------------------------------------------
(* What a step does to a file *)

LEMMA TreeDomain ==
  ASSUME PacedTypeOK PROVE tree \in [Peer -> [Path -> Content \cup {None}]]
BY DEF PacedTypeOK, TypeOK, IndexType, Folder

LEMMA FileIsPath == File \subseteq Path
BY DEF Path

SameAt(q, f) ==
  disk'[q][f] = disk[q][f] /\ tree'[q][f] = tree[q][f] /\ meta'[q][f] = meta[q][f]

SameFile(f) == \A q \in Peer : SameAt(q, f)

LEMMA FileOfStep ==
  ASSUME PacedTypeOK, NEW r \in Peer, EngineStep(r), NEW f \in File
  PROVE  \/ SameFile(f)
         \/ \E note \in Note : Tells(r, f, note) \/ TellsRemoval(r, f, note)
         \/ \E d \in inbox[r] : Removes(r, d) /\ d.note.path = f
         \/ \E note \in unindex[r] : Forgetting(r, note) /\ note.path = f
         \/ \E g \in fetches[r], h \in Fetch : Writing(r, g, h) /\ g.path = f
         \/ \E g \in fetches[r] : Ends(r, g) /\ Learns(r, g) /\ g.path = f
<1> USE Domains, TreeDomain, FileIsPath
<1>1. CASE /\ UNCHANGED <<disk, tree, meta>>
  BY <1>1 DEF SameFile, SameAt
<1>2. ASSUME NEW x \in File, NEW note \in Note, Tells(r, x, note), x # f
      PROVE  SameFile(f)
  BY <1>2 DEF Tells, TellsContent, SameFile, SameAt, users
<1>3. ASSUME NEW x \in Path, NEW note \in Note, TellsRemoval(r, x, note), x # f
      PROVE  SameFile(f)
  BY <1>3 DEF TellsRemoval, Unlists, SameFile, SameAt, users
<1>4. ASSUME NEW d \in inbox[r], Removes(r, d), d.note.path # f
      PROVE  SameFile(f)
  <2>1. disk' = [disk EXCEPT ![r][d.note.path] = None] \/ UNCHANGED disk
    BY <1>4 DEF Removes
  <2>2. ASSUME NEW q \in Peer PROVE disk'[q][f] = disk[q][f]
    <3>1. disk'[q] = disk[q] \/ disk'[q] = [disk[q] EXCEPT ![d.note.path] = None]
      BY <2>1
    <3> QED
      BY <1>4, <3>1
  <2>3. UNCHANGED <<tree, meta>>
    BY <1>4 DEF Removes, SameTree
  <2> QED
    BY <2>2, <2>3 DEF SameFile, SameAt
<1>5. ASSUME NEW note \in unindex[r], Forgetting(r, note), note.path # f
      PROVE  SameFile(f)
  BY <1>5 DEF Forgetting, Unlists, SameFile, SameAt
<1>6. ASSUME NEW g \in fetches[r], NEW h \in Fetch, Writing(r, g, h), g.path # f
      PROVE  SameFile(f)
  BY <1>6 DEF Writing, Proceeds, SameRequest, SameTree, SameFile, SameAt
<1>7. ASSUME NEW g \in fetches[r], Ends(r, g), Learns(r, g), g.path # f
      PROVE  SameFile(f)
  BY <1>7 DEF Ends, Learns, GivesUp, SameTree, SameFile, SameAt
<1>8. ASSUME NEW g \in fetches[r], Ends(r, g), ~Learns(r, g)
      PROVE  SameFile(f)
  BY <1>8 DEF Ends, GivesUp, SameTree, SameFile, SameAt
<1>9. ASSUME NEW d \in inbox[r], NEW h \in Fetch, FetchesOver(r, d, h)
      PROVE  SameFile(f)
  <2> DEFINE b == ConflictName[<<d.note.path, r>>]
  <2>1. b # f
    BY <1>9, PathAssumption DEF FetchesOver, Fetches
  <2>2. UNCHANGED <<tree, meta>>
    BY <1>9 DEF FetchesOver, Fetches, AsksFor, Decides, SameTree
  <2>3. disk' = [disk EXCEPT ![r][b] = disk[r][h.path]] \/ UNCHANGED disk
    BY <1>9 DEF FetchesOver
  <2> HIDE DEF b
  <2>4. ASSUME NEW q \in Peer PROVE disk'[q][f] = disk[q][f]
    <3>1. disk'[q] = disk[q] \/ disk'[q] = [disk[q] EXCEPT ![b] = disk[r][h.path]]
      BY <2>3
    <3> QED
      BY <2>1, <3>1
  <2> QED
    BY <2>2, <2>4 DEF SameFile, SameAt
<1>10. CASE \/ Drops(r) \/ Moves(r) \/ Skips(r) \/ Reconciles(r)
            \/ \E m \in gossip, d \in Delivery : Arrives(r, m, d)
            \/ \E d \in inbox[r] : \/ Refuses(r, d)
                                   \/ \E h \in Fetch : FetchesBeside(r, d, h)
            \/ \E g \in fetches[r], h \in Fetch : Loading(r, g, h)
  BY <1>1, <1>10 DEF Drops, Moves, Skips, Reconciles, Arrives, Through, Refuses, FetchesBeside,
     Fetches, AsksFor, Decides, Loading, Proceeds, SameRequest, SameTree, users
<1> QED
  BY <1>2, <1>3, <1>4, <1>5, <1>6, <1>7, <1>8, <1>9, <1>10 DEF EngineStep

\* A step of one engine leaves the folder and the index of every other alone.
LEMMA OthersKept ==
  ASSUME PacedTypeOK, NEW r \in Peer, EngineStep(r), NEW f \in File, NEW q \in Peer, q # r
  PROVE  SameAt(q, f)
<1> USE Domains, TreeDomain, FileIsPath
<1>1. CASE \E note \in Note : Tells(r, f, note) \/ TellsRemoval(r, f, note)
  BY <1>1 DEF Tells, TellsContent, TellsRemoval, Unlists, SameAt
<1>2. CASE \E d \in inbox[r] : Removes(r, d)
  BY <1>2 DEF Removes, SameTree, SameAt
<1>3. CASE \E note \in unindex[r] : Forgetting(r, note)
  BY <1>3 DEF Forgetting, Unlists, SameAt
<1>4. CASE \E g \in fetches[r], h \in Fetch : Writing(r, g, h)
  BY <1>4 DEF Writing, Proceeds, SameRequest, SameTree, SameAt
<1>5. CASE \E g \in fetches[r] : Ends(r, g) /\ Learns(r, g)
  BY <1>5 DEF Ends, Learns, GivesUp, SameTree, SameAt
<1> QED
  BY <1>1, <1>2, <1>3, <1>4, <1>5, FileOfStep DEF SameFile

LEMMA SameLocal ==
  ASSUME NEW q, NEW f, meta'[q][f] = meta[q][f]
  PROVE  LocalClock(q, f)' = LocalClock(q, f) /\ LocalTs(q, f)' = LocalTs(q, f)
BY DEF LocalClock, LocalTs

-----------------------------------------------------------------------------
(* What becomes of notifications, tasks and fetches *)

LEMMA NewsStays ==
  ASSUME PacedTypeOK, NEW r \in Peer, EngineStep(r), NEW m \in gossip
  PROVE  m \in gossip' \/ \E d \in Delivery : Arrives(r, m, d)
<1> USE DEF users, queues, tasks, windowVars
<1>1. ASSUME NEW w \in gossip, NEW d \in Delivery, Arrives(r, w, d)
      PROVE  m \in gossip' \/ Arrives(r, m, d)
  BY <1>1 DEF Arrives
<1>2. ASSUME gossip \subseteq gossip'
      PROVE  m \in gossip'
  BY <1>2
<1>3. CASE \/ \E f \in File, note \in Note : Tells(r, f, note)
           \/ \E x \in Path, note \in Note : TellsRemoval(r, x, note)
  BY <1>3 DEF Tells, TellsRemoval
<1> QED
  BY <1>1, <1>2, <1>3 DEF EngineStep, Drops, Moves, Skips, Reconciles, Refuses, Removes,
     FetchesBeside, FetchesOver, Fetches, Ends, Loading, Writing, Proceeds, Forgetting

LEMMA MailStays ==
  ASSUME PacedTypeOK, NEW r \in Peer, EngineStep(r), NEW q \in Peer, NEW d \in inbox[q]
  PROVE  \/ d \in inbox'[q]
         \/ q = r /\ \/ Refuses(r, d) \/ Removes(r, d)
                     \/ \E h \in Fetch : FetchesBeside(r, d, h) \/ FetchesOver(r, d, h)
<1> USE Domains DEF users, queues, tasks, windowVars
<1>1. ASSUME NEW m \in gossip, NEW w \in Delivery, Arrives(r, m, w)
      PROVE  d \in inbox'[q]
  BY <1>1 DEF Arrives
<1>2. ASSUME NEW w \in inbox[r], inbox' = [inbox EXCEPT ![r] = @ \ {w}]
      PROVE  d \in inbox'[q] \/ (q = r /\ d = w)
  BY <1>2
<1>3. ASSUME NEW w \in inbox[r], Refuses(r, w) \/ Removes(r, w)
      PROVE  d \in inbox'[q] \/ (q = r /\ (Refuses(r, d) \/ Removes(r, d)))
  BY <1>2, <1>3 DEF Refuses, Removes
<1>4. ASSUME NEW w \in inbox[r], NEW h \in Fetch, FetchesBeside(r, w, h) \/ FetchesOver(r, w, h)
      PROVE  d \in inbox'[q] \/ (q = r /\ (FetchesBeside(r, d, h) \/ FetchesOver(r, d, h)))
  BY <1>2, <1>4 DEF FetchesBeside, FetchesOver, Fetches
<1>5. CASE inbox' = inbox
  BY <1>5
<1> QED
  BY <1>1, <1>3, <1>4, <1>5 DEF EngineStep, Drops, Moves, Skips, Tells, TellsRemoval, Reconciles,
     Ends, Loading, Writing, Proceeds, Forgetting

LEMMA MeetingFetches ==
  ASSUME PacedTypeOK, NEW r \in Peer, Reconciles(r), NEW q \in Peer
  PROVE  fetches[q] \subseteq fetches'[q]
<1> USE Domains
<1>1. CASE fetches' = fetches
  BY <1>1
<1>2. ASSUME NEW s, NEW x, NEW ts, FetchNext(r, s, x, ts)
      PROVE  fetches[q] \subseteq fetches'[q]
  BY <1>2 DEF FetchNext
<1> QED
  BY <1>1, <1>2 DEF Reconciles, Compares, Discover, ServeRootHash, CompareRoots, ServeTree,
     DiffTrees, ReconcileComplete

LEMMA FetchStays ==
  ASSUME PacedTypeOK, NEW r \in Peer, EngineStep(r), NEW q \in Peer, NEW g \in fetches[q]
  PROVE  \/ g \in fetches'[q]
         \/ q = r /\ (Ends(r, g) \/ \E h \in Fetch : Loading(r, g, h) \/ Writing(r, g, h))
<1> USE Domains DEF users, queues, tasks, windowVars
<1>1. ASSUME NEW d \in inbox[r], NEW h \in Fetch, FetchesBeside(r, d, h) \/ FetchesOver(r, d, h)
      PROVE  g \in fetches'[q]
  <2>1. fetches' = [fetches EXCEPT ![r] = @ \cup {h}]
    BY <1>1 DEF FetchesBeside, FetchesOver, Fetches
  <2> QED
    BY <2>1
<1>2. ASSUME NEW w \in fetches[r], NEW h \in Fetch, Loading(r, w, h) \/ Writing(r, w, h)
      PROVE  g \in fetches'[q] \/ (q = r /\ (Loading(r, g, h) \/ Writing(r, g, h)))
  <2>1. fetches' = [fetches EXCEPT ![r] = (@ \ {w}) \cup {h}]
    BY <1>2 DEF Loading, Writing, Proceeds
  <2>2. g \in fetches'[q] \/ (q = r /\ g = w)
    BY <2>1
  <2> QED
    BY <1>2, <2>2
<1>3. ASSUME NEW w \in fetches[r], Ends(r, w)
      PROVE  g \in fetches'[q] \/ (q = r /\ Ends(r, g))
  <2>1. fetches' = [fetches EXCEPT ![r] = @ \ {w}]
    BY <1>3 DEF Ends
  <2>2. g \in fetches'[q] \/ (q = r /\ g = w)
    BY <2>1
  <2> QED
    BY <1>3, <2>2
<1>4. CASE Reconciles(r)
  BY <1>4, MeetingFetches
<1>5. CASE fetches' = fetches
  BY <1>5
<1> QED
  BY <1>1, <1>2, <1>3, <1>4, <1>5 DEF EngineStep, Drops, Moves, Skips, Tells, TellsRemoval,
     Arrives, Refuses, Removes, Forgetting

LEMMA UnindexStays ==
  ASSUME PacedTypeOK, NEW r \in Peer, EngineStep(r), NEW q \in Peer, NEW note \in unindex[q]
  PROVE  note \in unindex'[q] \/ (q = r /\ Forgetting(r, note))
<1> USE Domains DEF users, queues, tasks, windowVars
<1>1. ASSUME NEW d \in inbox[r], Removes(r, d)
      PROVE  note \in unindex'[q]
  BY <1>1 DEF Removes
<1>2. ASSUME NEW w \in unindex[r], Forgetting(r, w)
      PROVE  note \in unindex'[q] \/ (q = r /\ Forgetting(r, note))
  <2>1. unindex' = [unindex EXCEPT ![r] = @ \ {w}]
    BY <1>2 DEF Forgetting
  <2>2. note \in unindex'[q] \/ (q = r /\ note = w)
    BY <2>1
  <2> QED
    BY <1>2, <2>2
<1>3. CASE unindex' = unindex
  BY <1>3
<1> QED
  BY <1>1, <1>2, <1>3 DEF EngineStep, Drops, Moves, Skips, Tells, TellsRemoval, Arrives, Reconciles,
     Refuses, FetchesBeside, FetchesOver, Fetches, Ends, Loading, Writing, Proceeds

\* A step of an engine in a file that no user removed.
LEMMA KeptFile ==
  ASSUME RoundInv, NEW r \in Peer, EngineStep(r), NEW f \in File, ~Gone(f)
  PROVE  \/ SameFile(f)
         \/ \E note \in Note : Tells(r, f, note)
         \/ \E g \in fetches[r], h \in Fetch : Writing(r, g, h) /\ g.path = f
         \/ \E g \in fetches[r] : Ends(r, g) /\ Learns(r, g) /\ g.path = f
<1>0. PacedTypeOK /\ NoRemovals /\ f \in Path
  BY DEF RoundInv, Path
<1>1. ASSUME NEW note \in Note, TellsRemoval(r, f, note)
      PROVE  FALSE
  <2>1. Waits(r, "removed", f)
    BY <1>0, <1>1, Domains, EventShape DEF TellsRemoval, Waits
  <2> QED
    BY <1>0, <2>1 DEF NoRemovals
<1>2. ~\E d \in inbox[r] : Removes(r, d) /\ d.note.path = f
  BY <1>0 DEF NoRemovals, Removes, About
<1>3. ~\E note \in unindex[r] : Forgetting(r, note) /\ note.path = f
  BY <1>0 DEF NoRemovals
<1> QED
  BY <1>0, <1>1, <1>2, <1>3, FileOfStep

-----------------------------------------------------------------------------
(* Who wins, and what a fetch brings *)

LEMMA NowTypes ==
  ASSUME PacedTypeOK
  PROVE  \A p \in Peer : Now(p) \in Nat
BY NowIsNat

LEMMA Winner ==
  ASSUME TwoPeers, PacedTypeOK, NEW f \in File, NEW q \in Peer, Wrote(q, f)
  PROVE  \E p \in Peer : Prevails(p, f)
<1>1. CASE \A o \in Peer : o # q /\ Wrote(o, f) => RemoteWins(Now(o), Now(q), q, o)
  BY <1>1 DEF Prevails
<1>2. ASSUME NEW o \in Peer, o # q, Wrote(o, f), ~RemoteWins(Now(o), Now(q), q, o)
      PROVE  Prevails(o, f)
  <2>1. Now(o) \in Nat /\ Now(q) \in Nat
    BY NowTypes
  <2>2. RemoteWins(Now(q), Now(o), o, q)
    BY <1>2, <2>1, OneWinner
  <2> QED
    BY <1>2, <2>2 DEF Prevails, TwoPeers
<1> QED
  BY <1>1, <1>2

LEMMA OnePrevails ==
  ASSUME PacedTypeOK, NEW f \in File, NEW p \in Peer, NEW q \in Peer,
         Prevails(p, f), Wrote(q, f), q # p
  PROVE  ~RemoteWins(Now(p), Now(q), q, p)
<1>1. Now(p) \in Nat /\ Now(q) \in Nat
  BY NowTypes
<1> QED
  BY <1>1, OneWinner DEF Prevails

\* What is fetched is what another peer holds; once a round has begun, of the peer
\* whose version stays.
LEMMA FetchBrings ==
  ASSUME AlikePeers, AgreeInv, NEW r \in Peer, NEW g \in fetches[r], g.path \in File
  PROVE  \E q \in Peer :
           /\ q # r /\ Brings(g, q, r, g.path) /\ disk[q][g.path] # None
           /\ round = 0 => Holds(q, g.path) /\ Pulls(r, g.path)
           /\ round > 0 => /\ Prevails(q, g.path)
                           /\ g.clock = LocalClock(q, g.path) /\ g.ts = LocalTs(q, g.path)
<1> DEFINE f == g.path
<1>0. round \in Nat /\ phase \in {"edit", "sync"} /\ PacedTypeOK
  BY Domains DEF AgreeInv, RoundInv
<1>1. CASE round = 0
  <2>1. PICK q \in Peer : q # r
    BY DEF AlikePeers, Linked
  <2>2. Pulls(r, f)
    BY DEF Pulls
  <2>3. Holds(q, f) /\ Brings(g, q, r, f)
    BY <1>1, <2>1, <2>2 DEF AgreeInv, Meeting, Meets
  <2> QED
    BY <1>0, <1>1, <2>1, <2>2, <2>3 DEF Holds
<1>2. CASE round > 0
  <2>1. phase = "sync"
    BY <1>0 DEF AgreeInv, RoundInv, Working
  <2>2. PICK w \in Peer : Wrote(w, f)
    BY <1>2 DEF AgreeInv, RoundInv, NoChanges
  <2>3. PICK q \in Peer : Prevails(q, f)
    BY <1>0, <2>2, Winner DEF AlikePeers, TwoCarefulPeers
  <2>4. /\ disk[q][f] # None /\ \A h \in fetches[q] : h.path # f
        /\ \A o \in Peer : o # q => Takes(q, o, f)
    BY <1>2, <2>1, <2>3 DEF AgreeInv, Decided, Remains
  <2>5. q # r
    BY <2>4
  <2>6. g \in Loads(r, f)
    BY DEF Loads
  <2>7. /\ AtMostOne(Loads(r, f)) /\ News(r, f) = {} /\ Mail(r, f) = {}
    BY <1>2, <2>6 DEF AgreeInv, RoundInv, OneNews
  <2>8. ~Hears(q, r, f)
    BY <2>5, <2>7 DEF Hears, News, Mail, Conveys
  <2>9. Fetching(q, r, f)
    BY <2>4, <2>5, <2>8 DEF Takes, HasTaken
  <2>10. PICK h \in fetches[r] : /\ h.path = f /\ Brings(h, q, r, f)
                                 /\ h.clock = LocalClock(q, f) /\ h.ts = LocalTs(q, f)
    BY <2>9 DEF Fetching
  <2>11. h = g
    BY <2>6, <2>7, <2>10 DEF Loads, AtMostOne
  <2> QED
    BY <1>0, <1>2, <2>3, <2>4, <2>5, <2>10, <2>11
<1> QED
  BY <1>0, <1>1, <1>2

\* A transfer of a version over one that is not longer, within the limits.
LEMMA Transfers ==
  ASSUME NEW c \in Content, Len(c) <= MaxChunkIndex
  PROVE  /\ Served(c, Len(c)) = c
         /\ \A b \in Content : Len(b) <= Len(c) => Overlay(b, c) = c
<1>0. Len(c) \in Nat /\ c \in [1 .. Len(c) -> Chunk]
  BY DEF Content
<1>1. Served(c, Len(c)) = c
  <2>1. Served(c, Len(c)) = SubSeq(c, 1, Len(c))
    BY <1>0 DEF Served
  <2> QED
    BY <1>0, <2>1 DEF Content
<1>2. ASSUME NEW b \in Content, Len(b) <= Len(c)
      PROVE  Overlay(b, c) = c
  <2>1. Len(b) \in Nat
    BY DEF Content
  <2>2. (IF Len(b) > Len(c) THEN Len(b) ELSE Len(c)) = Len(c)
    BY <1>0, <1>2, <2>1
  <2>3. Overlay(b, c) = [i \in 1 .. Len(c) |-> IF i <= Len(c) THEN c[i] ELSE b[i]]
    BY <2>2 DEF Overlay
  <2>4. [i \in 1 .. Len(c) |-> IF i <= Len(c) THEN c[i] ELSE b[i]] = [i \in 1 .. Len(c) |-> c[i]]
    BY <1>0
  <2> QED
    BY <1>0, <2>3, <2>4
<1> QED
  BY <1>1, <1>2

LEMMA WrittenContents == Written \subseteq Content
<1>1. ASSUME NEW d \in InitDisks, NEW p \in Peer, NEW x \in Path, d[p][x] # None
      PROVE  d[p][x] \in Content
  BY <1>1, InitAssumption DEF Folder
<1> QED
  BY <1>1, ContentAssumption DEF Written

\* Contents that are on disk are transferred as they are.
LEMMA Alike ==
  ASSUME AlikePeers, AgreeInv, NEW q \in Peer, NEW r \in Peer, NEW f \in File,
         disk[q][f] # None
  PROVE  /\ disk[q][f] \in Content
         /\ Served(disk[q][f], Len(disk[q][f])) = disk[q][f]
         /\ Overlay(ReadOrEmpty(disk[r][f]), disk[q][f]) = disk[q][f]
         /\ ~(Len(disk[q][f]) > MaxFileSize)
<1> DEFINE c == disk[q][f]
           b == ReadOrEmpty(disk[r][f])
<1>1. c \in Written /\ (disk[r][f] # None => disk[r][f] \in Written)
  BY DEF AgreeInv, Sized
<1>2. Len(c) <= MaxChunkIndex /\ Len(c) <= MaxFileSize /\ c \in Content
  BY <1>1, WrittenContents DEF AlikePeers, OneSize
<1>3. b \in Content /\ Len(b) <= Len(c)
  <2>1. CASE disk[r][f] = None
    BY <1>2, <2>1 DEF ReadOrEmpty, Content
  <2>2. CASE disk[r][f] # None
    <3>1. b = disk[r][f] /\ b \in Content /\ Len(b) = Len(c)
      BY <1>1, <2>2, WrittenContents DEF ReadOrEmpty, AlikePeers, OneSize
    <3> QED
      BY <1>2, <3>1 DEF Content
  <2> QED
    BY <2>1, <2>2
<1>4. Len(c) \in Nat
  BY <1>2 DEF Content
<1> HIDE DEF c, b
<1>5. Served(c, Len(c)) = c /\ Overlay(b, c) = c
  BY <1>2, <1>3, Transfers
<1> QED
  BY <1>2, <1>4, <1>5, BoundAssumption DEF c, b

\* A fetch that goes on brings the same.
LEMMA LoadingBrings ==
  ASSUME AlikePeers, AgreeInv, NEW r \in Peer, NEW g \in fetches[r], NEW h \in Fetch,
         Loading(r, g, h), NEW f \in File, g.path = f,
         NEW q \in Peer, Brings(g, q, r, f), disk[q][f] # None
  PROVE  Brings(h, q, r, f)'
<1>1. /\ h.source = q /\ h.n = Len(disk[q][f]) /\ UNCHANGED disk
  BY DEF Loading, Proceeds, SameRequest, Brings
<1>2. /\ Served(disk[q][f], Len(disk[q][f])) = disk[q][f]
      /\ Overlay(ReadOrEmpty(disk[r][f]), disk[q][f]) = disk[q][f]
  BY Alike
<1>3. h.data = disk[q][f] /\ h.pc # "index"
  <2>1. CASE g.pc = "request" /\ h.pc = "assemble" /\ h.data = Served(disk[g.source][g.path], g.n)
    BY <1>2, <2>1 DEF Brings
  <2>2. CASE /\ g.pc = "assemble" /\ h.pc = "write"
             /\ h.data = Overlay(ReadOrEmpty(disk[r][g.path]), g.data)
    BY <1>2, <2>2 DEF Brings
  <2> QED
    BY <2>1, <2>2 DEF Loading, LoadsData
<1> QED
  BY <1>1, <1>3 DEF Brings

LEMMA WritingBrings ==
  ASSUME AlikePeers, AgreeInv, NEW r \in Peer, NEW g \in fetches[r], NEW h \in Fetch,
         Writing(r, g, h), NEW f \in File, g.path = f,
         NEW q \in Peer, q # r, Brings(g, q, r, f), disk[q][f] # None
  PROVE  /\ disk'[r][f] = disk[q][f] /\ disk'[q] = disk[q]
         /\ h.pc = "index" /\ Brings(h, q, r, f)'
<1>1. disk' = [disk EXCEPT ![r][f] = g.data] /\ g.pc = "write" /\ h.pc = "index" /\ h.data = g.data
  BY DEF Writing, WritesData
<1>2. g.data = disk[q][f] /\ h.source = q /\ h.n = Len(disk[q][f])
  BY <1>1 DEF Brings, Writing, Proceeds, SameRequest
<1>3. disk \in [Peer -> [Path -> Content \cup {None}]] /\ f \in Path
  BY Domains DEF AgreeInv, RoundInv, Path
<1>4. disk'[r][f] = disk[q][f] /\ disk'[q] = disk[q]
  BY <1>1, <1>2, <1>3
<1> QED
  BY <1>1, <1>2, <1>4 DEF Brings

LEMMA EndBrings ==
  ASSUME AlikePeers, AgreeInv, NEW r \in Peer, NEW g \in fetches[r], Ends(r, g),
         NEW f \in File, g.path = f,
         NEW q \in Peer, Brings(g, q, r, f), disk[q][f] # None
  PROVE  /\ UNCHANGED disk /\ disk[r][f] = disk[q][f]
         /\ tree' = [tree EXCEPT ![r][f] = disk[q][f]]
         /\ meta' = [meta EXCEPT ![r][f] = Applied(r, g)]
<1>1. ~(Len(disk[q][f]) > MaxFileSize)
  BY Alike
<1>2. ~GivesUp(r, g)
  BY <1>1 DEF GivesUp, Brings
<1>3. UNCHANGED disk /\ meta' = [meta EXCEPT ![r][g.path] = Applied(r, g)] /\ Learns(r, g)
  BY <1>2 DEF Ends
<1> QED
  BY <1>3 DEF Learns, Brings

-----------------------------------------------------------------------------
(* The invariant of convergence is kept, part by part *)

LEMMA KeepsSized ==
  ASSUME AlikePeers, AgreeInv, RoundStep PROVE Sized'
<1>0. Sized /\ PacedTypeOK
  BY DEF AgreeInv, RoundInv
<1>1. CASE UNCHANGED disk
  BY <1>0, <1>1 DEF Sized
<1>2. ASSUME NEW p \in Peer, NEW f \in File, NEW kind, NEW c \in Written \cup {None},
             Edits(p, f, kind, c)
      PROVE  Sized'
  BY <1>0, <1>2, Domains, FileIsPath DEF Edits, Sized
<1>3. ASSUME NEW r \in Peer, EngineStep(r), NEW p \in Peer, NEW f \in File, disk'[p][f] # None
      PROVE  disk'[p][f] \in Written
  <2>1. CASE disk'[p][f] = disk[p][f]
    BY <1>0, <1>3, <2>1 DEF Sized
  <2>2. CASE SameFile(f)
    BY <2>1, <2>2 DEF SameFile, SameAt
  <2>3. CASE p # r
    BY <1>0, <1>3, <2>1, <2>3, OthersKept DEF SameAt
  <2>4. CASE (\E note \in Note : Tells(r, f, note) \/ TellsRemoval(r, f, note))
             \/ (\E note \in unindex[r] : Forgetting(r, note))
             \/ \E g \in fetches[r] : Ends(r, g)
    BY <2>1, <2>4 DEF Tells, TellsRemoval, Forgetting, Ends
  <2>5. ASSUME p = r, NEW d \in inbox[r], Removes(r, d), d.note.path = f
        PROVE  disk'[p][f] = None \/ disk'[p][f] = disk[p][f]
    BY <1>0, <2>5, Domains, FileIsPath DEF Removes
  <2>6. ASSUME p = r, NEW g \in fetches[r], NEW h \in Fetch, Writing(r, g, h), g.path = f
        PROVE  disk'[p][f] \in Written
    <3>1. PICK q \in Peer : q # r /\ Brings(g, q, r, f) /\ disk[q][f] # None
      BY <2>6, FetchBrings
    <3>2. disk'[p][f] = disk[q][f]
      BY <2>6, <3>1, WritingBrings
    <3> QED
      BY <1>0, <3>1, <3>2 DEF Sized
  <2> QED
    BY <1>0, <1>3, <2>1, <2>2, <2>3, <2>4, <2>5, <2>6, FileOfStep
<1>4. ASSUME NEW p \in Peer, NEW f \in File, (\E v \in Content : Writes(p, f, v)) \/ Erases(p, f)
      PROVE  Sized'
  BY <1>2, <1>4 DEF Writes, Erases, Written
<1>5. CASE \E r \in Peer : EngineStep(r)
  BY <1>3, <1>5 DEF Sized
<1> QED
  BY <1>1, <1>4, <1>5 DEF RoundStep, Begins, Closes, Rests

LEMMA KeepsIndexFollows ==
  ASSUME AlikePeers, AgreeInv, RoundStep PROVE IndexFollows'
<1>0. IndexFollows /\ PacedTypeOK /\ Emptied /\ phase \in {"edit", "sync"}
  BY Domains DEF AgreeInv, RoundInv
<1>1. CASE Begins
  <2>1. /\ phase = "sync" /\ \A p \in Peer : fetches[p] = {} /\ unindex[p] = {}
        /\ UNCHANGED <<disk, tree>>
    BY <1>1 DEF Begins, Quiet, SameTree
  <2> QED
    BY <1>0, <2>1 DEF IndexFollows, Follows
<1>2. CASE Closes
  <2>1. /\ \A p \in Peer : \A kind, x : ~Waits(p, kind, x)
        /\ UNCHANGED <<disk, tree, fetches, unindex>>
    BY <1>2, EmptyQueue DEF Closes, Drained, Waits, SameTree, tasks
  <2> QED
    BY <1>0, <2>1 DEF IndexFollows, Follows
<1>3. CASE Rests
  BY <1>0, <1>3 DEF Rests, IndexFollows, Follows, Waits, SameTree, tasks, users, queues
<1>4. ASSUME NEW r \in Peer, NEW x \in File, NEW kind \in {"changed", "removed"}, NEW c,
             Edits(r, x, kind, c)
      PROVE  IndexFollows'
  <2>1. ASSUME NEW p \in Peer, NEW f \in File
        PROVE  \/ tree'[p][f] = disk'[p][f]
               \/ phase' = "edit" /\ (Waits(p, "changed", f)' \/ Waits(p, "removed", f)')
    <3>1. phase = "edit" /\ phase' = "edit" /\ UNCHANGED tree
          /\ fetches[p] = {} /\ unindex[p] = {}
      BY <1>4 DEF Edits, SameTree, AgreeInv, RoundInv, Working
    <3>2. CASE p = r /\ f = x
      BY <1>0, <1>4, <3>1, <3>2, EditEvents
    <3>3. CASE ~(p = r /\ f = x)
      <4>1. disk'[p][f] = disk[p][f]
        BY <1>0, <1>4, <3>3, Domains, FileIsPath DEF Edits
      <4>2. /\ Waits(p, "changed", f) => Waits(p, "changed", f)'
            /\ Waits(p, "removed", f) => Waits(p, "removed", f)'
        BY <1>0, <1>4, EditEvents
      <4> QED
        BY <1>0, <3>1, <4>1, <4>2 DEF IndexFollows, Follows
    <3> QED
      BY <3>2, <3>3
  <2> QED
    BY <2>1 DEF IndexFollows, Follows
<1>5. ASSUME NEW r \in Peer, EngineStep(r), NEW p \in Peer, NEW f \in File
      PROVE  Follows(p, f)'
  <2>0. UNCHANGED phase /\ f \in Path /\ tree \in [Peer -> [Path -> Content \cup {None}]]
    BY <1>0, <1>5, SameUsers, TreeDomain DEF Path
  <2>1. ASSUME NEW note \in Note, Tells(r, f, note), p = r
        PROVE  Follows(p, f)'
    BY <2>0, <2>1 DEF Tells, TellsContent, Follows
  <2>2. ASSUME NEW note \in Note, TellsRemoval(r, f, note), p = r
        PROVE  Follows(p, f)'
    <3>1. Waits(r, "removed", f)
      BY <1>0, <2>2, Domains, EventShape DEF TellsRemoval, Waits
    <3>2. disk'[r][f] = None /\ tree'[r][f] = None
      BY <1>0, <2>0, <2>2, <3>1 DEF TellsRemoval, Unlists, Emptied
    <3> QED
      BY <2>2, <3>2 DEF Follows
  <2>3. ASSUME NEW d \in inbox[r], Removes(r, d), d.note.path = f, p = r
        PROVE  Follows(p, f)'
    <3>1. d.note \in unindex'[r]
      BY <1>0, <2>3, Domains DEF Removes
    <3> QED
      BY <2>3, <3>1 DEF Follows
  <2>4. ASSUME NEW note \in unindex[r], Forgetting(r, note), note.path = f, p = r
        PROVE  Follows(p, f)'
    <3>1. disk'[r][f] = None /\ tree'[r][f] = None
      BY <1>0, <2>0, <2>4 DEF Forgetting, Unlists, Emptied
    <3> QED
      BY <2>4, <3>1 DEF Follows
  <2>5. ASSUME NEW g \in fetches[r], NEW h \in Fetch, Writing(r, g, h), g.path = f, p = r
        PROVE  Follows(p, f)'
    <3>1. h.pc = "index" /\ h.path = f /\ fetches' = [fetches EXCEPT ![r] = (@ \ {g}) \cup {h}]
      BY <2>5 DEF Writing, WritesData, Proceeds
    <3>2. h \in fetches'[r]
      BY <1>0, <3>1, Domains
    <3> QED
      BY <2>5, <3>1, <3>2 DEF Follows
  <2>6. ASSUME NEW g \in fetches[r], Ends(r, g), g.path = f, p = r
        PROVE  Follows(p, f)'
    <3>1. PICK q \in Peer : q # r /\ Brings(g, q, r, f) /\ disk[q][f] # None
      BY <2>6, FetchBrings
    <3>2. /\ UNCHANGED disk /\ disk[r][f] = disk[q][f]
          /\ tree' = [tree EXCEPT ![r][f] = disk[q][f]]
      BY <2>6, <3>1, EndBrings
    <3>3. tree'[r][f] = disk'[r][f]
      BY <2>0, <3>2
    <3> QED
      BY <2>6, <3>3 DEF Follows
  <2>7. CASE SameAt(p, f)
    <3>1. CASE tree[p][f] = disk[p][f]
      BY <2>7, <3>1 DEF SameAt, Follows
    <3>2. CASE phase = "edit" /\ (Waits(p, "changed", f) \/ Waits(p, "removed", f))
      <4>1. \/ Waits(p, "changed", f)' \/ Waits(p, "removed", f)'
            \/ p = r /\ \E note \in Note : Tells(r, f, note) \/ TellsRemoval(r, f, note)
        BY <1>0, <1>5, <3>2, EventStays
      <4> QED
        BY <2>0, <2>1, <2>2, <3>2, <4>1 DEF Follows
    <3>3. ASSUME NEW g \in fetches[p], g.path = f, g.pc = "index"
          PROVE  Follows(p, f)'
      <4>1. \A h \in Fetch : ~Loading(r, g, h) /\ ~Writing(r, g, h)
        BY <3>3 DEF Loading, LoadsData, Writing, WritesData
      <4>2. g \in fetches'[p] \/ (p = r /\ Ends(r, g))
        BY <1>0, <1>5, <4>1, FetchStays
      <4> QED
        BY <2>6, <3>3, <4>2 DEF Follows
    <3>4. ASSUME NEW note \in unindex[p], note.path = f
          PROVE  Follows(p, f)'
      <4>1. note \in unindex'[p] \/ (p = r /\ Forgetting(r, note))
        BY <1>0, <1>5, UnindexStays
      <4> QED
        BY <2>4, <3>4, <4>1 DEF Follows
    <3> QED
      BY <1>0, <3>1, <3>2, <3>3, <3>4 DEF IndexFollows, Follows
  <2>8. CASE p # r
    BY <1>0, <1>5, <2>7, <2>8, OthersKept
  <2> QED
    BY <1>0, <1>5, <2>1, <2>2, <2>3, <2>4, <2>5, <2>6, <2>7, <2>8, FileOfStep DEF SameFile
<1> QED
  BY <1>1, <1>2, <1>3, <1>4, <1>5 DEF RoundStep, Writes, Erases, IndexFollows

LEMMA MergeNew ==
  Merge(NewClock, NewClock) = NewClock
BY DEF Merge, NewClock, Max2

\* Before the first round no engine has anything to announce.
LEMMA FirstSteps ==
  ASSUME AgreeInv, round = 0, NEW r \in Peer, EngineStep(r)
  PROVE  /\ phase = "sync" /\ edits = {}
         /\ \A x : ~Gone(x)
         /\ gossip' = {} /\ \A q \in Peer : inbox'[q] = {} /\ unindex'[q] = {}
         /\ \A f, note : ~Tells(r, f, note) /\ ~TellsRemoval(r, f, note)
<1>0. /\ PacedTypeOK /\ phase \in {"edit", "sync"} /\ Begun /\ Blank /\ NoRemovals
      /\ inbox \in [Peer -> SUBSET Delivery] /\ unindex \in [Peer -> SUBSET Note]
  BY Domains DEF AgreeInv, RoundInv
<1>1. phase = "sync" /\ edits = {}
  BY <1>0 DEF Begun
<1>2. \A x : ~Gone(x)
  BY <1>1 DEF Gone
<1>3. ASSUME NEW f, NEW note, Tells(r, f, note) \/ TellsRemoval(r, f, note)
      PROVE  FALSE
  <2>1. TellsRemoval(r, f, note)
    BY <1>1, <1>3 DEF Tells
  <2>2. note \in Note /\ note.path = f
    BY <2>1 DEF TellsRemoval, About
  <2>3. f \in Path /\ Waits(r, "removed", f)
    BY <1>0, <2>1, <2>2, NoteShape, Domains, EventShape DEF TellsRemoval, Waits
  <2> QED
    BY <1>0, <1>2, <2>3 DEF NoRemovals
<1>4. gossip = {} /\ \A q \in Peer : inbox[q] = {} /\ unindex[q] = {}
  BY <1>0 DEF Blank
<1>5. gossip' = {}
  BY <1>0, <1>3, <1>4, NoteOfStep
<1>6. ASSUME NEW q \in Peer
      PROVE  inbox'[q] = {} /\ unindex'[q] = {}
  <2>1. \A d \in inbox'[q] : d \in inbox[q] \/ \E m \in gossip : Arrives(r, m, d)
    BY <1>0, MailOfStep
  <2>2. \A note \in unindex'[q] : note \in unindex[q] \/ \E d \in inbox[r] : Removes(r, d)
    BY <1>0, UnindexOfStep
  <2> QED
    BY <1>4, <2>1, <2>2
<1> QED
  BY <1>1, <1>2, <1>3, <1>5, <1>6

LEMMA KeepsBlank ==
  ASSUME AgreeInv, RoundStep PROVE Blank'
<1>0. Blank /\ PacedTypeOK /\ round \in Nat /\ Begun
  BY Domains DEF AgreeInv, RoundInv
<1>1. CASE Begins
  BY <1>0, <1>1 DEF Begins, Blank
<1>2. CASE Closes \/ Rests
  BY <1>0, <1>2 DEF Closes, Rests, Blank, LocalClock, users, tasks
<1>3. CASE phase = "edit" /\ round' = round
  BY <1>0, <1>3 DEF Begun, Blank
<1>4. ASSUME NEW r \in Peer, EngineStep(r), round' = 0
      PROVE  Blank'
  <2>0. round = 0
    BY <1>4, SameUsers
  <2>1. /\ gossip' = {} /\ \A q \in Peer : inbox'[q] = {} /\ unindex'[q] = {}
        /\ \A x, note : ~Tells(r, x, note)
    BY <1>4, <2>0, FirstSteps
  <2>2. ASSUME NEW q \in Peer, NEW f \in File
        PROVE  LocalClock(q, f)' = NewClock
    <3>1. ~Gone(f) /\ \A x, note : ~Tells(r, x, note)
      BY <1>4, <2>0, FirstSteps
    <3>2. LocalClock(q, f) = NewClock /\ LocalClock(r, f) = NewClock
          /\ \A g \in fetches[r] : g.clock = NewClock
      BY <1>0, <2>0 DEF Blank
    <3>3. \/ LocalClock(q, f)' = LocalClock(q, f)
          \/ q = r /\ \E g \in fetches[r] : LocalClock(r, f)' = Merge(LocalClock(r, f), g.clock)
      BY <1>4, <3>1, ClockOfStep DEF AgreeInv
    <3> QED
      BY <3>2, <3>3, MergeNew
  <2>3. ASSUME NEW q \in Peer, NEW g \in fetches'[q]
        PROVE  g.clock = NewClock
    <3>1. \A p \in Peer : inbox[p] = {} /\ \A h \in fetches[p] : h.clock = NewClock
      BY <1>0, <2>0 DEF Blank
    <3> QED
      BY <1>0, <1>4, <3>1, FetchOfStep
  <2> QED
    BY <2>1, <2>2, <2>3 DEF Blank
<1>5. CASE \E r \in Peer : EngineStep(r)
  BY <1>4, <1>5 DEF Blank
<1> QED
  BY <1>1, <1>2, <1>3, <1>5 DEF RoundStep, Writes, Erases, Edits

\* What is left of the queues when an event is taken, and what is added.
LEMMA RemovedEvents ==
  ASSUME PacedTypeOK, NEW r \in Peer, EngineStep(r), NEW q \in Peer, NEW x \in Path,
         Waits(q, "removed", x)'
  PROVE  \/ Waits(q, "removed", x)
         \/ q = r /\ \E d \in inbox[r] : Removes(r, d) /\ d.note.path = x
<1> DEFINE e == Ev("removed", x)
<1> USE Domains DEF users, queues, tasks, windowVars
<1>1. ASSUME NEW a \in FsEvent, raw' = [raw EXCEPT ![r] = Append(raw[r], a)], UNCHANGED chan
      PROVE  Waits(q, "removed", x) \/ (q = r /\ a = e)
  <2>1. In(Append(raw[r], a), e) <=> In(raw[r], e) \/ e = a
    BY InAppend
  <2>2. raw'[q] = IF q = r THEN Append(raw[r], a) ELSE raw[q]
    BY <1>1
  <2> QED
    BY <1>1, <2>1, <2>2 DEF Waits
<1>2. ASSUME NEW d \in inbox[r], Removes(r, d)
      PROVE  Waits(q, "removed", x) \/ (q = r /\ d.note.path = x)
  <2>1. Ev("removed", d.note.path) \in FsEvent
    BY Shapes, NoteShape, EvTypes
  <2>2. UNCHANGED chan /\ \/ raw' = [raw EXCEPT ![r] = Append(raw[r], Ev("removed", d.note.path))]
                          \/ UNCHANGED raw
    BY <1>2 DEF Removes
  <2>3. CASE UNCHANGED raw
    BY <2>2, <2>3 DEF Waits
  <2> QED
    BY <1>1, <2>1, <2>2, <2>3, EvPair
<1>3. ASSUME NEW y \in Path, raw' = [raw EXCEPT ![r] = Append(raw[r], Ev("changed", y))],
             UNCHANGED chan
      PROVE  Waits(q, "removed", x)
  <2>1. Ev("changed", y) \in FsEvent /\ Ev("changed", y) # e
    BY EvTypes, EvPair
  <2> QED
    BY <1>1, <1>3, <2>1
<1>4. ASSUME NEW d \in inbox[r], NEW h \in Fetch, FetchesOver(r, d, h)
      PROVE  Waits(q, "removed", x)
  <2>1. ConflictName[<<d.note.path, r>>] \in Path /\ UNCHANGED chan
    BY <1>4, PathAssumption DEF FetchesOver, Fetches, Path
  <2>2. CASE UNCHANGED raw
    BY <2>1, <2>2 DEF Waits
  <2> QED
    BY <1>3, <1>4, <2>1, <2>2 DEF FetchesOver
<1>5. ASSUME NEW g \in fetches[r], NEW h \in Fetch, Writing(r, g, h)
      PROVE  Waits(q, "removed", x)
  <2>1. g.path \in Path
    BY Shapes DEF Fetch
  <2> QED
    BY <1>3, <1>5, <2>1 DEF Writing, Proceeds
<1>6. CASE Drops(r) \/ Moves(r)
  <2>1. raw[r] # <<>> /\ Head(raw[r]) \in FsEvent
    BY <1>6, EventShape DEF Drops, Moves
  <2>2. In(raw[r], e) <=> e = Head(raw[r]) \/ In(Tail(raw[r]), e)
    BY <2>1, InTail
  <2>3. In(Append(chan[r], Head(raw[r])), e) <=> In(chan[r], e) \/ e = Head(raw[r])
    BY <2>1, InAppend
  <2>4. raw'[q] = IF q = r THEN Tail(raw[r]) ELSE raw[q]
    BY <1>6 DEF Drops, Moves
  <2>5. \/ chan'[q] = chan[q]
        \/ q = r /\ chan'[q] = Append(chan[r], Head(raw[r]))
    BY <1>6 DEF Drops, Moves
  <2> QED
    BY <2>2, <2>3, <2>4, <2>5 DEF Waits
<1>7. ASSUME chan[r] # <<>>, chan' = [chan EXCEPT ![r] = Tail(chan[r])], UNCHANGED raw
      PROVE  Waits(q, "removed", x)
  <2>1. In(Tail(chan[r]), e) => In(chan[r], e)
    BY <1>7, InTail
  <2>2. chan'[q] = IF q = r THEN Tail(chan[r]) ELSE chan[q]
    BY <1>7
  <2> QED
    BY <1>7, <2>1, <2>2 DEF Waits
<1>8. CASE \/ Skips(r)
           \/ \E f \in File, note \in Note : Tells(r, f, note)
           \/ \E y \in Path, note \in Note : TellsRemoval(r, y, note)
  BY <1>7, <1>8 DEF Skips, Tells, TellsRemoval
<1>9. CASE UNCHANGED <<raw, chan>>
  BY <1>9 DEF Waits
<1> QED
  BY <1>2, <1>4, <1>5, <1>6, <1>8, <1>9 DEF EngineStep, Arrives, Reconciles, Refuses,
     FetchesBeside, Fetches, Ends, Loading, Proceeds, Forgetting

\* Nothing is fetched over a file that a user removed.
LEMMA GoneIsNotFetched ==
  ASSUME RoundInv, NEW f \in File, Gone(f), NEW p \in Peer
  PROVE  \A g \in fetches[p] : g.path # f
<1>1. \A q \in Peer : ~Wrote(q, f)
  BY DEF RoundInv, OneEdit, Gone, Wrote
<1>2. round > 0
  BY DEF RoundInv, Begun, Gone
<1> QED
  BY <1>1, <1>2 DEF RoundInv, NoChanges

LEMMA KeepsEmptied ==
  ASSUME AlikePeers, AgreeInv, RoundStep PROVE Emptied'
<1>0. /\ Emptied /\ RoundInv /\ PacedTypeOK /\ NoRemovals /\ phase \in {"edit", "sync"}
      /\ disk \in [Peer -> [Path -> Content \cup {None}]]
  BY Domains DEF AgreeInv, RoundInv
<1>1. CASE Begins \/ Closes \/ Rests
  BY <1>0, <1>1 DEF Begins, Closes, Rests, Emptied, Waits, tasks, queues
<1>2. ASSUME NEW r \in Peer, NEW x \in File, NEW kind \in {"changed", "removed"}, NEW c,
             Edits(r, x, kind, c), kind = "removed" => c = None,
             NEW p \in Peer, NEW f \in File,
             Waits(p, "removed", f)' \/ \E note \in unindex'[p] : note.path = f
      PROVE  disk'[p][f] = None
  <2>1. unindex'[p] = {}
    BY <1>2 DEF Edits, tasks, AgreeInv, RoundInv, Working
  <2>2. Waits(p, "removed", f) \/ (p = r /\ f = x /\ c = None)
    BY <1>0, <1>2, <2>1, EditEvents
  <2>3. CASE p = r /\ f = x
    <3>1. c = None
      <4>1. Waits(p, "removed", f) => Gone(x)
        BY <1>0, <2>3, FileIsPath DEF NoRemovals
      <4>2. ~Gone(x)
        BY <1>2 DEF Edits, Gone
      <4> QED
        BY <2>2, <4>1, <4>2
    <3> QED
      BY <1>0, <1>2, <2>3, <3>1, FileIsPath DEF Edits
  <2>4. CASE ~(p = r /\ f = x)
    <3>1. disk'[p][f] = disk[p][f]
      BY <1>0, <1>2, <2>4, FileIsPath DEF Edits
    <3> QED
      BY <1>0, <2>2, <2>4, <3>1 DEF Emptied
  <2> QED
    BY <2>3, <2>4
<1>3. ASSUME NEW r \in Peer, EngineStep(r), NEW p \in Peer, NEW f \in File,
             Waits(p, "removed", f)' \/ \E note \in unindex'[p] : note.path = f
      PROVE  disk'[p][f] = None
  <2>1. \/ Waits(p, "removed", f) \/ \E note \in unindex[p] : note.path = f
        \/ p = r /\ \E d \in inbox[r] : Removes(r, d) /\ d.note.path = f
    <3>1. Waits(p, "removed", f)' => \/ Waits(p, "removed", f)
                                     \/ p = r /\ \E d \in inbox[r] : Removes(r, d) /\ d.note.path = f
      BY <1>0, <1>3, FileIsPath, RemovedEvents
    <3>2. \A note \in unindex'[p] : \/ note \in unindex[p]
                                    \/ p = r /\ \E d \in inbox[r] : Removes(r, d) /\ d.note = note
      BY <1>0, <1>3, UnindexOfStep
    <3> QED
      BY <1>3, <3>1, <3>2
  <2>2. ASSUME p = r, NEW d \in inbox[r], Removes(r, d), d.note.path = f
        PROVE  disk'[p][f] = None
    BY <1>0, <2>2, FileIsPath DEF Removes
  <2>3. CASE Waits(p, "removed", f) \/ \E note \in unindex[p] : note.path = f
    <3>1. disk[p][f] = None /\ Gone(f)
      BY <1>0, <2>3, FileIsPath DEF Emptied, NoRemovals
    <3>2. \A g \in fetches[r] : g.path # f
      BY <1>0, <3>1, GoneIsNotFetched
    <3>3. SameFile(f) \/ UNCHANGED disk \/ \E d \in inbox[r] : Removes(r, d) /\ d.note.path = f
      BY <1>0, <1>3, <3>2, FileOfStep DEF Tells, TellsRemoval, Forgetting
    <3>4. CASE SameFile(f) \/ UNCHANGED disk
      BY <3>1, <3>4 DEF SameFile, SameAt
    <3>5. CASE p # r
      BY <1>0, <1>3, <3>1, <3>5, OthersKept DEF SameAt
    <3> QED
      BY <2>2, <3>3, <3>4, <3>5
  <2> QED
    BY <2>1, <2>2, <2>3
<1>4. CASE \E r \in Peer, x \in File : (\E v \in Content : Writes(r, x, v)) \/ Erases(r, x)
  BY <1>2, <1>4 DEF Writes, Erases, Emptied
<1>5. CASE \E r \in Peer : EngineStep(r)
  BY <1>3, <1>5 DEF Emptied
<1> QED
  BY <1>1, <1>4, <1>5 DEF RoundStep

\* A notification that arrives does so at the peer that does not have it.
LEMMA ArrivesThere ==
  ASSUME TwoPeers, RoundInv, NEW r \in Peer, NEW m \in gossip, NEW d \in Delivery,
         Arrives(r, m, d), NEW p \in Peer, p \notin m.has
  PROVE  p = r /\ d \in inbox'[p] /\ d.note = m.note
<1>1. m.note.peer \in m.has /\ m.note.peer \in Peer /\ r \notin m.has
  BY Shapes, NoteShape DEF RoundInv, Authors, Arrives
<1>2. p = r
  BY <1>1 DEF TwoPeers
<1>3. d \in inbox'[r]
  BY Domains DEF Arrives, RoundInv
<1> QED
  BY <1>2, <1>3 DEF Arrives

LEMMA KeepsVanishes ==
  ASSUME AlikePeers, AgreeInv, RoundStep PROVE Vanishes'
<1>0. /\ Vanishes /\ RoundInv /\ PacedTypeOK /\ TwoPeers /\ edits \subseteq Edit
      /\ disk \in [Peer -> [Path -> Content \cup {None}]]
  BY Domains DEF AgreeInv, RoundInv, AlikePeers, TwoCarefulPeers
<1>1. CASE Begins
  BY <1>1 DEF Begins, Vanishes
<1>2. CASE Closes
  <2>1. \A p \in Peer : \A x : ~Waits(p, "removed", x)
    BY <1>2, EmptyQueue DEF Closes, Drained, Waits
  <2>2. \A e \in edits : e.peer \in Peer
    BY <1>0 DEF Edit
  <2> QED
    BY <1>0, <1>2, <2>1, <2>2 DEF Closes, Vanishes, Loses, tasks
<1>3. CASE Rests
  BY <1>0, <1>3 DEF Rests, Vanishes, Loses, Waits, users, queues, tasks
<1>4. ASSUME NEW r \in Peer, NEW x \in File, NEW kind \in {"changed", "removed"}, NEW c,
             Edits(r, x, kind, c), NEW e \in edits, e.left = None, e.file # x, NEW p \in Peer
      PROVE  Loses(p, e)'
  <2>1. disk'[p][e.file] = disk[p][e.file]
    BY <1>0, <1>4, FileIsPath DEF Edits, Edit
  <2>2. Waits(e.peer, "removed", e.file) => Waits(e.peer, "removed", e.file)'
    BY <1>0, <1>4, EditEvents DEF Edit
  <2> QED
    BY <1>0, <1>4, <2>1, <2>2 DEF Edits, Vanishes, Loses, tasks
<1>5. ASSUME NEW r \in Peer, NEW x \in File, NEW v \in Content, Writes(r, x, v)
      PROVE  Vanishes'
  <2>1. \A e \in edits : e.left = None => e.file # x
    BY <1>5 DEF Writes, Edits
  <2>2. \A e \in edits' : e.left = None => e \in edits
    BY <1>5, ContentAssumption DEF Writes, Edits
  <2> QED
    BY <1>4, <1>5, <2>1, <2>2 DEF Vanishes, Writes
<1>6. ASSUME NEW r \in Peer, NEW x \in File, Erases(r, x)
      PROVE  Vanishes'
  <2> DEFINE w == [peer |-> r, file |-> x, left |-> None]
  <2>1. edits' = edits \cup {w} /\ w.peer = r /\ w.file = x
    BY <1>6 DEF Erases, Edits
  <2> HIDE DEF w
  <2>2. ASSUME NEW p \in Peer
        PROVE  Loses(p, w)'
    <3>1. CASE p = r
      BY <1>0, <1>6, <2>1, <3>1, FileIsPath DEF Erases, Edits, Loses
    <3>2. CASE p # r
      <4>1. Waits(r, "removed", x)' /\ phase' = "edit"
        BY <1>0, <1>6, EditEvents DEF Erases, Edits
      <4> QED
        BY <2>1, <3>2, <4>1 DEF Loses
    <3> QED
      BY <3>1, <3>2
  <2>3. \A e \in edits : e.file # x
    BY <1>6 DEF Erases
  <2> QED
    BY <1>4, <1>6, <2>1, <2>2, <2>3 DEF Vanishes, Erases
<1>7. ASSUME NEW r \in Peer, EngineStep(r), NEW e \in edits, e.left = None, NEW p \in Peer
      PROVE  Loses(p, e)'
  <2> DEFINE f == e.file
  <2>0. UNCHANGED phase /\ f \in File /\ e.peer \in Peer /\ Gone(f)
    BY <1>0, <1>7, SameUsers DEF Edit, Gone
  <2> HIDE DEF f
  <2>1. CASE disk[p][f] = None
    <3>1. \A g \in fetches[r] : g.path # f
      BY <1>0, <2>0, GoneIsNotFetched
    <3>2. SameFile(f) \/ UNCHANGED disk \/ \E d \in inbox[r] : Removes(r, d) /\ d.note.path = f
      BY <1>0, <1>7, <2>0, <3>1, FileOfStep DEF Tells, TellsRemoval, Forgetting
    <3>3. disk'[p][f] = None
      <4>1. CASE SameFile(f) \/ UNCHANGED disk
        BY <2>1, <4>1 DEF SameFile, SameAt
      <4>2. ASSUME NEW d \in inbox[r], Removes(r, d), d.note.path = f
            PROVE  disk'[p][f] = None
        <5>1. UNCHANGED disk \/ disk' = [disk EXCEPT ![r][f] = None]
          BY <4>2 DEF Removes
        <5>2. disk'[p] = disk[p] \/ disk'[p] = [disk[p] EXCEPT ![f] = None]
          BY <1>0, <5>1
        <5> QED
          BY <1>0, <2>0, <2>1, <5>2, FileIsPath
      <4> QED
        BY <3>2, <4>1, <4>2
    <3> QED
      BY <3>3 DEF Loses, f
  <2>2. CASE phase = "edit" /\ p # e.peer /\ Waits(e.peer, "removed", f)
    <3>1. \/ Waits(e.peer, "removed", f)'
          \/ e.peer = r /\ \E note \in Note : TellsRemoval(r, f, note)
      BY <1>0, <1>7, <2>0, <2>2, EventStays
    <3>2. ASSUME NEW note \in Note, TellsRemoval(r, f, note), e.peer = r
          PROVE  \E m \in gossip' : About(m.note, "deleted", f) /\ p \notin m.has
      <4>1. [note |-> note, has |-> {r}] \in gossip' /\ About(note, "deleted", f)
        BY <3>2 DEF TellsRemoval
      <4> QED
        BY <2>2, <3>2, <4>1
    <3> QED
      BY <2>0, <2>2, <3>1, <3>2 DEF Loses, f
  <2>3. ASSUME NEW m \in gossip, About(m.note, "deleted", f), p \notin m.has
        PROVE  Loses(p, e)'
    <3>1. CASE m \in gossip'
      BY <2>3, <3>1 DEF Loses, f
    <3>2. ASSUME NEW d \in Delivery, Arrives(r, m, d)
          PROVE  Loses(p, e)'
      <4>1. d \in inbox'[p] /\ d.note = m.note
        BY <1>0, <2>3, <3>2, ArrivesThere
      <4> QED
        BY <2>3, <4>1 DEF Loses, f
    <3> QED
      BY <1>0, <1>7, <3>1, <3>2, NewsStays
  <2>4. ASSUME NEW d \in inbox[p], About(d.note, "deleted", f)
        PROVE  Loses(p, e)'
    <3>1. d \in inbox'[p] \/ (p = r /\ Removes(r, d))
      BY <1>0, <1>7, <2>4, MailStays DEF Refuses, FetchesBeside, FetchesOver, Fetches, About
    <3>2. CASE p = r /\ Removes(r, d)
      <4>1. disk'[p][f] = None
        BY <1>0, <2>0, <2>4, <3>2, FileIsPath DEF Removes, About
      <4> QED
        BY <4>1 DEF Loses, f
    <3> QED
      BY <2>4, <3>1, <3>2 DEF Loses, f
  <2> QED
    BY <1>0, <1>7, <2>1, <2>2, <2>3, <2>4 DEF Vanishes, Loses, f
<1>8. CASE \E r \in Peer : EngineStep(r)
  BY <1>7, <1>8, SameUsers DEF Vanishes
<1> QED
  BY <1>1, <1>2, <1>3, <1>5, <1>6, <1>8 DEF RoundStep

LEMMA KeepsDated ==
  ASSUME AgreeInv, RoundStep, UNCHANGED skew PROVE Dated'
<1>0. Dated /\ RoundInv /\ PacedTypeOK /\ round \in Nat
  BY Domains DEF AgreeInv, RoundInv
<1>1. CASE Begins
  BY <1>1 DEF Begins, Dated, Quiet, tasks
<1>2. ASSUME UNCHANGED <<round, gossip, inbox>>, \A p, f : Wrote(p, f) => Wrote(p, f)'
      PROVE  Dated'
  <2>1. \A note : Timely(note) => Timely(note)'
    BY <1>2 DEF Timely, Now
  <2> QED
    BY <1>0, <1>2, <2>1 DEF Dated
<1>3. CASE Closes \/ Rests
  BY <1>2, <1>3, SameFiles DEF Closes, Rests, users, tasks
<1>4. ASSUME NEW r \in Peer, NEW x \in File, NEW kind, NEW c, Edits(r, x, kind, c)
      PROVE  Dated'
  BY <1>2, <1>4, EditedFiles DEF Edits, tasks
<1>5. ASSUME NEW r \in Peer, EngineStep(r), round' > 0
      PROVE  Dated'
  <2>1. UNCHANGED <<round, phase, edits>> /\ round > 0
    BY <1>5, SameUsers
  <2>2. \A note : Timely(note)' <=> Timely(note)
    BY <2>1, SameFiles DEF Timely, Now
  <2>3. ASSUME NEW x \in File, NEW note \in Note, Tells(r, x, note)
        PROVE  Timely(note)
    <3>1. Waits(r, "changed", x) /\ phase = "edit"
      BY <1>0, <2>3, Domains, EventShape DEF Tells, Waits
    <3>2. Wrote(r, x)
      BY <1>0, <3>1 DEF RoundInv, ToldOnce
    <3> QED
      BY <2>3, <3>2 DEF Tells, TellsContent, Timely, About
  <2>4. ASSUME NEW m \in gossip'
        PROVE  Timely(m.note)
    <3>1. CASE m \in gossip
      BY <1>0, <2>1, <3>1 DEF Dated
    <3>2. CASE \E x \in Path : TellsRemoval(r, x, m.note)
      BY <3>2 DEF TellsRemoval, About, Timely
    <3>3. CASE \E x \in File : Tells(r, x, m.note)
      BY <2>3, <3>3 DEF Tells
    <3> QED
      BY <1>0, <1>5, <3>1, <3>2, <3>3, NoteOfStep
  <2>5. ASSUME NEW q \in Peer, NEW d \in inbox'[q]
        PROVE  Timely(d.note)
    BY <1>0, <1>5, <2>1, MailOfStep DEF Dated, Arrives
  <2> QED
    BY <2>2, <2>4, <2>5 DEF Dated
<1>6. CASE \E r \in Peer : EngineStep(r)
  BY <1>5, <1>6 DEF Dated
<1> QED
  BY <1>1, <1>3, <1>4, <1>6 DEF RoundStep, Writes, Erases

LEMMA LocalTypes ==
  ASSUME PacedTypeOK, NEW p \in Peer, NEW f \in File
  PROVE  LocalClock(p, f) \in VectorClock /\ LocalTs(p, f) \in Nat /\ Now(p) \in Nat
BY LocalMetaTypes, NowIsNat, FileIsPath DEF PacedTypeOK, TypeOK

LEMMA SameClocks ==
  ASSUME PacedTypeOK, NEW p \in Peer, NEW q \in Peer, NEW f \in File,
         LocalClock(p, f) = LocalClock(q, f)
  PROVE  Covers(p, q, f)
BY LocalTypes DEF Covers, Dominates, VectorClock

\* What a round leaves in a file: one version, and clocks that are ordered.
LEMMA SettledFile ==
  ASSUME AlikePeers, AgreeInv, phase = "sync", Quiet, Acquainted,
         NEW f \in File, NEW p \in Peer, NEW q \in Peer
  PROVE  /\ tree[p][f] = disk[p][f] /\ disk[p][f] = disk[q][f]
         /\ p # q => Covers(p, q, f) \/ Covers(q, p, f)
<1>0. /\ RoundInv /\ PacedTypeOK /\ round \in Nat /\ TwoPeers
      /\ gossip = {} /\ edits \subseteq Edit
      /\ \A r \in Peer : inbox[r] = {} /\ fetches[r] = {} /\ unindex[r] = {} /\ recon[r] = {}
      /\ \A r \in Peer : Running(r)
  BY Domains, Group DEF AgreeInv, RoundInv, AlikePeers, TwoCarefulPeers, Quiet
<1>1. \A r \in Peer : tree[r][f] = disk[r][f]
  BY <1>0 DEF AgreeInv, IndexFollows, Follows
<1>2. CASE p = q
  BY <1>1, <1>2
<1>3. CASE p # q /\ Gone(f)
  <2>1. PICK e \in edits : e.file = f /\ e.left = None
    BY <1>3 DEF Gone
  <2>2. ASSUME NEW r \in Peer
        PROVE  disk[r][f] = None /\ meta[r][f] = None
    <3>1. disk[r][f] = None
      BY <1>0, <2>1 DEF AgreeInv, Vanishes, Loses
    <3>2. meta[r][f] = None
      BY <1>0, <2>1 DEF RoundInv, Forgets, Comes
    <3> QED
      BY <3>1, <3>2
  <2>3. LocalClock(p, f) = LocalClock(q, f)
    BY <2>2 DEF LocalClock
  <2> QED
    BY <1>0, <1>1, <2>2, <2>3, SameClocks
<1>4. CASE p # q /\ round = 0
  <2>1. LocalClock(p, f) = LocalClock(q, f)
    BY <1>4 DEF AgreeInv, Blank
  <2>2. ASSUME NEW r \in Peer, NEW s \in Peer, r # s, Holds(s, f)
        PROVE  Holds(r, f)
    <3>1. <<r, s>> \in met
      BY <1>0, <2>2 DEF Acquainted, AlikePeers, Linked
    <3>2. ~Asks(r, s, f)
      BY <1>0, <3>1 DEF Asks, Pulls
    <3> QED
      BY <1>4, <2>2, <3>2 DEF AgreeInv, Meeting, Meets
  <2>3. disk[p][f] # None <=> disk[q][f] # None
    BY <1>1, <1>4, <2>2 DEF Holds
  <2>4. disk[p][f] = None \/ disk[q][f] = None \/ disk[p][f] = disk[q][f]
    BY <1>4 DEF AgreeInv, Meeting, Meets
  <2> QED
    BY <1>0, <1>1, <2>1, <2>3, <2>4, SameClocks
<1>5. CASE p # q /\ round > 0 /\ ~Gone(f) /\ \E w \in Peer : Wrote(w, f)
  <2>1. PICK w \in Peer : Prevails(w, f)
    BY <1>0, <1>5, Winner
  <2>2. ASSUME NEW o \in Peer, o # w
        PROVE  disk[o][f] = disk[w][f] /\ Covers(o, w, f)
    <3>1. Takes(w, o, f)
      BY <1>5, <2>1, <2>2 DEF AgreeInv, Decided
    <3> QED
      BY <1>0, <3>1 DEF Takes, Hears, Fetching, HasTaken
  <2>3. p = w \/ q = w
    BY <1>0, <1>5 DEF TwoPeers
  <2> QED
    BY <1>1, <1>5, <2>2, <2>3
<1>6. CASE p # q /\ round > 0 /\ ~Gone(f) /\ ~\E w \in Peer : Wrote(w, f)
  BY <1>1, <1>6 DEF AgreeInv, Untouched, Told
<1> QED
  BY <1>0, <1>2, <1>3, <1>4, <1>5, <1>6

\* Time goes on, and clocks stay ordered.
LEMMA CoversOn ==
  ASSUME PacedTypeOK, NEW p \in Peer, NEW q \in Peer, NEW f \in File,
         Covers(p, q, f), SameAt(p, f), SameAt(q, f), UNCHANGED skew,
         \/ phase = "sync" /\ round' = round + 1
         \/ round' = round /\ (phase' = "sync" \/ phase' = phase)
  PROVE  Covers(p, q, f)'
<1>1. /\ LocalClock(p, f)' = LocalClock(p, f) /\ LocalClock(q, f)' = LocalClock(q, f)
      /\ LocalTs(p, f)' = LocalTs(p, f)
  BY SameLocal DEF SameAt
<1>2. LocalTs(p, f) \in Nat /\ Now(q) \in Nat
  BY LocalTypes
<1>3. (phase = "sync" /\ Now(q)' = Now(q) + 1) \/ (Now(q)' = Now(q) /\ (phase' = "sync" \/ phase' = phase))
  <2>1. round \in Nat /\ skew[q] \in Nat
    BY RoundAssumption DEF PacedTypeOK
  <2> QED
    BY <2>1 DEF Now
<1>4. Past(LocalTs(p, f), q) => Past(LocalTs(p, f), q)'
  <2> DEFINE t == LocalTs(p, f)
             n == Now(q)
  <2>1. t' = t /\ t \in Nat /\ n \in Nat
    BY <1>1, <1>2
  <2>2. Past(t, q) <=> t < n \/ (phase = "sync" /\ t = n)
    BY DEF Past
  <2>3. Past(t, q)' <=> t' < n' \/ (phase' = "sync" /\ t' = n')
    BY DEF Past
  <2>4. (phase = "sync" /\ n' = n + 1) \/ (n' = n /\ (phase' = "sync" \/ phase' = phase))
    BY <1>3
  <2> HIDE DEF t, n
  <2>5. Past(t, q) => Past(t, q)'
    BY <2>1, <2>2, <2>3, <2>4
  <2> QED
    BY <2>5 DEF t
<1> QED
  BY <1>1, <1>4 DEF Covers

LEMMA ToldStays ==
  ASSUME RoundInv, RoundStep, ~Begins, NEW p \in Peer, NEW f \in File, Told(p, f)
  PROVE  Told(p, f)'
<1>0. PacedTypeOK /\ phase \in {"edit", "sync"} /\ Wrote(p, f)
  BY Domains DEF RoundInv, Told
<1>1. CASE Closes \/ Rests
  BY <1>0, <1>1, SameFiles DEF Told, Closes, Rests, users, queues, Waits
<1>2. ASSUME NEW r \in Peer, NEW x \in File, NEW kind \in {"changed", "removed"}, NEW c,
             Edits(r, x, kind, c)
      PROVE  Told(p, f)'
  <2>1. ~(p = r /\ f = x)
    BY <1>0, <1>2 DEF Edits, Wrote
  <2>2. Wrote(p, f)' /\ (Waits(p, "changed", f)' => Waits(p, "changed", f))
    BY <1>0, <1>2, <2>1, EditedFiles, EditEvents
  <2> QED
    BY <1>2, <2>2 DEF Told, Edits
<1>3. ASSUME NEW r \in Peer, EngineStep(r)
      PROVE  Told(p, f)'
  <2>1. UNCHANGED <<phase, edits>>
    BY <1>3, SameUsers
  <2>2. phase = "edit" /\ Waits(p, "changed", f)' => Waits(p, "changed", f)
    BY <1>0, <1>3, EventGoes
  <2> QED
    BY <1>0, <2>1, <2>2, SameFiles DEF Told
<1> QED
  BY <1>1, <1>2, <1>3 DEF RoundStep, Writes, Erases

\* In a file that nobody has written everything stays, and what was written is told.
LEMMA KeepsUntouched ==
  ASSUME AlikePeers, AgreeInv, RoundStep, UNCHANGED skew PROVE Untouched'
<1>0. /\ RoundInv /\ PacedTypeOK /\ Untouched /\ round \in Nat /\ phase \in {"edit", "sync"}
      /\ TwoPeers /\ edits \subseteq Edit
  BY Domains DEF AgreeInv, RoundInv, AlikePeers, TwoCarefulPeers
<1>1. CASE Begins
  <2>1. ASSUME NEW f \in File, NEW p \in Peer, NEW q \in Peer
        PROVE  /\ disk'[p][f] = disk'[q][f]
               /\ p # q => Covers(p, q, f)' \/ Covers(q, p, f)'
    <3>1. /\ disk[p][f] = disk[q][f]
          /\ p # q => Covers(p, q, f) \/ Covers(q, p, f)
      BY <1>1, SettledFile DEF Begins
    <3>2. SameAt(p, f) /\ SameAt(q, f) /\ phase = "sync" /\ round' = round + 1
      BY <1>1 DEF Begins, SameAt, SameTree
    <3> QED
      BY <1>0, <3>1, <3>2, CoversOn DEF SameAt
  <2> QED
    BY <2>1 DEF Untouched
<1>2. SUFFICES ASSUME ~Begins, round' > 0, NEW f \in File, ~Gone(f)', NEW p \in Peer, NEW q \in Peer
               PROVE  /\ ~Wrote(p, f)' /\ ~Wrote(q, f)' => disk'[p][f] = disk'[q][f]
                      /\ p # q /\ ~Told(p, f)' /\ ~Told(q, f)' => Covers(p, q, f)' \/ Covers(q, p, f)'
  BY <1>1 DEF Untouched
<1>3. /\ ~Told(p, f)' => ~Told(p, f)
      /\ ~Told(q, f)' => ~Told(q, f)
  BY <1>0, <1>2, ToldStays
<1>4. ASSUME SameAt(p, f), SameAt(q, f), round' = round, phase' = "sync" \/ phase' = phase,
             ~Gone(f), Wrote(p, f) => Wrote(p, f)', Wrote(q, f) => Wrote(q, f)'
      PROVE  /\ ~Wrote(p, f)' /\ ~Wrote(q, f)' => disk'[p][f] = disk'[q][f]
             /\ p # q /\ ~Told(p, f)' /\ ~Told(q, f)' => Covers(p, q, f)' \/ Covers(q, p, f)'
  <2>1. /\ ~Wrote(p, f) /\ ~Wrote(q, f) => disk[p][f] = disk[q][f]
        /\ p # q /\ ~Told(p, f) /\ ~Told(q, f) => Covers(p, q, f) \/ Covers(q, p, f)
    BY <1>0, <1>2, <1>4 DEF Untouched
  <2>2. /\ Covers(p, q, f) => Covers(p, q, f)'
        /\ Covers(q, p, f) => Covers(q, p, f)'
    BY <1>0, <1>4, CoversOn
  <2> QED
    BY <1>3, <1>4, <2>1, <2>2 DEF SameAt
<1>5. CASE Closes \/ Rests
  <2>1. UNCHANGED <<round, edits, disk, tree, meta>> /\ (phase' = "sync" \/ phase' = phase)
    BY <1>5 DEF Closes, Rests, users, SameTree
  <2> QED
    BY <1>2, <1>4, <2>1, SameFiles DEF SameAt
<1>6. ASSUME NEW r \in Peer, NEW x \in File, NEW kind \in {"changed", "removed"}, NEW c,
             Edits(r, x, kind, c), kind = "removed" => c = None,
             kind = "changed" => c \in Content
      PROVE  /\ ~Wrote(p, f)' /\ ~Wrote(q, f)' => disk'[p][f] = disk'[q][f]
             /\ p # q /\ ~Told(p, f)' /\ ~Told(q, f)' => Covers(p, q, f)' \/ Covers(q, p, f)'
  <2>1. ~Gone(f) /\ (Wrote(p, f) => Wrote(p, f)') /\ (Wrote(q, f) => Wrote(q, f)')
    BY <1>2, <1>6, EditedFiles
  <2>2. f = x => Wrote(r, f)'
    BY <1>2, <1>6, EditedFiles
  <2>3. UNCHANGED <<tree, meta, round, phase>> /\ disk' = [disk EXCEPT ![r][x] = c]
    BY <1>6 DEF Edits, SameTree
  <2>4. \A s \in Peer : (f = x /\ s = r) \/ disk'[s][f] = disk[s][f]
    BY <1>0, <2>3, Domains, FileIsPath
  <2>5. /\ ~Wrote(p, f) /\ ~Wrote(q, f) => disk[p][f] = disk[q][f]
        /\ p # q /\ ~Told(p, f) /\ ~Told(q, f) => Covers(p, q, f) \/ Covers(q, p, f)
    BY <1>0, <1>2, <2>1, <2>3 DEF Untouched
  <2>6. /\ Covers(p, q, f)' <=> Covers(p, q, f)
        /\ Covers(q, p, f)' <=> Covers(q, p, f)
    BY <2>3 DEF Covers, Past, Now, LocalClock, LocalTs
  <2> QED
    BY <1>3, <2>1, <2>2, <2>4, <2>5, <2>6
<1>7. ASSUME NEW r \in Peer, EngineStep(r)
      PROVE  /\ ~Wrote(p, f)' /\ ~Wrote(q, f)' => disk'[p][f] = disk'[q][f]
             /\ p # q /\ ~Told(p, f)' /\ ~Told(q, f)' => Covers(p, q, f)' \/ Covers(q, p, f)'
  <2>1. UNCHANGED <<round, phase, edits>> /\ ~Gone(f)
    BY <1>2, <1>7, SameUsers, SameFiles
  <2>2. CASE SameFile(f)
    BY <1>2, <1>4, <2>1, <2>2, SameFiles DEF SameFile
  <2>3. ASSUME NEW note \in Note, Tells(r, f, note)
        PROVE  /\ disk' = disk
               /\ Told(r, f)'
    <3>1. Waits(r, "changed", f) /\ phase = "edit" /\ UNCHANGED disk
      BY <1>0, <2>3, Domains, EventShape DEF Tells, Waits
    <3>2. Wrote(r, f) /\ OneEvent(r, f)
      BY <1>0, <3>1 DEF RoundInv, ToldOnce
    <3>3. ~Waits(r, "changed", f)'
      BY <1>0, <1>7, <2>3, <3>1, <3>2, OneEventStays
    <3> QED
      BY <2>1, <3>1, <3>2, <3>3, SameFiles DEF Told
  <2>4. CASE \E note \in Note : Tells(r, f, note)
    <3>1. UNCHANGED disk /\ Told(r, f)'
      BY <2>3, <2>4
    <3>2. ~Wrote(p, f) /\ ~Wrote(q, f) => disk[p][f] = disk[q][f]
      BY <1>0, <1>2, <2>1 DEF Untouched
    <3> QED
      BY <1>0, <2>1, <3>1, <3>2, SameFiles DEF TwoPeers
  <2>5. ASSUME NEW g \in fetches[r], g.path = f
        PROVE  \E w \in Peer : Wrote(w, f)' /\ Told(w, f)'
    <3>1. PICK w \in Peer : Prevails(w, f)
      BY <1>0, <1>2, <2>1, <2>5, FetchBrings
    <3>2. Wrote(w, f)
      BY <3>1 DEF Prevails
    <3>3. phase = "sync"
      BY <1>0, <2>5 DEF RoundInv, Working
    <3> QED
      BY <2>1, <3>2, <3>3, SameFiles DEF Told
  <2>6. CASE \E g \in fetches[r] : g.path = f
    BY <1>0, <2>5, <2>6 DEF TwoPeers
  <2> QED
    BY <1>0, <1>7, <2>1, <2>2, <2>4, <2>6, KeptFile
<1>8. CASE \E r \in Peer, x \in File : (\E v \in Content : Writes(r, x, v)) \/ Erases(r, x)
  BY <1>6, <1>8 DEF Writes, Erases
<1> QED
  BY <1>2, <1>5, <1>7, <1>8 DEF RoundStep

LEMMA DominatesThrough ==
  ASSUME NEW c \in VectorClock, NEW d \in VectorClock, NEW e \in VectorClock,
         Dominates(c, d), Dominates(d, e)
  PROVE  Dominates(c, e)
<1>1. ASSUME NEW q \in Peer
      PROVE  e[q] <= c[q]
  <2>1. c[q] \in Nat /\ d[q] \in Nat /\ e[q] \in Nat
    BY DEF VectorClock
  <2>2. e[q] <= d[q] /\ d[q] <= c[q]
    BY DEF Dominates
  <2> QED
    BY <2>1, <2>2
<1> QED
  BY <1>1 DEF Dominates

LEMMA SameConveys ==
  ASSUME NEW p \in Peer, NEW f \in File, SameAt(p, f)
  PROVE  \A note : Conveys(note, p, f) <=> Conveys(note, p, f)'
BY SameLocal DEF SameAt, Conveys

\* The announcement of a change.
LEMMA TellsNews ==
  ASSUME RoundInv, NEW r \in Peer, NEW f \in File, NEW note \in Note, Tells(r, f, note),
         UNCHANGED skew
  PROVE  /\ disk'[r][f] # None /\ LocalTs(r, f)' = Now(r)'
         /\ LocalClock(r, f)' = Tick(LocalClock(r, f), r)
         /\ \E m \in gossip' : Conveys(m.note, r, f)' /\ m.has = {r}
<1>0. PacedTypeOK /\ f \in Path /\ meta \in [Peer -> [Path -> Meta \cup {None}]]
  BY Domains, FileIsPath DEF RoundInv
<1>1. /\ meta' = [meta EXCEPT ![r][f] = [clock |-> note.clock, ts |-> note.ts]]
      /\ gossip' = gossip \cup {[note |-> note, has |-> {r}]}
      /\ UNCHANGED <<disk, round>> /\ note.data = disk[r][f] /\ note.ts = Now(r)
      /\ About(note, "changed", f) /\ note.peer = r
      /\ note.clock = Tick(LocalClock(r, f), r)
  BY DEF Tells, TellsContent, users
<1>2. [clock |-> note.clock, ts |-> note.ts] \in Meta
  BY DEF Note, Meta
<1>3. meta'[r][f] = [clock |-> note.clock, ts |-> note.ts] /\ meta'[r][f] # None
  BY <1>0, <1>1, <1>2, NoneAssumption
<1>4. LocalClock(r, f)' = note.clock /\ LocalTs(r, f)' = note.ts
  BY <1>3 DEF LocalClock, LocalTs
<1>5. Now(r)' = Now(r)
  BY <1>1 DEF Now
<1>6. note.data \in Content
  BY DEF Note
<1>7. Conveys(note, r, f)'
  BY <1>1, <1>4 DEF Conveys
<1>8. [note |-> note, has |-> {r}] \in gossip'
  BY <1>1
<1> QED
  BY <1>1, <1>4, <1>5, <1>6, <1>7, <1>8, ContentAssumption

LEMMA KeepsPublished ==
  ASSUME AlikePeers, AgreeInv, RoundStep, UNCHANGED skew PROVE Published'
<1>0. /\ RoundInv /\ PacedTypeOK /\ Published /\ round \in Nat /\ phase \in {"edit", "sync"}
      /\ edits \subseteq Edit
  BY Domains DEF AgreeInv, RoundInv
<1>1. CASE Begins
  BY <1>1 DEF Begins, Published, Told, Wrote
<1>2. CASE phase' # "edit"
  BY <1>2 DEF Published
<1>3. SUFFICES ASSUME phase = "edit", phase' = "edit", ~Begins, round' = round,
                      NEW p \in Peer, NEW f \in File, Told(p, f)'
               PROVE  /\ disk'[p][f] # None /\ LocalTs(p, f)' = Now(p)'
                      /\ \E m \in gossip' : Conveys(m.note, p, f)' /\ m.has = {p}
                      /\ Newer(p, f)'
  <2>1. ~Begins => (phase' = "edit" => phase = "edit") /\ round' = round
    BY <1>0, SameUsers DEF RoundStep, Closes, Rests, users, Writes, Erases, Edits
  <2> QED
    BY <1>0, <1>1, <1>2, <2>1 DEF Published
<1>4. ASSUME Told(p, f), SameAt(p, f), gossip \subseteq gossip',
             \A q \in Peer : q # p /\ ~Told(q, f)' => meta'[q][f] = meta[q][f]
      PROVE  /\ disk'[p][f] # None /\ LocalTs(p, f)' = Now(p)'
             /\ \E m \in gossip' : Conveys(m.note, p, f)' /\ m.has = {p}
             /\ Newer(p, f)'
  <2>1. /\ disk[p][f] # None /\ LocalTs(p, f) = Now(p)
        /\ \E m \in gossip : Conveys(m.note, p, f) /\ m.has = {p}
        /\ Newer(p, f)
    BY <1>0, <1>3, <1>4 DEF Published
  <2>2. /\ LocalTs(p, f)' = LocalTs(p, f) /\ LocalClock(p, f)' = LocalClock(p, f)
        /\ disk'[p][f] = disk[p][f]
    BY <1>4, SameLocal DEF SameAt
  <2>3. Now(p)' = Now(p)
    BY <1>3 DEF Now
  <2>4. \E m \in gossip' : Conveys(m.note, p, f)' /\ m.has = {p}
    BY <1>4, <2>1, SameConveys
  <2>5. ASSUME NEW q \in Peer, q # p, ~Told(q, f)'
        PROVE  /\ LocalClock(q, f)' = LocalClock(q, f) /\ LocalTs(q, f)' = LocalTs(q, f)
               /\ ~Told(q, f)
    BY <1>0, <1>3, <1>4, <2>5, SameLocal, ToldStays
  <2>6. Newer(p, f)'
    BY <2>1, <2>2, <2>3, <2>5 DEF Newer
  <2> QED
    BY <2>1, <2>2, <2>3, <2>4, <2>6
<1>5. CASE Rests
  <2>1. Told(p, f) /\ SameAt(p, f) /\ UNCHANGED <<gossip, meta>>
    BY <1>3, <1>5, SameFiles DEF Rests, Told, Waits, SameAt, SameTree, users, queues
  <2> QED
    BY <1>4, <2>1
<1>6. ASSUME NEW r \in Peer, NEW x \in File, NEW kind \in {"changed", "removed"}, NEW c,
             Edits(r, x, kind, c), kind = "removed" => c = None /\ \A e \in edits : e.file # x
      PROVE  Told(p, f) /\ SameAt(p, f) /\ UNCHANGED <<gossip, meta>>
  <2>1. UNCHANGED <<gossip, meta, tree>> /\ disk' = [disk EXCEPT ![r][x] = c]
    BY <1>6 DEF Edits, SameTree
  <2>2. ~Waits(p, "changed", f)' /\ Wrote(p, f)'
    BY <1>3 DEF Told
  <2>3. ~Waits(p, "changed", f) /\ ~(p = r /\ kind = "changed" /\ f = x)
    BY <1>0, <1>6, <2>2, EditEvents
  <2>4. Wrote(p, f) /\ ~(p = r /\ f = x)
    <3>1. kind = "removed" => Wrote(p, f) /\ f # x
      BY <1>6, <2>2 DEF Edits, Wrote
    <3>2. kind = "changed" => Wrote(p, f)
      BY <1>6, <2>2, <2>3, EditedFiles
    <3> QED
      BY <2>3, <3>1, <3>2
  <2>5. disk'[p][f] = disk[p][f]
    BY <1>0, <2>1, <2>4, Domains, FileIsPath
  <2> QED
    BY <2>1, <2>3, <2>4, <2>5 DEF Told, SameAt
<1>7. CASE \E r \in Peer, x \in File : (\E v \in Content : Writes(r, x, v)) \/ Erases(r, x)
  <2>1. Told(p, f) /\ SameAt(p, f) /\ UNCHANGED <<gossip, meta>>
    BY <1>6, <1>7 DEF Writes, Erases
  <2> QED
    BY <1>4, <2>1
<1>8. ASSUME NEW r \in Peer, EngineStep(r)
      PROVE  /\ disk'[p][f] # None /\ LocalTs(p, f)' = Now(p)'
             /\ \E m \in gossip' : Conveys(m.note, p, f)' /\ m.has = {p}
             /\ Newer(p, f)'
  <2>1. Wrote(p, f) /\ ~Gone(f)
    <3>1. Wrote(p, f)
      BY <1>3, <1>8, SameUsers, SameFiles DEF Told
    <3> QED
      BY <1>0, <3>1, WrittenStays DEF RoundInv
  <2>2. \A g \in fetches[r] : FALSE
    BY <1>0, <1>3 DEF RoundInv, Working
  <2>3. SameFile(f) \/ \E note \in Note : Tells(r, f, note)
    BY <1>0, <1>8, <2>1, <2>2, KeptFile
  <2>4. gossip \subseteq gossip'
    BY <1>3, <1>8, EditSteps DEF Moves, Skips, Tells, TellsRemoval
  <2>5. ASSUME NEW note \in Note, Tells(r, f, note)
        PROVE  Told(r, f)' /\ Waits(r, "changed", f)
    <3>1. Waits(r, "changed", f)
      BY <1>0, <2>5, Domains, EventShape DEF Tells, Waits
    <3>2. Wrote(r, f) /\ OneEvent(r, f)
      BY <1>0, <1>3, <3>1 DEF RoundInv, ToldOnce
    <3>3. ~Waits(r, "changed", f)'
      BY <1>0, <1>3, <1>8, <2>5, <3>2, OneEventStays
    <3>4. Wrote(r, f)'
      BY <1>8, <3>2, SameUsers, SameFiles
    <3> QED
      BY <3>1, <3>3, <3>4 DEF Told
  <2>6. CASE Told(p, f) /\ SameFile(f)
    BY <1>4, <2>4, <2>6 DEF SameFile, SameAt
  <2>7. CASE Told(p, f) /\ \E note \in Note : Tells(r, f, note)
    <3>1. r # p
      BY <1>3, <2>5, <2>7 DEF Told
    <3>2. SameAt(p, f)
      BY <1>0, <1>8, <3>1, OthersKept
    <3>3. \A q \in Peer : q # p /\ ~Told(q, f)' => q # r
      BY <2>5, <2>7
    <3>4. \A q \in Peer : q # r => meta'[q][f] = meta[q][f]
      BY <1>0, <1>8, OthersKept DEF SameAt
    <3> QED
      BY <1>4, <2>4, <2>7, <3>2, <3>3, <3>4
  <2>8. CASE ~Told(p, f)
    <3>1. Waits(p, "changed", f) /\ ~Waits(p, "changed", f)'
      BY <1>3, <2>1, <2>8 DEF Told
    <3>2. p = r /\ \E note \in Note : Tells(r, f, note)
      BY <1>0, <1>3, <1>8, <3>1, EventStays
    <3>3. PICK note \in Note : Tells(r, f, note)
      BY <3>2
    <3>4. /\ disk'[p][f] # None /\ LocalTs(p, f)' = Now(p)'
          /\ LocalClock(p, f)' = Tick(LocalClock(p, f), p)
          /\ \E m \in gossip' : Conveys(m.note, p, f)' /\ m.has = {p}
      BY <1>0, <3>2, <3>3, TellsNews
    <3>5. ASSUME NEW q \in Peer, q # p, ~Told(q, f)'
          PROVE  Dominates(LocalClock(p, f)', LocalClock(q, f)') \/ LocalTs(q, f)' < Now(p)'
      <4>1. /\ LocalClock(q, f)' = LocalClock(q, f) /\ LocalTs(q, f)' = LocalTs(q, f)
            /\ ~Told(q, f) /\ Now(p)' = Now(p)
        BY <1>0, <1>3, <1>8, <3>2, <3>5, OthersKept, SameLocal, ToldStays DEF SameAt, Now
      <4>2. round > 0
        BY <1>0, <1>3 DEF RoundInv, Begun
      <4>3. Covers(p, q, f) \/ Covers(q, p, f)
        BY <2>1, <2>8, <3>5, <4>1, <4>2 DEF AgreeInv, Untouched
      <4>4. /\ LocalClock(p, f) \in VectorClock /\ LocalClock(q, f) \in VectorClock
        BY <1>0, LocalTypes
      <4>5. Dominates(Tick(LocalClock(p, f), p), LocalClock(p, f))
        BY <4>4, TickDominates
      <4>6. \/ Dominates(LocalClock(p, f), LocalClock(q, f))
            \/ LocalClock(q, f) = LocalClock(p, f)
            \/ LocalTs(q, f) < Now(p)
        BY <1>3, <4>3 DEF Covers, Past
      <4>7. Tick(LocalClock(p, f), p) \in VectorClock
        BY <4>4, ClockTypes
      <4>8. \/ Dominates(Tick(LocalClock(p, f), p), LocalClock(q, f))
            \/ LocalTs(q, f) < Now(p)
        BY <4>4, <4>5, <4>6, <4>7, DominatesThrough
      <4> QED
        BY <3>4, <4>1, <4>8
    <3>6. Newer(p, f)'
      BY <3>5 DEF Newer
    <3> QED
      BY <3>4, <3>6
  <2> QED
    BY <2>3, <2>6, <2>7, <2>8
<1> QED
  <2>1. ~Closes
    BY <1>3 DEF Closes
  <2> QED
    BY <1>3, <1>5, <1>7, <1>8, <2>1 DEF RoundStep

\* When the edits are over every peer will take the version that stays.
LEMMA ClosesDecided ==
  ASSUME AlikePeers, AgreeInv, Closes, UNCHANGED skew PROVE Decided'
<1>0. /\ RoundInv /\ PacedTypeOK /\ Published /\ phase = "edit"
      /\ UNCHANGED <<round, edits, disk, meta, gossip, inbox, fetches>>
  BY DEF AgreeInv, RoundInv, Closes, tasks
<1>1. \A p \in Peer : \A x : ~Waits(p, "changed", x)
  BY EmptyQueue DEF Closes, Drained, Waits
<1>2. ASSUME NEW p \in Peer, NEW f \in File, Prevails(p, f)
      PROVE  Remains(p, f) /\ \A q \in Peer : q # p => GivesWay(p, q, f) /\ Hears(p, q, f)
  <2>1. Wrote(p, f) /\ Told(p, f)
    BY <1>1, <1>2 DEF Prevails, Told
  <2>2. /\ disk[p][f] # None /\ LocalTs(p, f) = Now(p)
        /\ \E m \in gossip : Conveys(m.note, p, f) /\ m.has = {p}
        /\ Newer(p, f)
    BY <1>0, <2>1 DEF Published
  <2>3. fetches[p] = {}
    BY <1>0 DEF RoundInv, Working
  <2>4. ASSUME NEW q \in Peer, q # p
        PROVE  GivesWay(p, q, f)
    <3>1. LocalClock(q, f)[p] < LocalClock(p, f)[p]
      BY <1>0, <1>1, <2>1, <2>4 DEF RoundInv, Ahead, Count
    <3>2. CASE Told(q, f)
      <4>1. LocalTs(q, f) = Now(q) /\ RemoteWins(Now(q), Now(p), p, q)
        BY <1>0, <1>2, <2>4, <3>2 DEF Published, Prevails, Told
      <4> QED
        BY <2>2, <3>1, <4>1 DEF GivesWay
    <3>3. CASE ~Told(q, f)
      BY <2>2, <2>4, <3>1, <3>3, LocalTypes, <1>0 DEF Newer, GivesWay, RemoteWins
    <3> QED
      BY <3>2, <3>3
  <2> QED
    BY <2>2, <2>3, <2>4 DEF Remains, Hears
<1>3. ASSUME NEW p \in Peer, NEW f \in File
      PROVE  /\ Prevails(p, f)' <=> Prevails(p, f)
             /\ Remains(p, f) => Remains(p, f)'
             /\ \A q \in Peer : GivesWay(p, q, f) /\ Hears(p, q, f) => GivesWay(p, q, f)' /\ Hears(p, q, f)'
  BY <1>0, SameFiles DEF Prevails, Remains, GivesWay, Hears, Conveys, LocalClock, LocalTs, Now
<1> QED
  BY <1>2, <1>3 DEF Decided, Takes

\* A peer that gives way does not turn the version down, nor takes it for a copy.
LEMMA GivingWay ==
  ASSUME PacedTypeOK, NEW p \in Peer, NEW q \in Peer, q # p, NEW f \in File,
         GivesWay(p, q, f), NEW note \in Note, Conveys(note, p, f)
  PROVE  Decision(q, note) \in {"Accept", "LocalLoses"}
<1> DEFINE c == LocalClock(q, f)
           d == LocalClock(p, f)
           order == Compare(c, d)
<1>1. c \in VectorClock /\ d \in VectorClock
  BY LocalTypes
<1>2. c[p] < d[p] /\ (Dominates(d, c) \/ RemoteWins(LocalTs(q, f), LocalTs(p, f), p, q))
  BY DEF GivesWay
<1>3. ~Dominates(c, d)
  <2>1. c[p] \in Nat /\ d[p] \in Nat
    BY <1>1 DEF VectorClock
  <2>2. ~(d[p] <= c[p])
    BY <1>2, <2>1
  <2> QED
    BY <2>2 DEF Dominates
<1>4. /\ order \in {"Before", "Concurrent"}
      /\ order = "Concurrent" => ~Dominates(d, c)
  BY <1>1, <1>3, CompareCases, CompareIsOrder
<1>5. Decision(q, note) = Resolve(c, d, LocalTs(q, f), LocalTs(p, f), p, q)
  BY DEF Decision, Conveys, About
<1>6. /\ order = "Before" => Resolve(c, d, LocalTs(q, f), LocalTs(p, f), p, q) = "Accept"
      /\ order = "Concurrent" /\ RemoteWins(LocalTs(q, f), LocalTs(p, f), p, q) =>
           Resolve(c, d, LocalTs(q, f), LocalTs(p, f), p, q) = "LocalLoses"
  BY DEF Resolve
<1> HIDE DEF c, d, order
<1> QED
  BY <1>2, <1>4, <1>5, <1>6

\* The version that stays is not lost to another.
LEMMA Prevailing ==
  ASSUME AlikePeers, AgreeInv, round > 0, NEW p \in Peer, NEW f \in File, Prevails(p, f),
         Remains(p, f), NEW d \in inbox[p], About(d.note, "changed", f), phase = "sync"
  PROVE  Decision(p, d.note) \notin {"Accept", "LocalLoses"}
<1> DEFINE q == d.note.peer
<1>0. /\ RoundInv /\ PacedTypeOK /\ d.note \in Note /\ d.note.clock \in VectorClock
      /\ q \in Peer /\ q # p
  BY Shapes, NoteShape DEF AgreeInv, RoundInv, Authors
<1>1. Wrote(q, f) /\ d.note.ts = Now(q)
  BY DEF AgreeInv, Dated, Timely, About
<1>2. ~RemoteWins(Now(p), Now(q), q, p)
  BY <1>0, <1>1, OnePrevails
<1>3. Decision(p, d.note) # "Accept"
  BY <1>0, AcceptedIsNew DEF Prevails, About
<1>4. Decision(p, d.note) = Resolve(LocalClock(p, f), d.note.clock, Now(p), Now(q), q, p)
  BY <1>0, <1>1 DEF Decision, About, Remains
<1>5. Compare(LocalClock(p, f), d.note.clock) \in {"Before", "After", "Equal", "Concurrent"}
  BY <1>0, LocalTypes, CompareCases
<1> DEFINE order == Compare(LocalClock(p, f), d.note.clock)
<1> HIDE DEF order
<1>6. Resolve(LocalClock(p, f), d.note.clock, Now(p), Now(q), q, p) # "LocalLoses"
  BY <1>2, <1>5 DEF Resolve, order
<1> QED
  BY <1>3, <1>4, <1>6

\* The version that stays is not fetched over.
LEMMA KeepsRemains ==
  ASSUME AlikePeers, AgreeInv, UNCHANGED skew, round > 0, phase = "sync",
         NEW r \in Peer, EngineStep(r), NEW p \in Peer, NEW f \in File,
         Prevails(p, f), Remains(p, f)
  PROVE  SameAt(p, f) /\ Remains(p, f)'
<1>0. RoundInv /\ PacedTypeOK /\ Wrote(p, f)
  BY DEF AgreeInv, RoundInv, Prevails
<1>1. SameAt(p, f)
  <2>1. ~Gone(f)
    BY <1>0, WrittenStays DEF RoundInv
  <2>2. SameFile(f) \/ \E g \in fetches[r] : g.path = f
    BY <1>0, <2>1, KeptFile DEF Tells
  <2>3. CASE r = p
    BY <2>2, <2>3 DEF Remains, SameFile
  <2> QED
    BY <1>0, <2>3, OthersKept
<1>2. ASSUME NEW g \in fetches'[p], g.path = f
      PROVE  FALSE
  <2>1. PICK d \in inbox[p] : Fetches(p, d, g)
    BY <1>0, <1>2, FetchOfStep DEF Remains
  <2>2. f \notin Backup
    BY PathAssumption
  <2>3. /\ d.note.path = f /\ About(d.note, "changed", f)
        /\ Decision(p, d.note) \in {"Accept", "LocalLoses"}
    BY <1>2, <2>1, <2>2, CopiesAreBackups DEF Fetches, AsksFor, Decides, About
  <2> QED
    BY <2>3, Prevailing
<1>3. Now(p)' = Now(p)
  BY SameUsers DEF Now
<1> QED
  BY <1>1, <1>2, <1>3, SameLocal DEF Remains, SameAt

\* When no change of f is on its way to q none sets out.
LEMMA StaysTaken ==
  ASSUME RoundInv, round > 0, phase = "sync", NEW r \in Peer, EngineStep(r),
         NEW q \in Peer, NEW f \in File, News(q, f) = {}, Mail(q, f) = {}
  PROVE  /\ News(q, f)' = {} /\ Mail(q, f)' = {}
         /\ (\A g \in fetches[q] : g.path # f) => \A g \in fetches'[q] : g.path # f
<1>0. PacedTypeOK /\ Authors
  BY DEF RoundInv
<1>1. News(q, f)' = {}
  BY <1>0, NoteOfStep DEF News, Tells, TellsRemoval, About
<1>2. ASSUME NEW d \in inbox'[q], About(d.note, "changed", f)
      PROVE  FALSE
  <2>1. PICK m \in gossip : Arrives(r, m, d) /\ q = r
    BY <1>0, <1>2, MailOfStep DEF Mail
  <2>2. About(m.note, "changed", f) /\ m.note.peer # q
    BY <1>0, <1>2, <2>1 DEF Arrives, Authors
  <2> QED
    BY <2>2 DEF News
<1>3. ASSUME \A g \in fetches[q] : g.path # f, NEW g \in fetches'[q], g.path = f
      PROVE  FALSE
  <2>1. PICK d \in inbox[q] : Fetches(q, d, g)
    BY <1>0, <1>3, FetchOfStep
  <2>2. f \notin Backup
    BY PathAssumption
  <2>3. d \in Mail(q, f)
    BY <1>3, <2>1, <2>2, CopiesAreBackups DEF Fetches, Mail, About
  <2> QED
    BY <2>3
<1> QED
  BY <1>1, <1>2, <1>3 DEF Mail

\* Who is to take the version hears of it until the fetch starts.
LEMMA StillHears ==
  ASSUME AlikePeers, AgreeInv, UNCHANGED skew, round > 0, phase = "sync",
         NEW r \in Peer, EngineStep(r), NEW p \in Peer, NEW f \in File,
         Prevails(p, f), Remains(p, f), NEW q \in Peer, q # p,
         GivesWay(p, q, f), Hears(p, q, f)
  PROVE  Takes(p, q, f)'
<1>0. /\ RoundInv /\ PacedTypeOK /\ TwoPeers /\ Wrote(p, f) /\ SameAt(p, f)
      /\ inbox \in [Peer -> SUBSET Delivery] /\ fetches \in [Peer -> SUBSET Fetch]
  BY KeepsRemains, Domains DEF AgreeInv, RoundInv, Prevails, AlikePeers, TwoCarefulPeers
<1>1. Loads(q, f) = {}
  <2>1. News(q, f) # {} \/ Mail(q, f) # {}
    BY DEF Hears, News, Mail, Conveys
  <2> QED
    BY <1>0, <2>1 DEF RoundInv, OneNews
<1>2. SameAt(q, f)
  <2>1. ~Gone(f)
    BY <1>0, WrittenStays DEF RoundInv
  <2>2. SameFile(f) \/ \E g \in fetches[r] : g.path = f
    BY <1>0, <2>1, KeptFile DEF Tells
  <2>3. CASE r = q
    BY <1>1, <2>2, <2>3 DEF Loads, SameFile
  <2> QED
    BY <1>0, <2>3, OthersKept
<1>3. /\ LocalClock(p, f)' = LocalClock(p, f) /\ LocalTs(p, f)' = LocalTs(p, f)
      /\ LocalClock(q, f)' = LocalClock(q, f) /\ LocalTs(q, f)' = LocalTs(q, f)
      /\ disk'[p][f] = disk[p][f]
  BY <1>0, <1>2, SameLocal DEF SameAt
<1>4. GivesWay(p, q, f)'
  BY <1>3 DEF GivesWay
<1>5. ASSUME NEW m \in gossip, Conveys(m.note, p, f), m.has = {p}
      PROVE  Hears(p, q, f)'
  <2>1. Conveys(m.note, p, f)'
    BY <1>0, <1>5, SameConveys
  <2>2. ASSUME NEW d \in Delivery, Arrives(r, m, d)
        PROVE  d \in inbox'[q] /\ d.note = m.note /\ d.source = p
    BY <1>0, <1>5, <2>2, ArrivesThere DEF Arrives, Through
  <2>3. m \in gossip' \/ \E d \in Delivery : Arrives(r, m, d)
    BY <1>0, NewsStays
  <2>4. CASE m \in gossip'
    BY <1>5, <2>1, <2>4 DEF Hears
  <2>5. CASE \E d \in Delivery : Arrives(r, m, d)
    BY <2>1, <2>2, <2>5 DEF Hears
  <2> QED
    BY <2>3, <2>4, <2>5
<1>6. ASSUME NEW d \in inbox[q], Conveys(d.note, p, f), d.source = p
      PROVE  Hears(p, q, f)' \/ Fetching(p, q, f)'
  <2>1. Decision(q, d.note) \in {"Accept", "LocalLoses"}
    BY <1>0, <1>6, Shapes, GivingWay
  <2>2. CASE d \in inbox'[q]
    <3>1. Conveys(d.note, p, f)'
      BY <1>0, <1>6, SameConveys
    <3> QED
      BY <1>6, <2>2, <3>1 DEF Hears
  <2>3. ASSUME NEW h \in Fetch, Fetches(q, d, h)
        PROVE  Fetching(p, q, f)'
    <3>1. h \in fetches'[q] /\ h.clock = d.note.clock
      BY <1>0, <2>3 DEF Fetches
    <3>2. /\ h.pc = "request" /\ h.source = p /\ h.path = f
          /\ h.n = Len(d.note.data) /\ h.ts = d.note.ts
      BY <1>6, <2>1, <2>3 DEF Fetches, AsksFor, Decides, Conveys, About
    <3>3. Brings(h, p, q, f)'
      BY <1>3, <1>6, <3>2 DEF Brings, Conveys
    <3> QED
      BY <1>3, <1>6, <3>1, <3>2, <3>3 DEF Fetching, Conveys
  <2>4. ~Refuses(q, d) /\ ~Removes(q, d)
    BY <1>6, <2>1 DEF Refuses, Decides, Removes, Conveys, About
  <2> QED
    BY <1>0, <2>2, <2>3, <2>4, MailStays DEF FetchesBeside, FetchesOver
<1> QED
  BY <1>4, <1>5, <1>6 DEF Hears, Takes

\* A fetch of the version goes on until it is taken.
LEMMA StillFetches ==
  ASSUME AlikePeers, AgreeInv, UNCHANGED skew, round > 0, phase = "sync",
         NEW r \in Peer, EngineStep(r), NEW p \in Peer, NEW f \in File,
         Prevails(p, f), Remains(p, f), NEW q \in Peer, q # p, Fetching(p, q, f)
  PROVE  Takes(p, q, f)'
<1>0. /\ RoundInv /\ PacedTypeOK /\ Wrote(p, f) /\ SameAt(p, f)
      /\ fetches \in [Peer -> SUBSET Fetch]
      /\ meta \in [Peer -> [Path -> Meta \cup {None}]]
  BY KeepsRemains, Domains DEF AgreeInv, RoundInv, Prevails
<1>1. PICK g \in fetches[q] : /\ g.path = f /\ Brings(g, p, q, f)
                              /\ g.clock = LocalClock(p, f) /\ g.ts = LocalTs(p, f)
  BY DEF Fetching
<1>2. g \in Loads(q, f)
  BY <1>1 DEF Loads
<1>3. /\ \A h \in fetches[q] : h.path = f => h = g
      /\ News(q, f) = {} /\ Mail(q, f) = {}
  BY <1>0, <1>2 DEF RoundInv, OneNews, Loads, AtMostOne
<1>4. /\ LocalClock(p, f)' = LocalClock(p, f) /\ LocalTs(p, f)' = LocalTs(p, f)
      /\ disk'[p][f] = disk[p][f] /\ disk[p][f] # None
  BY <1>0, SameLocal DEF SameAt, Remains
<1>5. ASSUME NEW h \in Fetch, r = q, Loading(r, g, h) \/ Writing(r, g, h)
      PROVE  Fetching(p, q, f)'
  <2>1. h \in fetches'[q] /\ h.path = f /\ h.clock = g.clock /\ h.ts = g.ts
    BY <1>0, <1>1, <1>5 DEF Loading, Writing, Proceeds, SameRequest
  <2>2. Brings(h, p, q, f)'
    BY <1>1, <1>4, <1>5, LoadingBrings, WritingBrings
  <2> QED
    BY <1>1, <1>4, <2>1, <2>2 DEF Fetching
<1>6. ASSUME r = q, Ends(r, g)
      PROVE  HasTaken(p, q, f)'
  <2>1. /\ UNCHANGED disk /\ disk[q][f] = disk[p][f]
        /\ meta' = [meta EXCEPT ![q][f] = Applied(q, g)]
    BY <1>1, <1>4, <1>6, EndBrings
  <2>2. Applied(q, g) = [clock |-> Merge(LocalClock(q, f), LocalClock(p, f)), ts |-> Now(p)]
    BY <1>1 DEF Applied, Remains
  <2>3. Applied(q, g) \in Meta
    BY <1>0, <1>1, Shapes, FileIsPath, ClockTypes DEF Applied, Meta, Fetch
  <2>4. meta'[q][f] = Applied(q, g) /\ meta'[q][f] # None
    BY <1>0, <2>1, <2>3, FileIsPath, NoneAssumption
  <2>5. /\ LocalClock(q, f)' = Merge(LocalClock(q, f), LocalClock(p, f))
        /\ LocalTs(q, f)' = Now(p)
    BY <2>2, <2>4 DEF LocalClock, LocalTs
  <2>6. Dominates(LocalClock(q, f)', LocalClock(p, f)')
    BY <1>0, <1>4, <2>5, LocalTypes, MergeIsLub
  <2>7. Past(LocalTs(q, f), p)'
    BY <2>5, SameUsers DEF Past, Now
  <2>8. fetches' = [fetches EXCEPT ![q] = @ \ {g}]
    BY <1>6 DEF Ends
  <2>9. \A h \in fetches'[q] : h.path # f
    BY <1>0, <1>3, <2>8
  <2>10. News(q, f)' = {} /\ Mail(q, f)' = {}
    BY <1>0, <1>3, StaysTaken
  <2> QED
    BY <1>4, <2>1, <2>6, <2>7, <2>9, <2>10 DEF HasTaken, Covers
<1>7. ASSUME ~(r = q /\ Ends(r, g)), \A h \in Fetch : ~(r = q /\ (Loading(r, g, h) \/ Writing(r, g, h)))
      PROVE  Fetching(p, q, f)'
  <2>1. g \in fetches'[q]
    BY <1>0, <1>7, FetchStays
  <2>2. ~Gone(f)
    BY <1>0, WrittenStays DEF RoundInv
  <2>3. SameAt(q, f)
    <3>1. CASE r = q
      BY <1>0, <1>3, <1>7, <2>2, <3>1, KeptFile DEF SameFile, Tells
    <3> QED
      BY <1>0, <3>1, OthersKept
  <2>4. Brings(g, p, q, f)'
    BY <1>1, <1>4, <2>3 DEF Brings, SameAt
  <2> QED
    BY <1>1, <1>4, <2>1, <2>4 DEF Fetching
<1> QED
  BY <1>5, <1>6, <1>7 DEF Takes

\* Who has taken the version keeps it.
LEMMA StillHasTaken ==
  ASSUME AlikePeers, AgreeInv, UNCHANGED skew, round > 0, phase = "sync",
         NEW r \in Peer, EngineStep(r), NEW p \in Peer, NEW f \in File,
         Prevails(p, f), Remains(p, f), NEW q \in Peer, q # p, HasTaken(p, q, f)
  PROVE  HasTaken(p, q, f)'
<1>0. RoundInv /\ PacedTypeOK /\ Wrote(p, f) /\ SameAt(p, f)
  BY KeepsRemains DEF AgreeInv, RoundInv, Prevails
<1>1. SameAt(q, f)
  <2>1. ~Gone(f)
    BY <1>0, WrittenStays DEF RoundInv
  <2>2. SameFile(f) \/ \E g \in fetches[r] : g.path = f
    BY <1>0, <2>1, KeptFile DEF Tells
  <2>3. CASE r = q
    BY <2>2, <2>3 DEF HasTaken, SameFile
  <2> QED
    BY <1>0, <2>3, OthersKept
<1>2. Covers(q, p, f)'
  BY <1>0, <1>1, CoversOn, SameUsers DEF HasTaken
<1>3. /\ News(q, f)' = {} /\ Mail(q, f)' = {} /\ \A g \in fetches'[q] : g.path # f
  BY <1>0, StaysTaken DEF HasTaken
<1> QED
  BY <1>0, <1>1, <1>2, <1>3 DEF HasTaken, SameAt

LEMMA KeepsDecided ==
  ASSUME AlikePeers, AgreeInv, RoundStep, UNCHANGED skew PROVE Decided'
<1>0. Decided /\ RoundInv /\ PacedTypeOK
  BY DEF AgreeInv, RoundInv
<1>1. CASE phase' = "edit"
  BY <1>1 DEF Decided
<1>2. CASE Rests
  <2>1. UNCHANGED <<round, phase, edits, disk, meta, gossip, inbox, fetches>>
    BY <1>2 DEF Rests, users, tasks
  <2>2. ASSUME NEW p \in Peer, NEW f \in File
        PROVE  /\ Prevails(p, f)' <=> Prevails(p, f)
               /\ Remains(p, f)' <=> Remains(p, f)
               /\ \A q \in Peer : Takes(p, q, f) => Takes(p, q, f)'
    <3>1. Prevails(p, f)' <=> Prevails(p, f)
      BY <2>1, SameFiles DEF Prevails, Now
    <3>2. Remains(p, f)' <=> Remains(p, f)
      BY <2>1 DEF Remains, LocalTs, Now
    <3>3. ASSUME NEW q \in Peer
          PROVE  /\ GivesWay(p, q, f) => GivesWay(p, q, f)'
                 /\ Hears(p, q, f) => Hears(p, q, f)'
                 /\ Fetching(p, q, f) => Fetching(p, q, f)'
                 /\ HasTaken(p, q, f) => HasTaken(p, q, f)'
      BY <2>1 DEF GivesWay, Hears, Fetching, HasTaken, Conveys, Brings, LocalClock, LocalTs, Now,
         Covers, Past, News, Mail
    <3> QED
      BY <3>1, <3>2, <3>3 DEF Takes
  <2> QED
    BY <1>0, <2>1, <2>2 DEF Decided
<1>3. ASSUME NEW r \in Peer, EngineStep(r)
      PROVE  Decided'
  <2>0. UNCHANGED <<round, phase, edits>>
    BY <1>3, SameUsers
  <2>1. SUFFICES ASSUME round > 0, phase = "sync", NEW p \in Peer, NEW f \in File, Prevails(p, f)'
                 PROVE  Remains(p, f)' /\ \A q \in Peer : q # p => Takes(p, q, f)'
    BY <2>0 DEF Decided
  <2>2. Prevails(p, f)
    BY <2>0, <2>1, SameFiles DEF Prevails, Now
  <2>3. Remains(p, f) /\ \A q \in Peer : q # p => Takes(p, q, f)
    BY <1>0, <2>1, <2>2 DEF Decided
  <2>4. Remains(p, f)'
    BY <1>3, <2>1, <2>2, <2>3, KeepsRemains
  <2>5. ASSUME NEW q \in Peer, q # p
        PROVE  Takes(p, q, f)'
    BY <1>3, <2>1, <2>2, <2>3, <2>5, StillHears, StillFetches, StillHasTaken DEF Takes
  <2> QED
    BY <2>4, <2>5
<1>4. CASE Closes
  BY <1>4, ClosesDecided
<1>5. CASE Begins
  BY <1>1, <1>5 DEF Begins
<1>6. ASSUME NEW p \in Peer, NEW f \in File, (\E v \in Content : Writes(p, f, v)) \/ Erases(p, f)
      PROVE  Decided'
  BY <1>1, <1>6 DEF Writes, Erases, Edits
<1> QED
  BY <1>2, <1>3, <1>4, <1>5, <1>6 DEF RoundStep

LEMMA KeepsStanding ==
  ASSUME AlikePeers, AgreeInv, RoundStep, UNCHANGED skew PROVE Standing'
<1>0. /\ Standing /\ Decided /\ RoundInv /\ PacedTypeOK /\ phase \in {"edit", "sync"}
      /\ edits \subseteq Edit /\ round \in Nat
      /\ disk \in [Peer -> [Path -> Content \cup {None}]]
  BY Domains DEF AgreeInv, RoundInv
<1>1. CASE Begins
  BY <1>1 DEF Begins, Standing
<1>2. CASE Closes
  BY <1>0, <1>2 DEF Closes, Standing
<1>3. CASE Rests
  <2>1. UNCHANGED <<round, phase, edits, disk>>
    BY <1>3 DEF Rests, users
  <2>2. \A p, f : Prevails(p, f)' <=> Prevails(p, f)
    BY <2>1, SameFiles DEF Prevails, Now
  <2> QED
    BY <1>0, <2>1, <2>2 DEF Standing
<1>4. ASSUME NEW r \in Peer, NEW x \in File, NEW kind \in {"changed", "removed"}, NEW c,
             Edits(r, x, kind, c)
      PROVE  Standing'
  <2>1. /\ edits' = edits \cup {[peer |-> r, file |-> x, left |-> c]}
        /\ \A e \in edits : ~(e.peer = r /\ e.file = x)
        /\ phase = "edit" /\ disk' = [disk EXCEPT ![r][x] = c]
    BY <1>4 DEF Edits
  <2>2. ASSUME NEW e \in edits
        PROVE  disk'[e.peer][e.file] = e.left
    <3>1. disk[e.peer][e.file] = e.left /\ e.peer \in Peer /\ e.file \in Path
      BY <1>0, <2>1, FileIsPath DEF Standing, Edit
    <3> QED
      BY <1>0, <2>1, <3>1, FileIsPath
  <2>3. disk'[r][x] = c
    BY <1>0, <2>1, FileIsPath
  <2> QED
    BY <2>1, <2>2, <2>3 DEF Standing
<1>5. ASSUME NEW r \in Peer, EngineStep(r), NEW e \in edits',
             phase' = "edit" \/ Prevails(e.peer, e.file)'
      PROVE  disk'[e.peer][e.file] = e.left
  <2>1. UNCHANGED <<round, phase, edits>>
    BY <1>5, SameUsers
  <2>2. e \in edits /\ (Prevails(e.peer, e.file)' => Prevails(e.peer, e.file))
    BY <1>5, <2>1, SameFiles DEF Prevails, Now
  <2>3. disk[e.peer][e.file] = e.left /\ e.peer \in Peer /\ e.file \in File
    BY <1>0, <1>5, <2>1, <2>2 DEF Standing, Edit
  <2>4. CASE phase = "edit"
    <3>1. UNCHANGED disk
      BY <1>5, <2>4, EditSteps DEF Moves, Skips, Tells, TellsRemoval, users
    <3> QED
      BY <2>3, <3>1
  <2>5. CASE phase = "sync"
    <3>1. round > 0
      BY <2>2 DEF AgreeInv, RoundInv, Begun
    <3>2. Prevails(e.peer, e.file)
      BY <1>5, <2>1, <2>2, <2>5
    <3>3. SameAt(e.peer, e.file)
      BY <1>0, <1>5, <2>3, <2>5, <3>1, <3>2, KeepsRemains DEF Decided
    <3> QED
      BY <2>3, <3>3 DEF SameAt
  <2> QED
    BY <1>0, <2>4, <2>5
<1>6. CASE \E r \in Peer : EngineStep(r)
  BY <1>5, <1>6 DEF Standing
<1> QED
  BY <1>1, <1>2, <1>3, <1>4, <1>6 DEF RoundStep, Writes, Erases

-----------------------------------------------------------------------------
(* Before the first round *)

LEMMA ReconShape ==
  ASSUME PacedTypeOK, NEW p \in Peer, NEW s \in recon[p]
  PROVE  /\ s \in [pc : {"root", "compare", "tree", "diff", "fetch"}, source : Peer,
                   tree : Folder, todo : SUBSET Path, id : Nat]
         /\ s.pc # "fetch" => s.todo = {}
         /\ \A x \in s.todo : s.tree[x] # None
<1>1. s \in Reconcile
  BY DEF PacedTypeOK, TypeOK, TaskType
<1> QED
  BY <1>1 DEF Reconcile

\* Which steps the engines take before the first round.
LEMMA FirstCases ==
  ASSUME AgreeInv, round = 0, NEW r \in Peer, EngineStep(r)
  PROVE  \/ UNCHANGED <<disk, tree, fetches, recon, met>>
         \/ Reconciles(r)
         \/ /\ UNCHANGED <<recon, met>>
            /\ \E g \in fetches[r] : Ends(r, g) \/ \E h \in Fetch : Loading(r, g, h) \/ Writing(r, g, h)
<1>1. inbox[r] = {} /\ unindex[r] = {} /\ gossip = {}
  BY DEF AgreeInv, Blank
<1>2. \A f, note : ~Tells(r, f, note) /\ ~TellsRemoval(r, f, note)
  BY FirstSteps
<1>3. CASE Drops(r) \/ Moves(r) \/ Skips(r)
  BY <1>3 DEF Drops, Moves, Skips, users, tasks, SameTree
<1>4. ASSUME NEW g \in fetches[r],
             Ends(r, g) \/ \E h \in Fetch : Loading(r, g, h) \/ Writing(r, g, h)
      PROVE  UNCHANGED <<recon, met>>
  BY <1>4 DEF Ends, Loading, Writing, Proceeds, users
<1> QED
  BY <1>1, <1>2, <1>3, <1>4 DEF EngineStep

\* What a reconciliation of r with q is to keep.
Meanwhile(r, q, f) ==
  /\ Pulls(r, f)' => Holds(q, f) /\ ~Pulls(q, f)
  /\ \A g \in fetches'[r] : g.path = f => Brings(g, q, r, f)
  /\ \A s \in recon'[r] : /\ s.source = q
                          /\ s.tree[f] # None => Holds(q, f) /\ s.tree[f] = disk[q][f]
  /\ Holds(q, f) => Holds(r, f) \/ Asks(r, q, f)'

\* The reconciliation s becomes t.
LEMMA ReconGoesOn ==
  ASSUME PacedTypeOK, NEW r \in Peer, NEW q \in Peer, q # r, NEW f \in File,
         Meets(r, q, f), UNCHANGED fetches, <<r, q>> \in met' => <<r, q>> \in met,
         NEW s \in recon[r], NEW t, StepRecon(r, s, t), t.source = q,
         t.tree[f] # None => Holds(q, f) /\ t.tree[f] = disk[q][f],
         f \in t.todo => Holds(q, f) /\ ~Pulls(q, f),
         f \in s.todo => f \in t.todo,
         Holds(q, f) /\ Looks(s, f) => Holds(r, f) \/ Looks(t, f) \/ f \in t.todo
  PROVE  Meanwhile(r, q, f)
<1>1. recon'[r] = (recon[r] \ {s}) \cup {t}
  BY DEF StepRecon, PacedTypeOK, TypeOK, TaskType
<1>2. Pulls(r, f)' => Holds(q, f) /\ ~Pulls(q, f)
  BY <1>1 DEF Pulls, Meets
<1>3. ASSUME Holds(q, f), ~Holds(r, f)
      PROVE  Asks(r, q, f)'
  <2>1. Pulls(r, f) => Pulls(r, f)'
    BY <1>1 DEF Pulls
  <2>2. (\E w \in recon[r] : Looks(w, f)) => (\E w \in recon'[r] : Looks(w, f)) \/ f \in t.todo
    BY <1>1, <1>3
  <2>3. f \in t.todo => Pulls(r, f)'
    BY <1>1 DEF Pulls
  <2>4. (\E w \in recon'[r] : Looks(w, f)) => Asks(r, q, f)'
    BY DEF Asks, Looks
  <2> QED
    BY <1>3, <2>1, <2>2, <2>3, <2>4 DEF Meets, Asks
<1> QED
  BY <1>1, <1>2, <1>3 DEF Meanwhile, Meets

\* The reconciliation s is over.
LEMMA ReconGoes ==
  ASSUME PacedTypeOK, NEW r \in Peer, NEW q \in Peer, q # r, NEW f \in File,
         Meets(r, q, f), UNCHANGED <<fetches, met>>, NEW s \in recon[r], EndRecon(r, s),
         f \notin s.todo, Holds(q, f) /\ Looks(s, f) => Holds(r, f)
  PROVE  Meanwhile(r, q, f)
<1>1. recon'[r] = recon[r] \ {s}
  BY DEF EndRecon, PacedTypeOK, TypeOK, TaskType
<1>2. Pulls(r, f)' => Holds(q, f) /\ ~Pulls(q, f)
  BY <1>1 DEF Pulls, Meets
<1>3. ASSUME Holds(q, f), ~Holds(r, f)
      PROVE  Asks(r, q, f)'
  <2>1. Pulls(r, f) => Pulls(r, f)'
    BY <1>1 DEF Pulls
  <2>2. (\E w \in recon[r] : Looks(w, f)) => \E w \in recon'[r] : Looks(w, f)
    BY <1>1, <1>3
  <2>3. (\E w \in recon'[r] : Looks(w, f)) => Asks(r, q, f)'
    BY DEF Asks, Looks
  <2> QED
    BY <1>3, <2>1, <2>2, <2>3 DEF Meets, Asks
<1> QED
  BY <1>1, <1>2, <1>3 DEF Meanwhile, Meets

LEMMA ReconcilesMeets ==
  ASSUME AlikePeers, AgreeInv, round = 0, NEW r \in Peer, Reconciles(r),
         NEW q \in Peer, q # r, NEW f \in File
  PROVE  Meanwhile(r, q, f) /\ fetches'[q] = fetches[q] /\ recon'[q] = recon[q]
         /\ (<<q, r>> \in met' => <<q, r>> \in met)
<1>0. /\ PacedTypeOK /\ RoundInv /\ NoPull = {} /\ Excluded[r] = {}
      /\ Meets(r, q, f) /\ Meets(q, r, f) /\ f \in Path
      /\ tree \in [Peer -> [Path -> Content \cup {None}]]
      /\ fetches \in [Peer -> SUBSET Fetch]
      /\ recon \in [Peer -> SUBSET Reconcile]
  BY Group, FileIsPath, TreeDomain, Domains
     DEF AgreeInv, RoundInv, AlikePeers, Meeting, PacedTypeOK, TypeOK, TaskType
<1>1. ASSUME NEW s \in recon[r]
      PROVE  /\ s.source = q /\ (s.tree[f] # None => Holds(q, f) /\ s.tree[f] = disk[q][f])
             /\ s \in [pc : {"root", "compare", "tree", "diff", "fetch"}, source : Peer,
                       tree : Folder, todo : SUBSET Path, id : Nat]
             /\ s.pc # "fetch" => s.todo = {}
             /\ \A x \in s.todo : s.tree[x] # None
  BY <1>0, <1>1, ReconShape DEF Meets
<1>2. ASSUME NEW s \in recon[r], NEW t, StepRecon(r, s, t) \/ EndRecon(r, s)
      PROVE  recon'[q] = recon[q]
  BY <1>0, <1>2 DEF StepRecon, EndRecon
<1>3. ASSUME NEW o \in Peer, Discover(r, o)
      PROVE  Meanwhile(r, q, f) /\ fetches'[q] = fetches[q] /\ recon'[q] = recon[q]
             /\ (<<q, r>> \in met' => <<q, r>> \in met)
  <2> DEFINE t == [pc |-> "root", source |-> o, tree |-> EmptyFolder, todo |-> {}, id |-> ops + 1]
  <2>1. o = q
    BY <1>3 DEF Discover, AlikePeers, Linked, TwoCarefulPeers, TwoPeers
  <2>2. /\ UNCHANGED fetches /\ met' = met \cup {<<r, q>>}
        /\ recon' = [recon EXCEPT ![r] = @ \cup {t}]
    BY <1>3, <2>1 DEF Discover
  <2>3. t.pc = "root" /\ t.source = q /\ t.tree[f] = None /\ t.todo = {}
    BY <1>0, <2>1 DEF EmptyFolder
  <2> HIDE DEF t
  <2>4. recon'[r] = recon[r] \cup {t} /\ recon'[q] = recon[q]
    BY <1>0, <2>2
  <2>5. Pulls(r, f)' => Pulls(r, f)
    BY <2>2, <2>3, <2>4 DEF Pulls
  <2>6. Asks(r, q, f)'
    BY <2>3, <2>4 DEF Asks, Looks
  <2>7. Meanwhile(r, q, f)
    BY <1>0, <2>2, <2>3, <2>4, <2>5, <2>6 DEF Meanwhile, Meets
  <2> QED
    BY <2>2, <2>4, <2>7
<1>4. ASSUME NEW s \in recon[r], ServeRootHash(r, s)
      PROVE  Meanwhile(r, q, f) /\ UNCHANGED <<fetches, met>> /\ recon'[q] = recon[q]
  <2> DEFINE t == [s EXCEPT !.pc = "compare", !.tree = tree[s.source]]
  <2>1. StepRecon(r, s, t) /\ UNCHANGED <<fetches, met>> /\ s.pc = "root"
    BY <1>4 DEF ServeRootHash, ReconAt, netVars
  <2>2. t.pc = "compare" /\ t.source = q /\ t.tree = tree[q] /\ t.todo = {}
    BY <1>1, <2>1
  <2>3. s.todo = {}
    BY <1>1, <2>1
  <2> HIDE DEF t
  <2>4. /\ t.tree[f] # None => Holds(q, f) /\ t.tree[f] = disk[q][f]
        /\ Holds(q, f) => Looks(t, f)
    BY <1>0, <2>2 DEF Meets, Holds, Looks
  <2> QED
    BY <1>0, <1>2, <2>1, <2>2, <2>3, <2>4, ReconGoesOn
<1>5. ASSUME NEW s \in recon[r], ServeTree(r, s)
      PROVE  Meanwhile(r, q, f) /\ UNCHANGED <<fetches, met>> /\ recon'[q] = recon[q]
  <2> DEFINE t == [s EXCEPT !.pc = "diff", !.tree = tree[s.source]]
  <2>1. StepRecon(r, s, t) /\ UNCHANGED <<fetches, met>> /\ s.pc = "tree"
    BY <1>5 DEF ServeTree, ReconAt, netVars
  <2>2. t.pc = "diff" /\ t.source = q /\ t.tree = tree[q] /\ t.todo = {}
    BY <1>1, <2>1
  <2>3. s.todo = {}
    BY <1>1, <2>1
  <2> HIDE DEF t
  <2>4. /\ t.tree[f] # None => Holds(q, f) /\ t.tree[f] = disk[q][f]
        /\ Holds(q, f) => Looks(t, f)
    BY <1>0, <2>2 DEF Meets, Holds, Looks
  <2> QED
    BY <1>0, <1>2, <2>1, <2>2, <2>3, <2>4, ReconGoesOn
<1>6. ASSUME NEW s \in recon[r], CompareRoots(r, s)
      PROVE  Meanwhile(r, q, f) /\ UNCHANGED <<fetches, met>> /\ recon'[q] = recon[q]
  <2> DEFINE t == [s EXCEPT !.pc = "tree", !.tree = EmptyFolder]
  <2>1. UNCHANGED <<fetches, met>> /\ s.pc = "compare" /\ s.todo = {}
    BY <1>1, <1>6 DEF CompareRoots, ReconAt, netVars
  <2>2. CASE s.tree = tree[r]
    <3>1. EndRecon(r, s)
      BY <1>6, <2>2 DEF CompareRoots
    <3>2. Holds(q, f) /\ Looks(s, f) => Holds(r, f)
      BY <1>0, <2>1, <2>2 DEF Looks, Meets
    <3> QED
      BY <1>0, <1>2, <2>1, <3>1, <3>2, ReconGoes
  <2>3. CASE s.tree # tree[r]
    <3>1. StepRecon(r, s, t)
      BY <1>6, <2>3 DEF CompareRoots
    <3>2. t.pc = "tree" /\ t.source = q /\ t.tree[f] = None /\ t.todo = {}
      BY <1>0, <1>1, <2>1 DEF EmptyFolder
    <3> HIDE DEF t
    <3>3. Looks(t, f)
      BY <3>2 DEF Looks
    <3> QED
      BY <1>0, <1>2, <2>1, <3>1, <3>2, <3>3, ReconGoesOn
  <2> QED
    BY <2>2, <2>3
<1>7. ASSUME NEW s \in recon[r], DiffTrees(r, s)
      PROVE  Meanwhile(r, q, f) /\ UNCHANGED <<fetches, met>> /\ recon'[q] = recon[q]
  <2> DEFINE t == [s EXCEPT !.pc = "fetch", !.todo = ToPull(r, s)]
  <2>1. StepRecon(r, s, t) /\ UNCHANGED <<fetches, met>> /\ s.pc = "diff" /\ s.todo = {}
    BY <1>1, <1>7 DEF DiffTrees, ReconAt, netVars
  <2>2. t.source = q /\ t.tree = s.tree /\ t.todo = Diff(tree[r], s.tree)
    BY <1>0, <1>1 DEF ToPull
  <2> HIDE DEF t
  <2>3. f \in t.todo <=> s.tree[f] # None /\ s.tree[f] # tree[r][f]
    BY <1>0, <2>2 DEF Diff
  <2>4. ASSUME f \in t.todo
        PROVE  Holds(q, f) /\ ~Pulls(q, f)
    <3>1. Holds(q, f) /\ s.tree[f] = disk[q][f]
      BY <1>1, <2>3, <2>4
    <3>2. ~Holds(r, f)
      BY <1>0, <2>3, <2>4, <3>1 DEF Meets, Holds
    <3> QED
      BY <1>0, <3>1, <3>2 DEF Meets
  <2>5. Holds(q, f) /\ Looks(s, f) => Holds(r, f) \/ f \in t.todo
    BY <1>0, <2>1, <2>3 DEF Looks, Meets
  <2> QED
    BY <1>0, <1>1, <1>2, <2>1, <2>2, <2>4, <2>5, ReconGoesOn
<1>8. ASSUME NEW s \in recon[r], ReconcileComplete(r, s)
      PROVE  Meanwhile(r, q, f) /\ UNCHANGED <<fetches, met>> /\ recon'[q] = recon[q]
  <2>1. EndRecon(r, s) /\ UNCHANGED <<fetches, met>> /\ s.todo = {} /\ s.pc = "fetch"
    BY <1>8 DEF ReconcileComplete, ReconAt, netVars
  <2>2. ~Looks(s, f)
    BY <2>1 DEF Looks
  <2> QED
    BY <1>0, <1>2, <2>1, <2>2, ReconGoes
<1>9. ASSUME NEW s \in recon[r], NEW x \in Path, NEW ts \in Nat, FetchNext(r, s, x, ts)
      PROVE  Meanwhile(r, q, f) /\ fetches'[q] = fetches[q] /\ recon'[q] = recon[q] /\ UNCHANGED met
  <2> DEFINE t == [s EXCEPT !.todo = @ \ {x}]
             g == [pc |-> "request", source |-> s.source, path |-> x,
                   n |-> Len(s.tree[x]), clock |-> NewClock, ts |-> ts,
                   data |-> <<>>, hash |-> s.tree[x], id |-> s.id]
  <2>1. /\ StepRecon(r, s, t) /\ UNCHANGED met /\ x \in s.todo /\ s.pc = "fetch"
        /\ fetches' = [fetches EXCEPT ![r] = @ \cup {g}]
    BY <1>0, <1>9 DEF FetchNext, ReconAt, netVars
  <2>2. /\ g.pc = "request" /\ g.source = q /\ g.path = x /\ g.n = Len(s.tree[x])
        /\ t.pc = "fetch" /\ t.source = q /\ t.tree = s.tree /\ t.todo = s.todo \ {x}
    BY <1>1, <2>1
  <2> HIDE DEF t, g
  <2>3. /\ fetches'[r] = fetches[r] \cup {g} /\ fetches'[q] = fetches[q]
        /\ recon'[r] = (recon[r] \ {s}) \cup {t}
    BY <1>0, <2>1 DEF StepRecon
  <2>4. Pulls(r, f)' <=> Pulls(r, f)
    BY <2>1, <2>2, <2>3 DEF Pulls
  <2>5. ASSUME x = f
        PROVE  Brings(g, q, r, f)
    <3>1. s.tree[f] # None
      BY <1>1, <2>1, <2>5
    <3> QED
      BY <1>1, <2>2, <2>5, <3>1 DEF Brings
  <2>6. ~Looks(s, f)
    BY <2>1 DEF Looks
  <2>7. ASSUME Asks(r, q, f)
        PROVE  Asks(r, q, f)'
    <3>1. (\E w \in recon[r] : Looks(w, f)) => \E w \in recon'[r] : Looks(w, f)
      BY <2>3, <2>6
    <3>2. (\E w \in recon'[r] : Looks(w, f)) => Asks(r, q, f)'
      BY DEF Asks, Looks
    <3>3. <<r, q>> \notin met \/ Pulls(r, f) => Asks(r, q, f)'
      BY <2>1, <2>4 DEF Asks
    <3> QED
      BY <2>7, <3>1, <3>2, <3>3 DEF Asks
  <2>8. \A w \in recon'[r] : /\ w.source = q
                             /\ w.tree[f] # None => Holds(q, f) /\ w.tree[f] = disk[q][f]
    BY <1>1, <2>2, <2>3
  <2>9. Meanwhile(r, q, f)
    BY <1>0, <2>2, <2>3, <2>4, <2>5, <2>7, <2>8 DEF Meanwhile, Meets
  <2> QED
    BY <1>2, <2>1, <2>3, <2>9
<1> QED
  BY <1>3, <1>4, <1>5, <1>6, <1>7, <1>8, <1>9 DEF Reconciles, Compares

\* A step in another file.
LEMMA MeetsOn ==
  ASSUME NEW f \in File, SameFile(f), UNCHANGED <<recon, met>>,
         NEW p \in Peer, NEW q \in Peer, Meets(p, q, f),
         \A o \in Peer : \A g : g.path = f => (g \in fetches'[o] <=> g \in fetches[o])
  PROVE  Meets(p, q, f)'
<1>1. \A o \in Peer : disk'[o][f] = disk[o][f] /\ tree'[o][f] = tree[o][f]
  BY DEF SameFile, SameAt
<1>2. \A o \in Peer : Holds(o, f)' <=> Holds(o, f)
  BY <1>1 DEF Holds
<1>3. \A o \in Peer : Pulls(o, f)' <=> Pulls(o, f)
  BY DEF Pulls
<1>4. \A g : Brings(g, q, p, f)' <=> Brings(g, q, p, f)
  BY <1>1 DEF Brings
<1>5. Asks(p, q, f)' <=> Asks(p, q, f)
  BY <1>3 DEF Asks, Looks
<1> QED
  BY <1>1, <1>2, <1>3, <1>4, <1>5 DEF Meets

\* A step of a fetch of f, from q to r.
LEMMA TransferMeets ==
  ASSUME RoundInv, NEW r \in Peer, NEW q \in Peer, q # r, NEW f \in File,
         Meets(r, q, f), Meets(q, r, f), Pulls(r, f),
         SameAt(q, f), fetches'[q] = fetches[q], UNCHANGED <<recon, met>>,
         disk'[r][f] \in {disk[r][f], disk[q][f]},
         tree'[r][f] \in {tree[r][f], disk'[r][f]},
         \A g \in fetches'[r] : g.path = f => g \in fetches[r] \/ Brings(g, q, r, f)',
         Pulls(r, f)' \/ Holds(r, f)'
  PROVE  Meets(r, q, f)' /\ Meets(q, r, f)'
<1>1. Holds(q, f) /\ ~Pulls(q, f)
  BY DEF Meets
<1>2. Holds(q, f)' /\ ~Pulls(q, f)' /\ disk'[q][f] = disk[q][f] /\ tree'[q][f] = tree[q][f]
  BY <1>1 DEF SameAt, Holds, Pulls
<1>3. Holds(r, f) => Holds(r, f)' /\ disk'[r][f] = disk[r][f]
  BY <1>1 DEF Meets, Holds
<1>4. \A g \in fetches'[r] : g.path = f => Brings(g, q, r, f)'
  BY <1>2 DEF Meets, Brings
<1>5. tree'[r][f] # None => Holds(r, f)'
  BY <1>3 DEF Meets, Holds
<1>6. Meets(r, q, f)'
  <2>1. /\ disk'[r][f] = None \/ disk'[q][f] = None \/ disk'[r][f] = disk'[q][f]
        /\ \A s \in recon'[r] : /\ s.source = q
                                /\ s.tree[f] # None => Holds(q, f)' /\ s.tree[f] = disk'[q][f]
    BY <1>1, <1>2 DEF Meets
  <2>2. Holds(q, f)' => Holds(r, f)' \/ Asks(r, q, f)'
    BY DEF Asks
  <2> QED
    BY <1>2, <1>4, <1>5, <2>1, <2>2 DEF Meets
<1>7. Meets(q, r, f)'
  <2>1. /\ disk'[r][f] = None \/ disk'[q][f] = None \/ disk'[q][f] = disk'[r][f]
        /\ \A s \in recon'[q] : /\ s.source = r
                                /\ s.tree[f] # None => Holds(r, f)' /\ s.tree[f] = disk'[r][f]
    BY <1>2, <1>3 DEF Meets
  <2>2. \A g \in fetches'[q] : g.path # f
    BY <1>2 DEF Pulls
  <2> QED
    BY <1>2, <2>1, <2>2 DEF Meets
<1> QED
  BY <1>6, <1>7

LEMMA FetchMeets ==
  ASSUME AlikePeers, AgreeInv, round = 0, NEW r \in Peer, EngineStep(r),
         UNCHANGED <<recon, met>>, NEW g \in fetches[r],
         Ends(r, g) \/ \E h \in Fetch : Loading(r, g, h) \/ Writing(r, g, h),
         NEW o \in Peer, o # r, NEW f \in File
  PROVE  Meets(r, o, f)' /\ Meets(o, r, f)'
<1>0. /\ RoundInv /\ PacedTypeOK /\ Meets(r, o, f) /\ Meets(o, r, f) /\ f \in Path
      /\ tree \in [Peer -> [Path -> Content \cup {None}]]
      /\ disk \in [Peer -> [Path -> Content \cup {None}]]
      /\ meta \in [Peer -> [Path -> Meta \cup {None}]]
      /\ fetches \in [Peer -> SUBSET Fetch]
  BY FileIsPath, TreeDomain, Domains DEF AgreeInv, RoundInv, Meeting
<1>2. \A h \in Fetch : (Loading(r, g, h) \/ Writing(r, g, h)) =>
        /\ h.path = g.path /\ fetches' = [fetches EXCEPT ![r] = (@ \ {g}) \cup {h}]
        /\ fetches'[r] = (fetches[r] \ {g}) \cup {h}
  BY <1>0 DEF Loading, Writing, Proceeds
<1>3. Ends(r, g) => /\ fetches' = [fetches EXCEPT ![r] = @ \ {g}]
                    /\ fetches'[r] = fetches[r] \ {g}
  BY <1>0 DEF Ends
<1>4. \A q \in Peer : q # r => fetches'[q] = fetches[q]
  BY <1>0, <1>2, <1>3
<1>5. CASE g.path # f
  <2>1. SameFile(f)
    <3>1. CASE Ends(r, g)
      <4>1. CASE GivesUp(r, g) /\ UNCHANGED <<disk, meta>>
        BY <4>1 DEF GivesUp, SameTree, SameFile, SameAt
      <4>2. CASE /\ Learns(r, g) /\ UNCHANGED disk
                 /\ meta' = [meta EXCEPT ![r][g.path] = Applied(r, g)]
        BY <1>0, <1>5, <4>2 DEF Learns, SameFile, SameAt
      <4> QED
        BY <3>1, <4>1, <4>2 DEF Ends
    <3>2. ASSUME NEW h \in Fetch, Loading(r, g, h)
          PROVE  SameFile(f)
      BY <3>2 DEF Loading, Proceeds, SameRequest, SameTree, SameFile, SameAt
    <3>3. ASSUME NEW h \in Fetch, Writing(r, g, h)
          PROVE  SameFile(f)
      BY <1>0, <1>5, <3>3 DEF Writing, Proceeds, SameRequest, SameTree, SameFile, SameAt
    <3> QED
      BY <3>1, <3>2, <3>3
  <2>2. \A q \in Peer : \A k : k.path = f => (k \in fetches'[q] <=> k \in fetches[q])
    BY <1>2, <1>3, <1>4, <1>5
  <2> QED
    BY <1>0, <2>1, <2>2, MeetsOn
<1>6. CASE g.path = f
  <2>1. Brings(g, o, r, f) /\ Holds(o, f) /\ Pulls(r, f) /\ disk[o][f] # None
    BY <1>0, <1>6 DEF Meets, Pulls, Holds
  <2>2. SameAt(o, f)
    BY <1>0, OthersKept
  <2>3. ASSUME NEW h \in Fetch, Loading(r, g, h) \/ Writing(r, g, h)
        PROVE  /\ disk'[r][f] \in {disk[r][f], disk[o][f]} /\ tree'[r][f] = tree[r][f]
               /\ \A k \in fetches'[r] : k.path = f => k \in fetches[r] \/ Brings(k, o, r, f)'
               /\ Pulls(r, f)'
    <3>1. Brings(h, o, r, f)'
      BY <1>6, <2>1, <2>3, LoadingBrings, WritingBrings
    <3>2. disk'[r][f] \in {disk[r][f], disk[o][f]}
      BY <1>6, <2>1, <2>3, WritingBrings DEF Loading
    <3>3. UNCHANGED tree
      BY <2>3 DEF Loading, Writing, Proceeds, SameRequest, SameTree
    <3> QED
      BY <1>2, <1>6, <2>3, <3>1, <3>2, <3>3 DEF Pulls
  <2>4. ASSUME Ends(r, g)
        PROVE  /\ disk'[r][f] = disk[r][f] /\ tree'[r][f] = disk'[r][f]
               /\ \A k \in fetches'[r] : k \in fetches[r]
               /\ Holds(r, f)'
    <3>1. /\ UNCHANGED disk /\ disk[r][f] = disk[o][f]
          /\ tree' = [tree EXCEPT ![r][f] = disk[o][f]]
      BY <1>6, <2>1, <2>4, EndBrings
    <3>2. tree'[r][f] = disk[o][f]
      BY <1>0, <3>1
    <3> QED
      BY <1>3, <2>1, <2>4, <3>1, <3>2 DEF Holds
  <2> QED
    BY <1>0, <1>4, <2>1, <2>2, <2>3, <2>4, TransferMeets
<1> QED
  BY <1>5, <1>6

LEMMA KeepsMeeting ==
  ASSUME AlikePeers, AgreeInv, RoundStep PROVE Meeting'
<1>0. /\ RoundInv /\ PacedTypeOK /\ Meeting /\ Begun /\ round \in Nat /\ TwoPeers
  BY Domains DEF AgreeInv, RoundInv, AlikePeers, TwoCarefulPeers
<1>1. CASE Begins
  BY <1>0, <1>1 DEF Begins, Meeting
<1>2. CASE phase = "edit" /\ round' = round
  BY <1>0, <1>2 DEF Begun, Meeting
<1>3. ASSUME UNCHANGED <<round, disk, tree, fetches, recon, met>>
      PROVE  Meeting'
  BY <1>0, <1>3 DEF Meeting, Meets, Holds, Pulls, Asks, Looks, Brings
<1>4. ASSUME NEW r \in Peer, EngineStep(r), round' = 0
      PROVE  Meeting'
  <2>0. round = 0
    BY <1>4, SameUsers
  <2>1. ASSUME Reconciles(r), NEW o \in Peer, o # r, NEW f \in File
        PROVE  Meets(r, o, f)' /\ Meets(o, r, f)'
    <3>1. /\ Meanwhile(r, o, f) /\ fetches'[o] = fetches[o] /\ recon'[o] = recon[o]
          /\ (<<o, r>> \in met' => <<o, r>> \in met)
      BY <2>0, <2>1, ReconcilesMeets
    <3>2. UNCHANGED <<disk, tree>>
      BY <2>1 DEF Reconciles, SameTree
    <3>3. Meets(r, o, f) /\ Meets(o, r, f)
      BY <1>0, <2>0, <2>1 DEF Meeting
    <3>4. Meets(r, o, f)'
      <4>1. Pulls(o, f)' <=> Pulls(o, f)
        BY <3>1 DEF Pulls
      <4>2. \A g : Brings(g, o, r, f)' <=> Brings(g, o, r, f)
        BY <3>2 DEF Brings
      <4>3. (Holds(r, f)' <=> Holds(r, f)) /\ (Holds(o, f)' <=> Holds(o, f))
        BY <3>2 DEF Holds
      <4> QED
        BY <3>1, <3>2, <3>3, <4>1, <4>2, <4>3 DEF Meets, Meanwhile
    <3>5. Meets(o, r, f)'
      <4>1. Pulls(o, f)' <=> Pulls(o, f)
        BY <3>1 DEF Pulls
      <4>2. \A g : Brings(g, r, o, f)' <=> Brings(g, r, o, f)
        BY <3>2 DEF Brings
      <4>3. (Holds(r, f)' <=> Holds(r, f)) /\ (Holds(o, f)' <=> Holds(o, f))
        BY <3>2 DEF Holds
      <4>4. Asks(o, r, f) => Asks(o, r, f)'
        BY <3>1, <4>1 DEF Asks, Looks
      <4> QED
        BY <3>1, <3>2, <3>3, <4>1, <4>2, <4>3, <4>4 DEF Meets, Meanwhile
    <3> QED
      BY <3>4, <3>5
  <2>2. ASSUME UNCHANGED <<recon, met>>, NEW g \in fetches[r],
               Ends(r, g) \/ \E h \in Fetch : Loading(r, g, h) \/ Writing(r, g, h),
               NEW o \in Peer, o # r, NEW f \in File
        PROVE  Meets(r, o, f)' /\ Meets(o, r, f)'
    BY <1>4, <2>0, <2>2, FetchMeets
  <2>3. ASSUME \A o \in Peer, f \in File : o # r => Meets(r, o, f)' /\ Meets(o, r, f)'
        PROVE  Meeting'
    BY <1>0, <2>3 DEF Meeting, TwoPeers
  <2>4. UNCHANGED <<disk, tree, fetches, recon, met>> => Meeting'
    BY <1>3, <1>4, SameUsers
  <2> QED
    BY <1>4, <2>0, <2>1, <2>2, <2>3, <2>4, FirstCases
<1>5. CASE \E r \in Peer : EngineStep(r)
  BY <1>4, <1>5 DEF Meeting
<1>6. CASE Rests
  BY <1>3, <1>6 DEF Rests, users, tasks, SameTree
<1> QED
  BY <1>1, <1>2, <1>5, <1>6 DEF RoundStep, Closes, Writes, Erases, Edits

-----------------------------------------------------------------------------
(* The folders converge *)

LEMMA InitAgreeInv ==
  ASSUME AlikePeers, PacedInit PROVE AgreeInv
<1>1. RoundInv
  BY InitRoundInv DEF AlikePeers
<1>2. /\ round = 0 /\ phase = "sync" /\ edits = {} /\ gossip = {} /\ met = InitMet
      /\ disk \in InitDisks
      /\ \A p \in Peer : /\ raw[p] = <<>> /\ chan[p] = <<>> /\ recon[p] = {}
                         /\ inbox[p] = {} /\ fetches[p] = {} /\ unindex[p] = {}
  BY DEF PacedInit, Init
<1>3. ASSUME NEW p \in Peer, NEW f \in File
      PROVE  tree[p][f] = disk[p][f]
  <2>1. Running(p) /\ Excluded[p] = {} /\ f \in Path
    BY <1>1, Group, FileIsPath DEF AlikePeers
  <2>2. tree[p] = Scan(p)
    BY <2>1 DEF PacedInit, Init
  <2> QED
    BY <2>1, <2>2 DEF Scan
<1>4. \A p \in Peer : \A kind, x : ~Waits(p, kind, x)
  BY <1>2, EmptyQueue DEF Waits
<1>5. Sized
  BY <1>2, FileIsPath DEF Sized, Written
<1>6. IndexFollows
  BY <1>3 DEF IndexFollows, Follows
<1>7. Blank
  BY <1>2, StartClocks DEF Blank
<1>8. Meeting
  <2>1. ASSUME NEW p \in Peer, NEW q \in Peer, NEW f \in File
        PROVE  Meets(p, q, f)
    <3>1. /\ disk[p][f] = None \/ disk[q][f] = None \/ disk[p][f] = disk[q][f]
          /\ <<p, q>> \in met /\ disk[q][f] # None => disk[p][f] # None
      BY <1>2 DEF AlikePeers, OneVersion
    <3>2. /\ Holds(p, f) <=> disk[p][f] # None
          /\ Holds(q, f) <=> disk[q][f] # None
      BY <1>3 DEF Holds
    <3>3. ~Pulls(p, f)
      BY <1>2 DEF Pulls
    <3> QED
      BY <1>2, <1>3, <3>1, <3>2, <3>3 DEF Meets, Asks
  <2> QED
    BY <2>1 DEF Meeting
<1>9. Emptied /\ Vanishes
  BY <1>2, <1>4 DEF Emptied, Vanishes
<1>10. Untouched /\ Dated /\ Published /\ Decided /\ Standing
  BY <1>2 DEF Untouched, Dated, Published, Decided, Standing
<1> QED
  BY <1>1, <1>5, <1>6, <1>7, <1>8, <1>9, <1>10 DEF AgreeInv

\* A clock is ahead of the true time by a constant.
LEMMA SkewKept ==
  ASSUME [PacedNext]_<<vars, pacedVars>> PROVE UNCHANGED skew
BY DEF PacedNext, StartRound, EndEdits, PacedWrite, PacedRemove, PacedPause, DebounceEnds,
   PacedWatch, PacedArrival, PacedTask, pacedVars

LEMMA AgreeInvKept ==
  ASSUME AlikePeers, AgreeInv, [PacedNext]_<<vars, pacedVars>> PROVE AgreeInv'
<1>1. TwoCarefulPeers /\ RoundInv
  BY DEF AlikePeers, AgreeInv
<1>2. RoundInv' /\ RoundStep /\ UNCHANGED skew
  BY <1>1, RoundInvKept, Steps, SkewKept
<1> QED
  BY <1>2, KeepsSized, KeepsIndexFollows, KeepsBlank, KeepsMeeting, KeepsEmptied, KeepsVanishes,
     KeepsUntouched, KeepsDated, KeepsPublished, KeepsDecided, KeepsStanding DEF AgreeInv

LEMMA AgreeingFolders ==
  ASSUME AlikePeers, AgreeInv PROVE Convergence
<1>1. ASSUME Settled, NEW p \in Peer, NEW q \in Peer, NEW f \in File
      PROVE  disk[p][f] = disk[q][f] /\ tree[p][f] = disk[p][f]
  BY <1>1, SettledFile DEF Settled
<1>2. ASSUME Settled, NEW e \in edits, NEW p \in Peer,
             \A d \in edits : d.file = e.file /\ d # e => GivesWayTo(d, e)
      PROVE  disk[p][e.file] = e.left
  <2>1. e.peer \in Peer /\ e.file \in File
    BY Domains DEF AgreeInv, RoundInv, Edit
  <2>2. CASE e.left = None
    BY <1>2, <2>2 DEF AgreeInv, Vanishes, Loses, Settled, Quiet
  <2>3. CASE e.left # None
    <3>1. Prevails(e.peer, e.file)
      BY <1>2, <2>3 DEF Prevails, Wrote, GivesWayTo
    <3>2. disk[e.peer][e.file] = e.left
      BY <3>1 DEF AgreeInv, Standing
    <3> QED
      BY <1>1, <1>2, <2>1, <3>2
  <2> QED
    BY <2>2, <2>3
<1> QED
  BY <1>1, <1>2 DEF Convergence, FoldersAgree, IndexAgrees, LatestWins

\* In a group of two who share their whole folders, and whose users edit between the
\* rounds, each file once and none that is being deleted, a round that has settled
\* leaves both with the same files, those of the latest edits, and each index with the
\* files of its folder, whether a file was written by one or by both, removed, or found
\* missing when they met.  It takes versions that are alike in size, as a shorter one
\* does not replace a longer one, and at the start no file that the two have in
\* different versions.
THEOREM FoldersConverge ==
  ASSUME Careful, OpenGroup, TwoPeers, CopiesApart, OneSize, Linked, OneVersion
  PROVE  PacedSpec => []Convergence
<1>1. AlikePeers
  BY DEF AlikePeers, TwoCarefulPeers
<1>2. PacedInit => AgreeInv
  BY <1>1, InitAgreeInv
<1>3. AgreeInv /\ [PacedNext]_<<vars, pacedVars>> => AgreeInv'
  BY <1>1, AgreeInvKept
<1>4. AgreeInv => Convergence
  BY <1>1, AgreeingFolders
<1> QED
  BY <1>2, <1>3, <1>4, PTL DEF PacedSpec

=============================================================================
