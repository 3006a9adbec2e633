----------------------------- MODULE MerkleTree -----------------------------
(***************************************************************************)
(* The Merkle tree of p2sync-core/src/merkle.rs and the index kept on it,  *)
(* for folders with directories: how watcher events update the tree, and   *)
(* what the difference of two trees makes a peer fetch.  Changes of other  *)
(* peers come as the files that fetch_and_apply writes and as deletions;   *)
(* how their contents come about is the matter of SyncEngine.              *)
(*                                                                         *)
(* A tree of nodes is a map from paths to what stands there; the root is a *)
(* directory and has no path.  A hash stands for what it is computed from: *)
(* the subtree below a path, in which an empty file and an empty directory *)
(* look alike, both being the hash of no bytes.                            *)
(***************************************************************************)
EXTENDS Naturals, Sequences

CONSTANTS
  Name,       \* names of files and directories
  Excluded,   \* the names that are exclude patterns
  BackupName, \* the names that contain ".conflict."
  ConflictName, \* the path to which conflict_filename sends a version of this peer
  MaxDepth,   \* bound on the depth of a folder
  Data,       \* contents of files, the empty one among them
  Empty, Dir, None,
  InitFolders,
  Remote,     \* the changes that peers announce
  Movable,    \* the paths that the user moves away
  Patient,    \* the user lets a path rest as the two windows ask for
  Spaced,     \* a change of a peer comes where nothing else happens, and deletes files only
  MaxOps      \* bound on the steps of the user and on the changes of peers

ASSUME NameAssumption ==
  Excluded \subseteq Name /\ BackupName \subseteq Name /\ MaxDepth \in Nat /\ MaxOps \in Nat

ASSUME PatientAssumption == Patient \in BOOLEAN /\ Spaced \in BOOLEAN

ASSUME DataAssumption == Empty \in Data /\ Dir \notin Data /\ None \notin Data /\ Dir # None

Path == UNION {[1 .. k -> Name] : k \in 1 .. MaxDepth}

\* The directories a path runs through, outermost first, and the paths through x.
Above(x) == {[i \in 1 .. k |-> x[i]] : k \in 1 .. Len(x) - 1}

Below(x) == {y \in Path : x \in Above(y)}

\* What exists stands in a directory.
Tree ==
  {t \in [Path -> Data \cup {Dir, None}] :
     \A x \in Path : t[x] # None => \A y \in Above(x) : t[y] = Dir}

ASSUME InitAssumption == InitFolders \subseteq Tree

Change == [kind : {"write"}, path : Path, data : Data] \cup [kind : {"delete"}, path : Path]

ASSUME RemoteAssumption == Remote \subseteq Change

\* handle_fs_event looks for ".conflict." anywhere in the path.
Backup(x) == \E i \in 1 .. Len(x) : x[i] \in BackupName

ASSUME ConflictAssumption ==
  ConflictName \in [Path -> Path] /\ \A x \in Path : Backup(ConflictName[x])

ASSUME MovableAssumption == Movable \subseteq Path

Writes == {change \in Remote : change.kind = "write"}

Files(t) == {x \in Path : t[x] \in Data}

Childless(t, x) == \A y \in Below(x) : t[y] = None

\* should_exclude and should_skip: some component is a pattern.
Hidden(x) == \E i \in 1 .. Len(x) : x[i] \in Excluded

-----------------------------------------------------------------------------
(* merkle.rs *)

\* from_path_configured: what is hidden is skipped, with all that is below it.
Build(folder) == [x \in Path |-> IF Hidden(x) THEN None ELSE folder[x]]

\* Mutant: a file goes only where its directory is already known.
InsertKnownParent(t, x, v) ==
  IF \E y \in Above(x) : t[y] # Dir THEN t
  ELSE [y \in Path |-> IF y = x THEN v ELSE IF y \in Below(x) THEN None ELSE t[y]]

\* Mutant: the directories on the way are not made.
InsertNoParents(t, x, v) ==
  IF \E y \in Above(x) : t[y] \in Data THEN t ELSE [t EXCEPT ![x] = v]

\* insert_recursive: missing directories are made, what was at the path is
\* replaced with all below it, and a path that runs through a file is dropped.
Insert(t, x, v) ==
  IF \E y \in Above(x) : t[y] \in Data THEN t
  ELSE [y \in Path |-> IF y = x THEN v
                       ELSE IF y \in Above(x) THEN Dir
                       ELSE IF y \in Below(x) THEN None
                       ELSE t[y]]

\* remove_recursive
Remove(t, x) == [y \in Path |-> IF y = x \/ y \in Below(x) THEN None ELSE t[y]]

\* What the hash of the node at x can tell about it.
Digest(t, x) == IF t[x] = Dir /\ Childless(t, x) THEN Empty ELSE t[x]

SameHash(t, u, x) == \A y \in {x} \cup Below(x) : Digest(t, y) = Digest(u, y)

\* diff_recursive comes to x: it went through directories of both trees only, and
\* the hashes at x differ (so they did on the way).
Reached(local, remote, x) ==
  /\ \A y \in Above(x) : local[y] = Dir /\ remote[y] = Dir
  /\ ~SameHash(local, remote, x)

\* Mutant: only a file can be modified.
ReportedFileOnly(local, remote, x) ==
  /\ Reached(local, remote, x)
  /\ remote[x] # None
  /\ local[x] = None \/ (local[x] \in Data /\ remote[x] \in Data)

\* DiffEntry::Added and DiffEntry::Modified; Removed entries are only logged.
Reported(local, remote, x) ==
  /\ Reached(local, remote, x)
  /\ remote[x] # None
  /\ ~(local[x] = Dir /\ remote[x] = Dir)

\* The files that reconcile then fetches: fetch_node_recursive takes every file at
\* or below a reported node.
Pulled(local, remote) ==
  {x \in Files(remote) : \E y \in {x} \cup Above(x) : Reported(local, remote, y)}

-----------------------------------------------------------------------------
(* A folder, its watcher's queue and its index *)

VARIABLES
  folder,   \* what is on disk
  queue,    \* watcher events the engine has still to handle
  tree,     \* SyncIndex.tree
  meta,     \* the keys of SyncIndex.file_meta
  recent,   \* the paths of change_debounce whose window has not ended
  marked,   \* the paths of sync_write_guard whose window has not ended
  fetched,  \* changes of peers whose chunks have arrived
  applying, \* changes of peers that are on disk and not yet in the index
  ops       \* steps of the user and changes of peers so far

vars == <<folder, queue, tree, meta, recent, marked, fetched, applying, ops>>

FsEvent == [kind : {"changed", "removed"}, path : Path]

TypeOK ==
  /\ folder \in Tree
  /\ queue \in Seq(FsEvent)
  /\ tree \in Tree
  /\ meta \subseteq Path
  /\ recent \subseteq Path /\ marked \subseteq Path
  /\ fetched \subseteq Writes /\ applying \subseteq Remote
  /\ ops \in 0 .. MaxOps

Init ==
  /\ folder \in InitFolders
  /\ queue = <<>>
  /\ tree = Build(folder)
  /\ meta = Files(tree)
  /\ recent = {} /\ marked = {} /\ fetched = {} /\ applying = {}
  /\ ops = 0

Spend == ops < MaxOps /\ ops' = ops + 1

\* Hidden paths raise no event, and the bridge thread drops those of marked ones.
Silent(x) == Hidden(x) \/ x \in marked

Raise(kind, x) ==
  queue' = IF Silent(x) THEN queue ELSE Append(queue, [kind |-> kind, path |-> x])

Changed(x) == [kind |-> "changed", path |-> x]

Related(x, y) == x = y \/ x \in Above(y) \/ y \in Above(x)

Untouched(x) == \A change \in fetched \cup applying : ~Related(x, change.path)

\* A patient user puts nothing at a path that changed or was written less than a window
\* ago, and nothing back while the change that came before the removal is unhandled.
Rested(x) ==
  /\ x \notin recent \cup marked
  /\ folder[x] = None => \A i \in DOMAIN queue : queue[i] # Changed(x)

\* Something may be put at x.
Open(x) ==
  /\ \A y \in Above(x) : folder[y] = Dir
  /\ Patient => Rested(x)
  /\ Spaced => Untouched(x)

UserWrite(x, v) ==
  /\ Open(x) /\ folder[x] \notin {Dir, v}
  /\ Spend
  /\ folder' = [folder EXCEPT ![x] = v]
  /\ Raise("changed", x)
  /\ UNCHANGED <<tree, meta, recent, marked, fetched, applying>>

UserMakeDir(x) ==
  /\ Open(x) /\ folder[x] = None
  /\ Spend
  /\ folder' = [folder EXCEPT ![x] = Dir]
  /\ Raise("changed", x)
  /\ UNCHANGED <<tree, meta, recent, marked, fetched, applying>>

\* A directory goes after all that is in it.
UserRemove(x) ==
  /\ folder[x] # None /\ Childless(folder, x)
  /\ Patient => x \notin marked
  /\ Spaced => Untouched(x)
  /\ Spend
  /\ folder' = [folder EXCEPT ![x] = None]
  /\ Raise("removed", x)
  /\ UNCHANGED <<tree, meta, recent, marked, fetched, applying>>

\* The watcher takes a rename for a modification of the old path, and one of the new if
\* that is in the folder too: then UserWrite follows.
UserMoveAway(x) ==
  /\ x \in Movable /\ folder[x] # None
  /\ Spaced => Untouched(x)
  /\ Spend
  /\ folder' = Remove(folder, x)
  /\ Raise("changed", x)
  /\ UNCHANGED <<tree, meta, recent, marked, fetched, applying>>

\* handle_fs_event, Created and Modified, with local_file_changed: conflict copies are
\* skipped, the user's and the engine's.  The disk is read when the event is handled, and
\* the path may be no file any more.
HandleChanged ==
  LET x == Head(queue).path IN
  /\ queue # <<>> /\ Head(queue).kind = "changed" /\ x \notin recent \cup marked
  /\ queue' = Tail(queue)
  /\ recent' = recent \cup {x}
  /\ IF x \in Files(folder) /\ ~Backup(x)
     THEN tree' = Insert(tree, x, folder[x]) /\ meta' = meta \cup {x}
     ELSE UNCHANGED <<tree, meta>>
  /\ UNCHANGED <<folder, marked, fetched, applying, ops>>

\* Created and Modified of a path within either window.
SuppressChanged ==
  /\ queue # <<>> /\ Head(queue).kind = "changed" /\ Head(queue).path \in recent \cup marked
  /\ queue' = Tail(queue)
  /\ UNCHANGED <<folder, tree, meta, recent, marked, fetched, applying, ops>>

\* A window of x ends.
WindowEnds(x) ==
  /\ \/ x \in recent /\ recent' = recent \ {x} /\ UNCHANGED marked
     \/ x \in marked /\ marked' = marked \ {x} /\ UNCHANGED recent
  /\ UNCHANGED <<folder, queue, tree, meta, fetched, applying, ops>>

\* handle_fs_event, Removed, with local_file_deleted.
HandleRemoved ==
  LET x == Head(queue).path IN
  /\ queue # <<>> /\ Head(queue).kind = "removed"
  /\ queue' = Tail(queue)
  /\ tree' = Remove(tree, x)
  /\ meta' = meta \ {x}
  /\ UNCHANGED <<folder, recent, marked, fetched, applying, ops>>

\* The user does nothing at x, no event about it waits, and no other change of a peer is
\* being applied.
Quiet(x) == Untouched(x) /\ \A i \in DOMAIN queue : ~Related(x, queue[i].path)

\* A file's chunks arrive; what is excluded is not fetched.  An accepted notification marks
\* the path before it asks for them, a reconciliation and a conflict do not.
Fetched(change) ==
  LET x == change.path IN
  /\ ~Hidden(x) /\ (Spaced => Quiet(x))
  /\ Spend
  /\ fetched' = fetched \cup {change}
  /\ marked' \in {marked, marked \cup {x}}
  /\ UNCHANGED <<folder, queue, tree, meta, recent, applying>>

\* handle_notification, Conflict, when the version of this peer loses: before the chunks are
\* asked for the file is copied, if it is one and if the copy has a place.
LoseConflict(change) ==
  LET x == change.path
      y == ConflictName[x]
  IN
  /\ x \in meta /\ folder[x] \in Data
  /\ folder[y] # Dir /\ \A z \in Above(y) : folder[z] = Dir
  /\ Spaced => Untouched(y)
  /\ Spend
  /\ folder' = [folder EXCEPT ![y] = folder[x]]
  /\ Raise("changed", y)
  /\ UNCHANGED <<tree, meta, recent, marked, fetched, applying>>

\* create_dir_all makes the missing directories, which raise events.
MakeAbove(change, y) ==
  /\ change \in fetched /\ y \in Above(change.path)
  /\ folder[y] = None /\ \A z \in Above(y) : folder[z] = Dir
  /\ folder' = [folder EXCEPT ![y] = Dir]
  /\ Raise("changed", y)
  /\ UNCHANGED <<tree, meta, recent, marked, fetched, applying, ops>>

\* The path is marked, so that the file raises no event, and the file is written.
WriteFile(change) ==
  LET x == change.path IN
  /\ change \in fetched
  /\ folder[x] # Dir /\ \A y \in Above(x) : folder[y] = Dir
  /\ fetched' = fetched \ {change}
  /\ marked' = marked \cup {x}
  /\ folder' = [folder EXCEPT ![x] = change.data]
  /\ applying' = applying \cup {change}
  /\ UNCHANGED <<queue, tree, meta, recent, ops>>

\* A directory or a file stands in the way: the path is marked and the task ends.
WriteFails(change) ==
  LET x == change.path IN
  /\ change \in fetched
  /\ folder[x] = Dir \/ \E y \in Above(x) : folder[y] \in Data
  /\ fetched' = fetched \ {change}
  /\ marked' = marked \cup {x}
  /\ UNCHANGED <<folder, queue, tree, meta, recent, applying, ops>>

\* handle_notification, FileDeleted: remove_file removes no directory.
DeleteFile(change) ==
  LET x == change.path IN
  /\ Spaced => Quiet(x) /\ folder[x] # Dir
  /\ Spend
  /\ applying' = applying \cup {change}
  /\ IF folder[x] \in Data
     THEN folder' = [folder EXCEPT ![x] = None] /\ Raise("removed", x)
     ELSE UNCHANGED <<folder, queue>>
  /\ UNCHANGED <<tree, meta, recent, marked, fetched>>

\* The task has the index lock, and the index takes the change over.
Apply(change) ==
  /\ change \in applying
  /\ applying' = applying \ {change}
  /\ IF change \in Writes
     THEN tree' = Insert(tree, change.path, change.data) /\ meta' = meta \cup {change.path}
     ELSE tree' = Remove(tree, change.path) /\ meta' = meta \ {change.path}
  /\ UNCHANGED <<folder, queue, recent, marked, fetched, ops>>

\* The process stops and starts again: SyncIndex::build.
Rebuild ==
  /\ Spend
  /\ queue' = <<>>
  /\ recent' = {} /\ marked' = {} /\ fetched' = {} /\ applying' = {}
  /\ tree' = Build(folder)
  /\ meta' = Files(Build(folder))
  /\ UNCHANGED folder

Next ==
  \/ \E x \in Path : \/ \E v \in Data : UserWrite(x, v)
                     \/ UserMakeDir(x)
                     \/ UserRemove(x)
                     \/ UserMoveAway(x)
                     \/ WindowEnds(x)
  \/ \E change \in Writes : Fetched(change) \/ LoseConflict(change)
  \/ \E change \in Remote \ Writes : DeleteFile(change)
  \/ \E change \in fetched : WriteFile(change) \/ WriteFails(change)
                              \/ \E y \in Path : MakeAbove(change, y)
  \/ \E change \in applying : Apply(change)
  \/ HandleChanged
  \/ SuppressChanged
  \/ HandleRemoved
  \/ Rebuild

Spec == Init /\ [][Next]_vars

-----------------------------------------------------------------------------
(* Correctness *)

\* However late the events of a patient user are handled, and whatever became of
\* their paths in the meantime, when none is left the index is what a scan of the folder
\* would make it: the same files with the same contents, and metadata for exactly those.
\* Conflict copies are excepted: a scan indexes them, their events do not.
IndexIsFolder ==
  queue = <<>> /\ fetched = {} /\ applying = {} =>
    \A x \in Path : ~Backup(x) =>
      /\ x \in Files(tree) \cup Files(Build(folder)) => tree[x] = Build(folder)[x]
      /\ x \in meta <=> x \in Files(tree)

\* Whatever the user does and when, a file that stands in the folder is in the
\* index once every event is handled.
FilesIndexed ==
  queue = <<>> /\ fetched = {} /\ applying = {} =>
    \A x \in Files(Build(folder)) : ~Backup(x) => x \in Files(tree)

\* The files that the folder of tree local lacks or has otherwise than remote, save
\* an empty file where it has an empty directory.
Lacking(local, remote) ==
  {x \in Files(remote) :
     /\ local[x] # remote[x]
     /\ ~(remote[x] = Empty /\ local[x] = Dir /\ Childless(local, x))}

\* A peer that reconciles with another fetches exactly the files that it lacks or
\* has otherwise, wherever directories have turned into files and files into
\* directories; except for an empty file where it has an empty directory, which
\* the hashes do not tell apart.  The other peer's tree is a scan of the folder
\* that this one's lags behind.
DiffExact == Pulled(tree, Build(folder)) = Lacking(tree, Build(folder))

=============================================================================
