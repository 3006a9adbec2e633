-------------------------- MODULE MerkleTreeProofs --------------------------
(***************************************************************************)
(* Theorems of MerkleTree, for any names, depth and contents: trees stay   *)
(* trees, the difference of two of them is exact, and the index comes to   *)
(* what the folder is.                                                     *)
(***************************************************************************)
EXTENDS MerkleTree, FiniteSetTheorems, WellFoundedInduction, TLAPS

LEMMA PathLength ==
  ASSUME NEW x \in Path
  PROVE  Len(x) \in 1 .. MaxDepth /\ x \in [1 .. Len(x) -> Name]
<1>1. PICK n \in 1 .. MaxDepth : x \in [1 .. n -> Name]
  BY DEF Path
<1>2. n \in Nat
  BY NameAssumption
<1>3. x \in Seq(Name) /\ Len(x) = n
  BY <1>1, <1>2
<1> QED
  BY <1>1, <1>3

\* The path of length k that x begins with.
Start(x, k) == [i \in 1 .. k |-> x[i]]

LEMMA StartPath ==
  ASSUME NEW x \in Path, NEW k \in 1 .. Len(x)
  PROVE  Start(x, k) \in Path /\ Len(Start(x, k)) = k
<1>1. Len(x) \in 1 .. MaxDepth /\ x \in [1 .. Len(x) -> Name]
  BY PathLength
<1>2. Start(x, k) \in [1 .. k -> Name]
  BY <1>1 DEF Start
<1>3. k \in 1 .. MaxDepth
  BY <1>1, NameAssumption
<1>4. Start(x, k) \in Path
  BY <1>2, <1>3 DEF Path
<1>5. Len(Start(x, k)) = k
  BY <1>2, <1>3, NameAssumption
<1> QED
  BY <1>4, <1>5

\* What stands above a path is a path, and shorter.
LEMMA AbovePath ==
  ASSUME NEW x \in Path, NEW y \in Above(x)
  PROVE  /\ y \in Path
         /\ Len(y) \in 1 .. Len(x) - 1
         /\ y = Start(x, Len(y))
<1>1. PICK k \in 1 .. Len(x) - 1 : y = Start(x, k)
  BY DEF Above, Start
<1>2. k \in 1 .. Len(x)
  BY PathLength, NameAssumption
<1> QED
  BY <1>1, <1>2, StartPath

\* Above is transitive.
LEMMA AboveAbove ==
  ASSUME NEW x \in Path, NEW y \in Above(x), NEW z \in Above(y)
  PROVE  z \in Above(x)
<1>1. y \in Path /\ Len(y) \in 1 .. Len(x) - 1 /\ y = Start(x, Len(y))
  BY AbovePath
<1>2. Len(z) \in 1 .. Len(y) - 1 /\ z = Start(y, Len(z))
  BY <1>1, AbovePath
<1>3. z = Start(x, Len(z))
  BY <1>1, <1>2 DEF Start
<1>4. Len(z) \in 1 .. Len(x) - 1
  BY <1>1, <1>2, PathLength, NameAssumption
<1> QED
  BY <1>3, <1>4 DEF Above, Start

\* What lies below an excluded or a conflict name is hidden, or a copy, as well.
LEMMA AboveHidden ==
  ASSUME NEW x \in Path, NEW y \in Above(x)
  PROVE  (Hidden(y) => Hidden(x)) /\ (Backup(y) => Backup(x))
<1>1. PICK k \in 1 .. Len(x) - 1 : y = [i \in 1 .. k |-> x[i]]
  BY DEF Above
<1>2. Len(x) \in Nat
  BY PathLength, NameAssumption
<1>3. k \in Nat /\ Len(y) = k
  BY <1>1, <1>2, PathLength, AbovePath, DOMAIN y = 1 .. k
<1>4. \A i \in 1 .. Len(y) : i \in 1 .. Len(x) /\ y[i] = x[i]
  BY <1>1, <1>2, <1>3
<1> QED
  BY <1>4 DEF Hidden, Backup

LEMMA NotAboveItself ==
  ASSUME NEW x \in Path
  PROVE  x \notin Above(x)
<1>1. SUFFICES ASSUME x \in Above(x) PROVE FALSE
  OBVIOUS
<1>2. Len(x) \in 1 .. Len(x) - 1
  BY <1>1, AbovePath
<1> QED
  BY <1>2, PathLength, NameAssumption

-----------------------------------------------------------------------------
(* What changes a tree leaves a tree. *)

LEMMA InsertTree ==
  ASSUME NEW t \in Tree, NEW x \in Path, NEW v \in Data
  PROVE  Insert(t, x, v) \in Tree
<1> DEFINE u == Insert(t, x, v)
<1>1. CASE \E y \in Above(x) : t[y] \in Data
  BY <1>1 DEF Insert
<1>2. CASE ~ \E y \in Above(x) : t[y] \in Data
  <2>1. u = [y \in Path |-> IF y = x THEN v
                            ELSE IF y \in Above(x) THEN Dir
                            ELSE IF y \in Below(x) THEN None
                            ELSE t[y]]
    BY <1>2 DEF Insert
  <2>2. t \in [Path -> Data \cup {Dir, None}]
    BY DEF Tree
  <2>3. u \in [Path -> Data \cup {Dir, None}]
    BY <2>1, <2>2
  <2>4. ASSUME NEW z \in Path, u[z] # None, NEW y \in Above(z)
        PROVE  u[y] = Dir
    <3>1. y \in Path
      BY <2>4, AbovePath
    <3>2. CASE z = x
      BY <2>1, <2>4, <3>1, <3>2, NotAboveItself
    <3>3. CASE z \in Above(x)
      <4>1. y \in Above(x)
        BY <2>4, <3>3, AboveAbove
      <4> QED
        BY <2>1, <3>1, <4>1, NotAboveItself
    <3>4. CASE z # x /\ z \notin Above(x)
      <4>1. z \notin Below(x) /\ t[z] # None
        BY <2>1, <2>4, <3>4
      <4>2. t[y] = Dir
        BY <2>4, <4>1 DEF Tree
      <4>3. y # x
        BY <2>4, <4>1 DEF Below
      <4>4. y \notin Below(x)
        <5>1. SUFFICES ASSUME y \in Below(x) PROVE FALSE
          OBVIOUS
        <5>2. x \in Above(z)
          BY <2>4, <5>1, AboveAbove DEF Below
        <5> QED
          BY <2>4, <4>1, <5>2 DEF Below
      <4> QED
        BY <2>1, <3>1, <4>2, <4>3, <4>4
    <3> QED
      BY <3>2, <3>3, <3>4
  <2> QED
    BY <2>3, <2>4 DEF Tree
<1> QED
  BY <1>1, <1>2

LEMMA RemoveTree ==
  ASSUME NEW t \in Tree, NEW x \in Path
  PROVE  Remove(t, x) \in Tree
<1> DEFINE u == Remove(t, x)
<1>1. t \in [Path -> Data \cup {Dir, None}]
  BY DEF Tree
<1>2. u \in [Path -> Data \cup {Dir, None}]
  BY <1>1 DEF Remove
<1>3. ASSUME NEW z \in Path, u[z] # None, NEW y \in Above(z)
      PROVE  u[y] = Dir
  <2>1. z # x /\ z \notin Below(x) /\ t[z] # None
    BY <1>3 DEF Remove
  <2>2. y \in Path /\ t[y] = Dir
    BY <1>3, <2>1, AbovePath DEF Tree
  <2>3. y # x
    BY <1>3, <2>1 DEF Below
  <2>4. ASSUME y \in Below(x) PROVE FALSE
    <3>1. x \in Above(z)
      BY <1>3, <2>4, AboveAbove DEF Below
    <3> QED
      BY <1>3, <2>1, <3>1 DEF Below
  <2> QED
    BY <2>2, <2>3, <2>4 DEF Remove
<1> QED
  BY <1>2, <1>3 DEF Tree

LEMMA BuildTree ==
  ASSUME NEW t \in Tree
  PROVE  Build(t) \in Tree
<1> DEFINE u == Build(t)
<1>1. u \in [Path -> Data \cup {Dir, None}]
  BY DEF Build, Tree
<1>2. ASSUME NEW z \in Path, u[z] # None, NEW y \in Above(z)
      PROVE  u[y] = Dir
  <2>1. ~Hidden(z) /\ t[z] # None
    BY <1>2 DEF Build
  <2>2. /\ y \in Path
        /\ Len(y) \in 1 .. Len(z) - 1
        /\ y = Start(z, Len(y))
    BY <1>2, AbovePath
  <2>3. Len(z) \in Nat
    BY PathLength, NameAssumption
  <2>4. \A i \in 1 .. Len(y) : i \in 1 .. Len(z) /\ y[i] = z[i]
    BY <2>2, <2>3 DEF Start
  <2>5. ~Hidden(y)
    BY <2>1, <2>4 DEF Hidden
  <2>6. t[y] = Dir
    BY <1>2, <2>1 DEF Tree
  <2> QED
    BY <2>2, <2>5, <2>6 DEF Build
<1> QED
  BY <1>1, <1>2 DEF Tree

-----------------------------------------------------------------------------
(* Type correctness *)

LEMMA UserWriteTree ==
  ASSUME NEW t \in Tree, NEW x \in Path, NEW v \in Data \cup {Dir},
         \A y \in Above(x) : t[y] = Dir, t[x] # Dir
  PROVE  [t EXCEPT ![x] = v] \in Tree
<1> DEFINE u == [t EXCEPT ![x] = v]
<1>1. t \in [Path -> Data \cup {Dir, None}]
  BY DEF Tree
<1>2. u \in [Path -> Data \cup {Dir, None}]
  BY <1>1
<1>3. ASSUME NEW z \in Path, u[z] # None, NEW y \in Above(z)
      PROVE  u[y] = Dir
  <2>1. y \in Path
    BY <1>3, AbovePath
  <2>2. CASE z = x
    BY <1>1, <1>3, <2>1, <2>2, NotAboveItself
  <2>3. CASE z # x
    <3>1. t[y] = Dir
      BY <1>1, <1>3, <2>3 DEF Tree
    <3> QED
      BY <1>1, <2>1, <3>1
  <2> QED
    BY <2>2, <2>3
<1> QED
  BY <1>2, <1>3 DEF Tree

LEMMA UserRemoveTree ==
  ASSUME NEW t \in Tree, NEW x \in Path, Childless(t, x)
  PROVE  [t EXCEPT ![x] = None] \in Tree
<1> DEFINE u == [t EXCEPT ![x] = None]
<1>1. t \in [Path -> Data \cup {Dir, None}]
  BY DEF Tree
<1>2. u \in [Path -> Data \cup {Dir, None}]
  BY <1>1
<1>3. ASSUME NEW z \in Path, u[z] # None, NEW y \in Above(z)
      PROVE  u[y] = Dir
  <2>1. z # x /\ t[z] # None
    BY <1>1, <1>3
  <2>2. y \in Path /\ t[y] = Dir
    BY <1>3, <2>1, AbovePath DEF Tree
  <2>3. y # x
    BY <1>3, <2>1 DEF Childless, Below
  <2> QED
    BY <1>1, <2>2, <2>3
<1> QED
  BY <1>2, <1>3 DEF Tree

\* Nothing stands in a file.
LEMMA FileChildless ==
  ASSUME NEW t \in Tree, NEW x \in Path, t[x] # Dir
  PROVE  Childless(t, x)
BY DEF Childless, Below, Tree

LEMMA RaiseType ==
  ASSUME NEW kind \in {"changed", "removed"}, NEW x \in Path,
         queue \in Seq(FsEvent), Raise(kind, x)
  PROVE  queue' \in Seq(FsEvent)
<1>1. [kind |-> kind, path |-> x] \in FsEvent
  BY DEF FsEvent
<1> QED
  BY <1>1 DEF Raise

LEMMA EventsType ==
  ASSUME queue \in Seq(FsEvent), queue # <<>>
  PROVE  Head(queue) \in FsEvent /\ Tail(queue) \in Seq(FsEvent)
OBVIOUS

LEMMA SpendType ==
  ASSUME ops \in 0 .. MaxOps, Spend
  PROVE  ops' \in 0 .. MaxOps
BY NameAssumption DEF Spend

\* The files of a tree are paths.
LEMMA FilesType ==
  ASSUME NEW t
  PROVE  Files(t) \subseteq Path
BY DEF Files

\* Whatever the user and the peers do, the folder, the index's tree, its metadata and the
\* events on their way stay well formed; a tree above all, in which nothing stands
\* in a file or nowhere, although one entry is replaced or removed at a time.
THEOREM TreesStayTrees == Spec => []TypeOK
<1>1. Init => TypeOK
  <2>1. SUFFICES ASSUME Init PROVE TypeOK
    OBVIOUS
  <2>2. folder \in Tree /\ tree \in Tree
    BY <2>1, InitAssumption, BuildTree DEF Init
  <2> QED
    BY <2>1, <2>2, FilesType, NameAssumption DEF Init, TypeOK
<1>2. TypeOK /\ [Next]_vars => TypeOK'
  <2> SUFFICES ASSUME TypeOK, [Next]_vars PROVE TypeOK'
    OBVIOUS
  <2> USE DEF TypeOK
  <2>1. ASSUME NEW x \in Path, NEW v \in Data, UserWrite(x, v) PROVE TypeOK'
    <3>1. folder' \in Tree
      BY <2>1, UserWriteTree DEF UserWrite, Open
    <3>2. queue' \in Seq(FsEvent) /\ ops' \in 0 .. MaxOps
      BY <2>1, RaiseType, SpendType DEF UserWrite
    <3> QED
      BY <2>1, <3>1, <3>2 DEF UserWrite
  <2>2. ASSUME NEW x \in Path, UserMakeDir(x) PROVE TypeOK'
    <3>1. folder' \in Tree
      BY <2>2, UserWriteTree, DataAssumption DEF UserMakeDir, Open
    <3>2. queue' \in Seq(FsEvent) /\ ops' \in 0 .. MaxOps
      BY <2>2, RaiseType, SpendType DEF UserMakeDir
    <3> QED
      BY <2>2, <3>1, <3>2 DEF UserMakeDir
  <2>3. ASSUME NEW x \in Path, UserRemove(x) PROVE TypeOK'
    <3>1. folder' \in Tree
      BY <2>3, UserRemoveTree DEF UserRemove
    <3>2. queue' \in Seq(FsEvent) /\ ops' \in 0 .. MaxOps
      BY <2>3, RaiseType, SpendType DEF UserRemove
    <3> QED
      BY <2>3, <3>1, <3>2 DEF UserRemove
  <2>4. ASSUME NEW x \in Path, WindowEnds(x) PROVE TypeOK'
    BY <2>4 DEF WindowEnds
  <2>5. CASE HandleChanged
    <3> DEFINE x == Head(queue).path
    <3>1. Head(queue) \in FsEvent /\ queue' \in Seq(FsEvent)
      BY <2>5, EventsType DEF HandleChanged
    <3>2. x \in Path
      BY <3>1 DEF FsEvent
    <3>3. recent' \subseteq Path
      BY <2>5, <3>2 DEF HandleChanged
    <3>4. CASE x \in Files(folder) /\ ~Backup(x)
      <4>1. folder[x] \in Data
        BY <3>4 DEF Files
      <4>2. tree' \in Tree
        BY <2>5, <3>2, <3>4, <4>1, InsertTree DEF HandleChanged
      <4> QED
        BY <2>5, <3>1, <3>2, <3>3, <3>4, <4>2 DEF HandleChanged
    <3>5. CASE ~(x \in Files(folder) /\ ~Backup(x))
      BY <2>5, <3>1, <3>3, <3>5 DEF HandleChanged
    <3> QED
      BY <3>4, <3>5
  <2>6. CASE SuppressChanged
    BY <2>6 DEF SuppressChanged
  <2>7. CASE HandleRemoved
    <3>1. Head(queue) \in FsEvent /\ queue' \in Seq(FsEvent)
      BY <2>7, EventsType DEF HandleRemoved
    <3>2. Head(queue).path \in Path
      BY <3>1 DEF FsEvent
    <3>3. tree' \in Tree
      BY <2>7, <3>2, RemoveTree DEF HandleRemoved
    <3> QED
      BY <2>7, <3>1, <3>3 DEF HandleRemoved
  <2>8. CASE Rebuild
    <3>1. tree' \in Tree /\ meta' \subseteq Path
      BY <2>8, BuildTree, FilesType DEF Rebuild
    <3>2. ops' \in 0 .. MaxOps
      BY <2>8, SpendType DEF Rebuild
    <3> QED
      BY <2>8, <3>1, <3>2 DEF Rebuild
  <2>9. ASSUME NEW change \in Writes, Fetched(change) PROVE TypeOK'
    <3>1. ops' \in 0 .. MaxOps
      BY <2>9, SpendType DEF Fetched
    <3>2. change.path \in Path
      BY RemoteAssumption DEF Change, Writes
    <3> QED
      BY <2>9, <3>1, <3>2 DEF Fetched
  <2>10. ASSUME NEW change \in Remote \ Writes, DeleteFile(change) PROVE TypeOK'
    <3>1. change.path \in Path
      BY RemoteAssumption DEF Change
    <3>2. ops' \in 0 .. MaxOps
      BY <2>10, SpendType DEF DeleteFile
    <3>3. CASE folder[change.path] \in Data
      <4>1. folder' \in Tree
        BY <2>10, <3>1, <3>3, UserRemoveTree, FileChildless, DataAssumption DEF DeleteFile
      <4>2. queue' \in Seq(FsEvent)
        BY <2>10, <3>1, <3>3, RaiseType DEF DeleteFile
      <4> QED
        BY <2>10, <3>2, <4>1, <4>2 DEF DeleteFile
    <3>4. CASE folder[change.path] \notin Data
      BY <2>10, <3>2, <3>4 DEF DeleteFile
    <3> QED
      BY <3>3, <3>4
  <2>11. ASSUME NEW change \in fetched, NEW y \in Path, MakeAbove(change, y) PROVE TypeOK'
    <3>1. folder' \in Tree
      BY <2>11, UserWriteTree, DataAssumption DEF MakeAbove
    <3>2. queue' \in Seq(FsEvent)
      BY <2>11, RaiseType DEF MakeAbove
    <3> QED
      BY <2>11, <3>1, <3>2 DEF MakeAbove
  <2>12. ASSUME NEW change \in fetched, WriteFile(change) PROVE TypeOK'
    <3>1. change.path \in Path /\ change.data \in Data
      BY <2>12, RemoteAssumption DEF Writes, Change
    <3>2. folder' \in Tree
      BY <2>12, <3>1, UserWriteTree DEF WriteFile
    <3>3. marked' \subseteq Path /\ fetched' \subseteq Writes /\ applying' \subseteq Remote
      BY <2>12, <3>1 DEF WriteFile, Writes
    <3> QED
      BY <2>12, <3>2, <3>3 DEF WriteFile
  <2>13. ASSUME NEW change \in fetched, WriteFails(change) PROVE TypeOK'
    <3>1. change.path \in Path
      BY RemoteAssumption DEF Change, Writes
    <3> QED
      BY <2>13, <3>1 DEF WriteFails
  <2>14. ASSUME NEW change \in applying, Apply(change) PROVE TypeOK'
    <3>1. change \in Change /\ change.path \in Path
      BY RemoteAssumption DEF Change
    <3>2. CASE change \in Writes
      <4>1. change.data \in Data
        BY <3>1, <3>2 DEF Change, Writes
      <4>2. tree' \in Tree
        BY <2>14, <3>1, <3>2, <4>1, InsertTree DEF Apply
      <4> QED
        BY <2>14, <3>1, <3>2, <4>2 DEF Apply
    <3>3. CASE change \notin Writes
      <4>1. tree' \in Tree
        BY <2>14, <3>1, <3>3, RemoveTree DEF Apply
      <4> QED
        BY <2>14, <3>1, <3>3, <4>1 DEF Apply
    <3> QED
      BY <3>2, <3>3
  <2>15. ASSUME NEW x \in Path, UserMoveAway(x) PROVE TypeOK'
    <3>1. folder' \in Tree
      BY <2>15, RemoveTree DEF UserMoveAway
    <3>2. queue' \in Seq(FsEvent) /\ ops' \in 0 .. MaxOps
      BY <2>15, RaiseType, SpendType DEF UserMoveAway
    <3> QED
      BY <2>15, <3>1, <3>2 DEF UserMoveAway
  <2>16. ASSUME NEW change \in Writes, LoseConflict(change) PROVE TypeOK'
    <3> DEFINE x == change.path
               y == ConflictName[x]
    <3>1. y \in Path
      BY RemoteAssumption, ConflictAssumption DEF Change, Writes
    <3>2. folder[x] \in Data /\ folder[y] # Dir /\ (\A z \in Above(y) : folder[z] = Dir)
          /\ folder' = [folder EXCEPT ![y] = folder[x]] /\ Raise("changed", y)
      BY <2>16 DEF LoseConflict
    <3> HIDE DEF x, y
    <3>3. folder' \in Tree
      BY <3>1, <3>2, UserWriteTree
    <3>4. queue' \in Seq(FsEvent) /\ ops' \in 0 .. MaxOps
      BY <2>16, <3>1, <3>2, RaiseType, SpendType DEF LoseConflict
    <3> QED
      BY <2>16, <3>3, <3>4 DEF LoseConflict
  <2>17. CASE UNCHANGED vars
    BY <2>17 DEF vars
  <2> QED
    BY <2>1, <2>2, <2>3, <2>4, <2>5, <2>6, <2>7, <2>8, <2>9, <2>10, <2>11, <2>12, <2>13,
       <2>14, <2>15, <2>16, <2>17 DEF Next
<1> QED
  BY <1>1, <1>2, PTL DEF Spec

-----------------------------------------------------------------------------
(* The difference of two trees *)

\* Among the paths on the way to x, one that stands no further in than the others.
LEMMA Outermost ==
  ASSUME NEW x \in Path, NEW S \in SUBSET ({x} \cup Above(x)), S # {}
  PROVE  \E y \in S : \A z \in S : Len(y) <= Len(z)
<1> DEFINE T == {1 .. Len(y) : y \in S}
           R == StrictSubsetOrdering(Nat)
<1>1. \A y \in S : Len(y) \in Nat
  BY AbovePath, PathLength, NameAssumption
<1>2. ASSUME NEW y \in S PROVE 1 .. Len(y) \in FiniteSubsetsOf(Nat)
  <2>1. Len(y) \in Int /\ 1 .. Len(y) \subseteq Nat
    BY <1>1
  <2>2. IsFiniteSet(1 .. Len(y))
    BY <2>1, FS_Interval
  <2> QED
    BY <2>1, <2>2 DEF FiniteSubsetsOf
<1>3. T \subseteq FiniteSubsetsOf(Nat) /\ T # {}
  BY <1>2
<1>4. IsWellFoundedOn(R, FiniteSubsetsOf(Nat))
  BY FS_StrictSubsetOrderingWellFounded
<1> HIDE DEF R
<1>5. \E m \in T : \A n \in T : ~(<<n, m>> \in R)
  BY <1>3, <1>4, WFMin
<1>6. PICK y \in S : \A z \in S : ~(<<1 .. Len(z), 1 .. Len(y)>> \in R)
  BY <1>5
<1>7. ASSUME NEW z \in S, Len(z) < Len(y) PROVE FALSE
  <2>1. 1 .. Len(z) \subseteq 1 .. Len(y) /\ 1 .. Len(y) \subseteq Nat
    BY <1>1, <1>7
  <2>2. Len(y) \in 1 .. Len(y) /\ Len(y) \notin 1 .. Len(z)
    BY <1>1, <1>7
  <2>3. <<1 .. Len(z), 1 .. Len(y)>> \in R
    BY <2>1, <2>2 DEF R, StrictSubsetOrdering
  <2> QED
    BY <1>6, <2>3
<1> QED
  BY <1>1, <1>7

\* The hashes at a path tell apart what is to be fetched there, and so do those of
\* every directory on the way.
LEMMA DigestsDiffer ==
  ASSUME NEW l \in Tree, NEW r \in Tree, NEW x \in Lacking(l, r)
  PROVE  Digest(l, x) # Digest(r, x)
<1>1. x \in Path /\ r[x] \in Data /\ l[x] # r[x]
  BY DEF Lacking, Files
<1>2. Digest(r, x) = r[x]
  BY <1>1, DataAssumption DEF Digest
<1>3. CASE l[x] = Dir /\ Childless(l, x)
  BY <1>2, <1>3 DEF Digest, Lacking
<1>4. CASE ~(l[x] = Dir /\ Childless(l, x))
  BY <1>1, <1>2, <1>4 DEF Digest
<1> QED
  BY <1>3, <1>4

\* What reconcile fetches is needed.
LEMMA PulledIsLacking ==
  ASSUME NEW l \in Tree, NEW r \in Tree
  PROVE  Pulled(l, r) \subseteq Lacking(l, r)
<1> SUFFICES ASSUME NEW x \in Pulled(l, r)
             PROVE  x \in Lacking(l, r)
  OBVIOUS
<1>1. x \in Files(r) /\ x \in Path /\ r[x] \in Data
  BY DEF Pulled, Files
<1>2. PICK y \in {x} \cup Above(x) : Reported(l, r, y)
  BY DEF Pulled
<1>3. CASE y = x
  <2>1. PICK z \in {x} \cup Below(x) : Digest(l, z) # Digest(r, z)
    BY <1>2, <1>3 DEF Reported, Reached, SameHash
  <2>2. CASE z = x
    <3>1. Digest(r, x) = r[x]
      BY <1>1, DataAssumption DEF Digest
    <3>2. Digest(l, x) # r[x]
      BY <2>1, <2>2, <3>1
    <3> QED
      BY <1>1, <3>2, DataAssumption DEF Lacking, Digest
  <2>3. CASE z \in Below(x)
    <3>1. z \in Path /\ x \in Above(z)
      BY <2>3 DEF Below
    <3>2. r[z] = None
      BY <1>1, <3>1, DataAssumption DEF Tree
    <3>3. l[z] # None
      BY <2>1, <3>2, DataAssumption DEF Digest
    <3>4. l[x] = Dir /\ ~Childless(l, x)
      BY <2>3, <3>1, <3>3 DEF Tree, Childless
    <3> QED
      BY <1>1, <3>4, DataAssumption DEF Lacking
  <2> QED
    BY <2>1, <2>2, <2>3
<1>4. CASE y \in Above(x)
  <2>1. r[y] = Dir
    BY <1>1, <1>4, DataAssumption DEF Tree
  <2>2. l[y] # Dir
    BY <1>2, <2>1 DEF Reported
  <2>3. l[x] = None
    BY <1>1, <1>4, <2>2 DEF Tree
  <2> QED
    BY <1>1, <2>3, DataAssumption DEF Lacking
<1> QED
  BY <1>2, <1>3, <1>4

\* What is needed is fetched: at the outermost path on the way to it that is not a
\* directory in both trees.
LEMMA LackingIsPulled ==
  ASSUME NEW l \in Tree, NEW r \in Tree
  PROVE  Lacking(l, r) \subseteq Pulled(l, r)
<1> SUFFICES ASSUME NEW x \in Lacking(l, r)
             PROVE  x \in Pulled(l, r)
  OBVIOUS
<1> DEFINE S == {y \in {x} \cup Above(x) : ~(l[y] = Dir /\ r[y] = Dir)}
<1>1. x \in Files(r) /\ x \in Path /\ r[x] \in Data
  BY DEF Lacking, Files
<1>2. x \in S
  BY <1>1, DataAssumption
<1>3. PICK y \in S : \A z \in S : Len(y) <= Len(z)
  BY <1>1, <1>2, Outermost
<1>4. y \in Path /\ (y = x \/ y \in Above(x))
  BY <1>1, AbovePath
<1>5. ASSUME NEW z \in Above(y) PROVE l[z] = Dir /\ r[z] = Dir
  <2>1. z \in Above(x)
    BY <1>1, <1>4, AboveAbove
  <2>2. Len(z) \in 1 .. Len(y) - 1 /\ Len(y) \in Nat
    BY <1>4, AbovePath, PathLength, NameAssumption
  <2> QED
    BY <1>3, <2>1, <2>2
<1>6. x \in {y} \cup Below(y)
  BY <1>1, <1>4 DEF Below
<1>7. Reached(l, r, y)
  BY <1>5, <1>6, DigestsDiffer DEF Reached, SameHash
<1>8. r[y] # None
  BY <1>1, <1>4, DataAssumption DEF Tree
<1>9. Reported(l, r, y)
  BY <1>3, <1>7, <1>8 DEF Reported
<1> QED
  BY <1>1, <1>3, <1>9 DEF Pulled

\* For any two trees, of any names, depth and contents, diff and
\* fetch_node_recursive together take exactly the files that differ.
THEOREM PulledExactly ==
  ASSUME NEW l \in Tree, NEW r \in Tree
  PROVE  Pulled(l, r) = Lacking(l, r)
BY PulledIsLacking, LackingIsPulled

\* In every state a reconciliation takes exactly the files that the index lacks.
THEOREM ReconciliationExact == Spec => []DiffExact
<1>1. TypeOK => DiffExact
  BY BuildTree, PulledExactly DEF TypeOK, DiffExact
<1> QED
  BY <1>1, TreesStayTrees, PTL

-----------------------------------------------------------------------------
(* The index comes to what the folder is *)

\* The changes of peers that a task has in hand, and the events that wait.
Held == fetched \cup applying

Waits(e) == \E i \in DOMAIN queue : queue[i] = e

Gone(x) == [kind |-> "removed", path |-> x]

\* What the index is to follow: all that is neither hidden nor a conflict copy.
Followed(x) == ~Hidden(x) /\ ~Backup(x)

\* Conflict copies and what is hidden are all that the user moves away.
MovesAside == \A x \in Movable : ~Followed(x)

\* What is hidden has no event, no task and no metadata.
HiddenOut ==
  /\ \A i \in DOMAIN queue : ~Hidden(queue[i].path)
  /\ \A change \in fetched \cup (applying \cap Writes) : ~Hidden(change.path)
  /\ \A x \in meta : ~Hidden(x)

\* The changes in hand are of unrelated paths.
Apart ==
  /\ fetched \cap applying = {}
  /\ \A c, d \in Held : c # d => ~Related(c.path, d.path)

\* About the path of a change in hand no event waits, but for those of the directories made
\* for it, and that of its own deletion.
Alone ==
  \A change \in Held : \A i \in DOMAIN queue :
    Related(change.path, queue[i].path) =>
      \/ queue[i].kind = "changed" /\ queue[i].path \in Above(change.path)
      \/ change \notin Writes /\ queue[i] = Gone(change.path)

\* What a task did to the folder still stands when it comes to the index.
Stands ==
  \A change \in applying :
    folder[change.path] = IF change \in Writes THEN change.data ELSE None

\* Nothing was removed over what stands in the folder after the event that tells of it.
ChangedLast ==
  \A x \in Path : folder[x] # None /\ ~Backup(x) =>
    \A i, j \in DOMAIN queue :
      i < j /\ queue[i] = Changed(x) =>
        ~(queue[j].kind = "removed" /\ queue[j].path \in {x} \cup Above(x))

\* If a removal waits that takes what stands in the folder out of the index, an event behind
\* it brings it back, and no window keeps that one from being handled.
RemovedFirst ==
  \A x \in Files(folder) : Followed(x) =>
    \A i \in DOMAIN queue :
      queue[i].kind = "removed" /\ queue[i].path \in {x} \cup Above(x) =>
        /\ x \notin recent \cup marked
        /\ \E j \in DOMAIN queue : i < j /\ queue[j] = Changed(x)

\* The index learns of every file that it does not know as it is.
Awaited ==
  \A x \in Files(folder) : Followed(x) /\ tree[x] # folder[x] =>
    \/ x \notin recent \cup marked /\ Waits(Changed(x))
    \/ \E change \in applying \cap Writes : change.path = x

\* The index forgets every file that is none any more.
Forgotten ==
  \A x \in meta : x \notin Files(folder) /\ ~Backup(x) =>
    Waits(Gone(x)) \/ \E change \in applying \ Writes : change.path = x

IndexInv ==
  /\ HiddenOut /\ Apart /\ Alone /\ Stands
  /\ ChangedLast /\ RemovedFirst /\ Awaited /\ Forgotten
  /\ Files(tree) \subseteq meta

\* What holds of a queue to which an event may have been added.
Grown(e, silent) ==
  /\ \A i \in DOMAIN queue : i \in DOMAIN queue' /\ queue'[i] = queue[i]
  /\ \A i \in DOMAIN queue' : i \notin DOMAIN queue =>
       queue'[i] = e /\ ~silent /\ \A j \in DOMAIN queue' : j = i \/ j < i
  /\ \A i \in DOMAIN queue' : i \in Nat
  /\ ~silent => \E i \in DOMAIN queue' : i \notin DOMAIN queue

\* What holds of a queue from which the first event is taken.
Shrunk ==
  /\ 1 \in DOMAIN queue /\ queue[1] = Head(queue)
  /\ \A i \in DOMAIN queue : i \in Nat \ {0}
  /\ \A i \in DOMAIN queue' : i \in Nat /\ i + 1 \in DOMAIN queue /\ queue'[i] = queue[i + 1]
  /\ \A i \in DOMAIN queue : i > 1 => i - 1 \in DOMAIN queue' /\ queue'[i - 1] = queue[i]

LEMMA QueueTypes ==
  ASSUME TypeOK
  PROVE  /\ \A i \in DOMAIN queue : i \in Nat /\ queue[i] \in FsEvent
         /\ \A i \in DOMAIN queue : queue[i].path \in Path /\ queue[i].kind \in {"changed", "removed"}
<1>1. queue \in Seq(FsEvent)
  BY DEF TypeOK
<1>2. Len(queue) \in Nat /\ DOMAIN queue = 1 .. Len(queue) /\ \A i \in 1 .. Len(queue) : queue[i] \in FsEvent
  BY <1>1
<1> QED
  BY <1>2 DEF FsEvent

LEMMA RaiseGrows ==
  ASSUME TypeOK, NEW kind \in {"changed", "removed"}, NEW x \in Path, Raise(kind, x)
  PROVE  Grown([kind |-> kind, path |-> x], Silent(x))
<1> DEFINE e == [kind |-> kind, path |-> x]
<1>1. queue \in Seq(FsEvent) /\ e \in FsEvent
  BY DEF TypeOK, FsEvent
<1>2. Len(queue) \in Nat /\ DOMAIN queue = 1 .. Len(queue)
  BY <1>1
<1> HIDE DEF e
<1>3. CASE Silent(x)
  BY <1>2, <1>3 DEF Raise, Grown, e
<1>4. CASE ~Silent(x)
  <2>1. queue' = Append(queue, e)
    BY <1>4 DEF Raise, e
  <2>2. /\ DOMAIN queue' = 1 .. Len(queue) + 1
        /\ \A i \in 1 .. Len(queue) : queue'[i] = queue[i]
        /\ queue'[Len(queue) + 1] = e
    BY <1>1, <1>2, <2>1
  <2>3. Grown(e, Silent(x))
    BY <1>2, <1>4, <2>2 DEF Grown
  <2> QED
    BY <2>3 DEF e
<1> QED
  BY <1>3, <1>4

LEMMA TakeShrinks ==
  ASSUME TypeOK, queue # <<>>, queue' = Tail(queue)
  PROVE  Shrunk
<1>1. queue \in Seq(FsEvent)
  BY DEF TypeOK
<1>2. /\ Len(queue) \in Nat \ {0} /\ DOMAIN queue = 1 .. Len(queue) /\ queue[1] = Head(queue)
      /\ DOMAIN queue' = 1 .. Len(queue) - 1
      /\ \A i \in 1 .. Len(queue) - 1 : queue'[i] = queue[i + 1]
  BY <1>1
<1>3. \A i \in DOMAIN queue : i > 1 => i - 1 \in 1 .. Len(queue) - 1 /\ (i - 1) + 1 = i
  BY <1>2
<1> QED
  BY <1>2, <1>3 DEF Shrunk

LEMMA HeldTypes ==
  ASSUME TypeOK
  PROVE  /\ \A change \in Held : change \in Remote /\ change.path \in Path
         /\ \A change \in Writes : change.path \in Path /\ change.data \in Data
         /\ fetched \subseteq Writes /\ Held \subseteq Remote
<1>1. \A change \in Remote : change.path \in Path
  BY RemoteAssumption DEF Change
<1>2. \A change \in Writes : change.path \in Path /\ change.data \in Data
  BY RemoteAssumption DEF Change, Writes
<1> QED
  BY <1>1, <1>2 DEF TypeOK, Held, Writes

LEMMA RelatedSymmetric ==
  ASSUME NEW x, NEW y
  PROVE  Related(x, y) <=> Related(y, x)
BY DEF Related

\* What an entry does to the files of a tree: it comes in if no file is in its way, and
\* leaves the other files of the folder as they are.
LEMMA InsertFiles ==
  ASSUME NEW f \in Tree, NEW t \in Tree, NEW x \in Path, f[x] \in Data
  PROVE  /\ (\A y \in Above(x) : t[y] \notin Data) => Insert(t, x, f[x])[x] = f[x]
         /\ \A z \in Files(f) : z # x => Insert(t, x, f[x])[z] = t[z]
         /\ Files(Insert(t, x, f[x])) \subseteq Files(t) \cup {x}
<1>1. CASE \E y \in Above(x) : t[y] \in Data
  BY <1>1 DEF Insert
<1>2. CASE \A y \in Above(x) : t[y] \notin Data
  <2> DEFINE u == Insert(t, x, f[x])
  <2>1. /\ u[x] = f[x]
        /\ \A z \in Path : z # x /\ z \in Above(x) => u[z] = Dir
        /\ \A z \in Path : z # x /\ z \notin Above(x) /\ z \in Below(x) => u[z] = None
        /\ \A z \in Path : z # x /\ z \notin Above(x) /\ z \notin Below(x) => u[z] = t[z]
    BY <1>2 DEF Insert
  <2> HIDE DEF u
  <2>2. ASSUME NEW z \in Files(f), z # x
        PROVE  u[z] = t[z]
    <3>1. z \in Path /\ f[z] \in Data
      BY DEF Files
    <3>2. z \notin Above(x)
      BY <3>1, DataAssumption DEF Tree
    <3>3. z \notin Below(x)
      BY <3>1, DataAssumption DEF Tree, Below
    <3> QED
      BY <2>1, <2>2, <3>1, <3>2, <3>3
  <2>3. ASSUME NEW z \in Files(u), z # x
        PROVE  z \in Files(t)
    BY <2>1, <2>3, DataAssumption DEF Files
  <2> QED
    BY <2>1, <2>2, <2>3 DEF u
<1> QED
  BY <1>1, <1>2

\* What a removal does to them.
LEMMA RemoveFiles ==
  ASSUME NEW t \in Tree, NEW x \in Path
  PROVE  /\ \A z \in Path : x \notin {z} \cup Above(z) => Remove(t, x)[z] = t[z]
         /\ Files(Remove(t, x)) \subseteq Files(t) \ {x}
<1> DEFINE u == Remove(t, x)
<1>1. \A z \in Path : u[z] = IF x \in {z} \cup Above(z) THEN None ELSE t[z]
  BY DEF Remove, Below
<1> HIDE DEF u
<1>2. ASSUME NEW z \in Files(u)
      PROVE  z \in Files(t) /\ z # x
  BY <1>1, DataAssumption DEF Files
<1> QED
  BY <1>1, <1>2 DEF u

\* Something is put into the folder, and an event tells of it.
LEMMA PutKeeps ==
  ASSUME TypeOK, IndexInv, NEW x \in Path, NEW v \in Data \cup {Dir},
         folder' = [folder EXCEPT ![x] = v], Raise("changed", x),
         UNCHANGED <<tree, meta, recent, marked, fetched, applying>>,
         folder[x] # Dir, v = Dir => folder[x] = None,
         v # Dir /\ ~Backup(x) => x \notin recent \cup marked,
         \A change \in Held : Related(change.path, x) => x \in Above(change.path),
         folder[x] = None /\ ~Backup(x) =>
           \A i, j \in DOMAIN queue : i < j /\ queue[i] = Changed(x) =>
             ~(queue[j].kind = "removed" /\ queue[j].path \in {x} \cup Above(x))
  PROVE  IndexInv'
<1>1. Grown(Changed(x), Silent(x))
  BY RaiseGrows DEF Changed
<1>2. /\ Changed(x).kind = "changed" /\ Changed(x).path = x
  BY DEF Changed
<1>3. /\ folder'[x] = v /\ \A z \in Path : z # x => folder'[z] = folder[z]
  BY DEF TypeOK, Tree
<1>4. /\ \A z \in Path : z # x => (z \in Files(folder') <=> z \in Files(folder))
      /\ x \in Files(folder') <=> v # Dir
      /\ v = Dir => x \notin Files(folder)
      /\ \A z \in Files(folder') : z \in Path
  BY <1>3, DataAssumption DEF Files
<1>5. \A i \in DOMAIN queue' : queue'[i].kind = "removed" => i \in DOMAIN queue /\ queue'[i] = queue[i]
  BY <1>1, <1>2 DEF Grown
<1>6. \A e : Waits(e) => Waits(e)'
  BY <1>1 DEF Waits, Grown
<1>7. HiddenOut'
  <2>1. ASSUME NEW i \in DOMAIN queue'
        PROVE  ~Hidden(queue'[i].path)
    BY <1>1, <1>2 DEF Grown, Silent, IndexInv, HiddenOut
  <2> QED
    BY <2>1 DEF IndexInv, HiddenOut
<1>8. Apart'
  BY DEF IndexInv, Apart, Held
<1>9. Alone'
  <2>1. ASSUME NEW change \in Held, NEW i \in DOMAIN queue', Related(change.path, queue'[i].path)
        PROVE  \/ queue'[i].kind = "changed" /\ queue'[i].path \in Above(change.path)
               \/ change \notin Writes /\ queue'[i] = Gone(change.path)
    <3>1. CASE i \in DOMAIN queue
      BY <1>1, <2>1, <3>1 DEF Grown, IndexInv, Alone
    <3>2. CASE i \notin DOMAIN queue
      BY <1>1, <1>2, <2>1, <3>2 DEF Grown
    <3> QED
      BY <3>1, <3>2
  <2>2. Held' = Held
    BY DEF Held
  <2> QED
    BY <2>1, <2>2 DEF Alone
<1>10. Stands'
  <2>1. ASSUME NEW change \in applying
        PROVE  change.path # x /\ change.path \in Path
    BY HeldTypes, NotAboveItself DEF Held, Related
  <2> QED
    BY <1>3, <2>1 DEF IndexInv, Stands
<1>11. ChangedLast'
  <2> SUFFICES ASSUME NEW z \in Path, folder'[z] # None, ~Backup(z), NEW i \in DOMAIN queue', NEW j \in DOMAIN queue',
                      i < j, queue'[i] = Changed(z),
                      queue'[j].kind = "removed", queue'[j].path \in {z} \cup Above(z)
               PROVE  FALSE
    BY DEF ChangedLast, Changed
  <2>1. j \in DOMAIN queue /\ queue'[j] = queue[j]
    BY <1>5
  <2>2. i \in DOMAIN queue /\ queue'[i] = queue[i]
    <3>1. i \in Nat /\ j \in Nat
      BY <1>1 DEF Grown
    <3> QED
      BY <1>1, <3>1 DEF Grown
  <2>3. CASE z = x
    BY <1>3, <2>1, <2>2, <2>3 DEF IndexInv, ChangedLast
  <2>4. CASE z # x
    BY <1>3, <2>1, <2>2, <2>4 DEF IndexInv, ChangedLast
  <2> QED
    BY <2>3, <2>4
<1>12. RemovedFirst'
  <2> SUFFICES ASSUME NEW z \in Files(folder'), Followed(z), NEW i \in DOMAIN queue',
                      queue'[i].kind = "removed", queue'[i].path \in {z} \cup Above(z)
               PROVE  /\ z \notin recent \cup marked
                      /\ \E j \in DOMAIN queue' : i < j /\ queue'[j] = Changed(z)
    BY DEF RemovedFirst, Changed
  <2>1. i \in DOMAIN queue /\ queue'[i] = queue[i]
    BY <1>5
  <2>2. CASE z = x
    <3>1. x \notin recent \cup marked /\ ~Silent(x)
      BY <1>4, <2>2 DEF Silent, Followed
    <3>2. PICK j \in DOMAIN queue' : j \notin DOMAIN queue
      BY <1>1, <3>1 DEF Grown
    <3>3. queue'[j] = Changed(z) /\ i < j
      BY <1>1, <2>1, <2>2, <3>2 DEF Grown
    <3> QED
      BY <2>2, <3>1, <3>3
  <2>3. CASE z # x
    <3>1. z \in Files(folder)
      BY <1>4, <2>3
    <3>2. z \notin recent \cup marked /\ \E j \in DOMAIN queue : i < j /\ queue[j] = Changed(z)
      BY <2>1, <3>1 DEF IndexInv, RemovedFirst
    <3> QED
      BY <1>1, <3>2 DEF Grown
  <2> QED
    BY <2>2, <2>3
<1>13. Awaited'
  <2> SUFFICES ASSUME NEW z \in Files(folder'), Followed(z), tree[z] # folder'[z]
               PROVE  \/ z \notin recent \cup marked /\ Waits(Changed(z))'
                      \/ \E change \in applying \cap Writes : change.path = z
    BY DEF Awaited, Waits, Changed
  <2>1. CASE z = x
    <3>1. x \notin recent \cup marked /\ ~Silent(x)
      BY <1>4, <2>1 DEF Silent, Followed
    <3>2. Waits(Changed(x))'
      BY <1>1, <3>1 DEF Grown, Waits, Changed
    <3> QED
      BY <2>1, <3>1, <3>2
  <2>2. CASE z # x
    <3>1. z \in Files(folder) /\ tree[z] # folder[z]
      BY <1>3, <1>4, <2>2
    <3> QED
      BY <1>6, <3>1 DEF IndexInv, Awaited
  <2> QED
    BY <2>1, <2>2
<1>14. Forgotten'
  <2> SUFFICES ASSUME NEW z \in meta, z \notin Files(folder'), ~Backup(z)
               PROVE  Waits(Gone(z))' \/ \E change \in applying \ Writes : change.path = z
    BY DEF Forgotten, Waits, Gone
  <2>1. z \in Path
    BY DEF TypeOK
  <2>2. z \notin Files(folder)
    BY <1>4, <2>1
  <2> QED
    BY <1>6, <2>2 DEF IndexInv, Forgotten
<1> QED
  BY <1>7, <1>8, <1>9, <1>10, <1>11, <1>12, <1>13, <1>14 DEF IndexInv


\* A file goes, or an empty directory, and an event tells of it or a task will.
LEMMA CutKeeps ==
  ASSUME TypeOK, IndexInv, NEW x \in Path, folder' = [folder EXCEPT ![x] = None],
         Childless(folder, x), Raise("removed", x),
         UNCHANGED <<tree, meta, recent, marked, fetched>>,
         NEW more \in SUBSET (Remote \ Writes), applying' = applying \cup more,
         \A c, d \in more : c = d /\ c.path = x, more = {} => x \notin marked,
         \A change \in Held : ~Related(change.path, x),
         more # {} => \A i \in DOMAIN queue : ~Related(x, queue[i].path)
  PROVE  IndexInv'
<1>1. Grown(Gone(x), Silent(x))
  BY RaiseGrows DEF Gone
<1>2. Gone(x).kind = "removed" /\ Gone(x).path = x
  BY DEF Gone
<1>3. folder'[x] = None /\ \A z \in Path : z # x => folder'[z] = folder[z]
  BY DEF TypeOK, Tree
<1>4. /\ \A z \in Path : z # x => (z \in Files(folder') <=> z \in Files(folder))
      /\ x \notin Files(folder')
      /\ \A z \in Files(folder') : z \in Path
  BY <1>3, DataAssumption DEF Files
<1>5. \A i \in DOMAIN queue' : queue'[i].kind = "changed" => i \in DOMAIN queue /\ queue'[i] = queue[i]
  BY <1>1, <1>2 DEF Grown
<1>6. \A e : Waits(e) => Waits(e)'
  BY <1>1 DEF Waits, Grown
<1>7. \A z \in Path : x \in Above(z) => folder[z] = None /\ folder'[z] = None
  <2>1. \A z \in Path : x \in Above(z) => folder[z] = None
    BY DEF Childless, Below
  <2> QED
    BY <1>3, <2>1
<1>8. HiddenOut'
  <2>1. ASSUME NEW i \in DOMAIN queue'
        PROVE  ~Hidden(queue'[i].path)
    BY <1>1, <1>2 DEF Grown, Silent, IndexInv, HiddenOut
  <2>2. applying' \cap Writes = applying \cap Writes
    OBVIOUS
  <2> QED
    BY <2>1, <2>2 DEF IndexInv, HiddenOut
<1>9. Held' = Held \cup more
  BY DEF Held
<1>10. \A change \in more : change \notin Held
  BY DEF Related
<1>11. Apart'
  <2>1. fetched \cap applying' = {}
    BY <1>10 DEF IndexInv, Apart, Held
  <2>2. ASSUME NEW c \in Held \cup more, NEW d \in Held \cup more, c # d
        PROVE  ~Related(c.path, d.path)
    <3>1. CASE c \in Held /\ d \in Held
      BY <2>2, <3>1 DEF IndexInv, Apart
    <3>2. CASE c \in Held /\ d \in more
      BY <3>2
    <3>3. CASE c \in more /\ d \in Held
      BY <3>3, RelatedSymmetric
    <3>4. CASE c \in more /\ d \in more
      BY <2>2, <3>4
    <3> QED
      BY <3>1, <3>2, <3>3, <3>4
  <2> QED
    BY <1>9, <2>1, <2>2 DEF Apart
<1>12. Alone'
  <2>1. ASSUME NEW change \in Held \cup more, NEW i \in DOMAIN queue', Related(change.path, queue'[i].path)
        PROVE  \/ queue'[i].kind = "changed" /\ queue'[i].path \in Above(change.path)
               \/ change \notin Writes /\ queue'[i] = Gone(change.path)
    <3>1. CASE i \in DOMAIN queue
      <4>1. queue'[i] = queue[i]
        BY <1>1, <3>1 DEF Grown
      <4>2. change \notin more
        BY <2>1, <3>1, <4>1
      <4> QED
        BY <2>1, <3>1, <4>1, <4>2 DEF IndexInv, Alone
    <3>2. CASE i \notin DOMAIN queue
      <4>1. queue'[i] = Gone(x)
        BY <1>1, <3>2 DEF Grown
      <4>2. change \in more
        BY <1>2, <2>1, <4>1
      <4> QED
        BY <4>1, <4>2
    <3> QED
      BY <3>1, <3>2
  <2> QED
    BY <1>9, <2>1 DEF Alone
<1>13. Stands'
  <2>1. ASSUME NEW change \in applying
        PROVE  change.path # x /\ change.path \in Path
    BY HeldTypes DEF Held, Related
  <2>2. \A change \in more : change \notin Writes /\ folder'[change.path] = None
    BY <1>3
  <2> QED
    BY <1>3, <2>1, <2>2 DEF IndexInv, Stands
<1>14. ChangedLast'
  <2> SUFFICES ASSUME NEW z \in Path, folder'[z] # None, ~Backup(z), NEW i \in DOMAIN queue', NEW j \in DOMAIN queue',
                      i < j, queue'[i] = Changed(z),
                      queue'[j].kind = "removed", queue'[j].path \in {z} \cup Above(z)
               PROVE  FALSE
    BY DEF ChangedLast, Changed
  <2>1. z # x /\ folder[z] # None /\ x \notin {z} \cup Above(z)
    BY <1>3, <1>7
  <2>2. i \in DOMAIN queue /\ queue'[i] = queue[i]
    BY <1>5 DEF Changed
  <2>3. CASE j \in DOMAIN queue
    <3>1. queue'[j] = queue[j]
      BY <1>1, <2>3 DEF Grown
    <3>2. ~(queue[j].kind = "removed" /\ queue[j].path \in {z} \cup Above(z))
      BY <2>1, <2>2, <2>3 DEF IndexInv, ChangedLast
    <3> QED
      BY <3>1, <3>2
  <2>4. CASE j \notin DOMAIN queue
    BY <1>1, <1>2, <2>1, <2>4 DEF Grown
  <2> QED
    BY <2>3, <2>4
<1>15. RemovedFirst'
  <2> SUFFICES ASSUME NEW z \in Files(folder'), Followed(z), NEW i \in DOMAIN queue',
                      queue'[i].kind = "removed", queue'[i].path \in {z} \cup Above(z)
               PROVE  /\ z \notin recent \cup marked
                      /\ \E j \in DOMAIN queue' : i < j /\ queue'[j] = Changed(z)
    BY DEF RemovedFirst, Changed
  <2>1. z \in Path /\ z # x /\ z \in Files(folder) /\ folder'[z] # None
    BY <1>4, DataAssumption DEF Files
  <2>2. x \notin {z} \cup Above(z)
    BY <1>7, <2>1
  <2>3. i \in DOMAIN queue /\ queue'[i] = queue[i]
    BY <1>1, <1>2, <2>2 DEF Grown
  <2>4. z \notin recent \cup marked /\ \E j \in DOMAIN queue : i < j /\ queue[j] = Changed(z)
    BY <2>1, <2>3 DEF IndexInv, RemovedFirst
  <2> QED
    BY <1>1, <2>4 DEF Grown
<1>16. Awaited'
  <2> SUFFICES ASSUME NEW z \in Files(folder'), Followed(z), tree[z] # folder'[z]
               PROVE  \/ z \notin recent \cup marked /\ Waits(Changed(z))'
                      \/ \E change \in applying' \cap Writes : change.path = z
    BY DEF Awaited, Waits, Changed
  <2>1. z \in Path /\ z # x /\ z \in Files(folder) /\ tree[z] # folder[z]
    BY <1>3, <1>4
  <2> QED
    BY <1>6, <2>1 DEF IndexInv, Awaited
<1>17. Forgotten'
  <2> SUFFICES ASSUME NEW z \in meta, z \notin Files(folder'), ~Backup(z)
               PROVE  Waits(Gone(z))' \/ \E change \in applying' \ Writes : change.path = z
    BY DEF Forgotten, Waits, Gone
  <2>1. z \in Path /\ ~Hidden(z)
    BY DEF TypeOK, IndexInv, HiddenOut
  <2>2. CASE z # x
    <3>1. z \notin Files(folder)
      BY <1>4, <2>1, <2>2
    <3> QED
      BY <1>6, <3>1 DEF IndexInv, Forgotten
  <2>3. CASE z = x /\ more = {}
    <3>1. ~Silent(x)
      BY <2>1, <2>3 DEF Silent
    <3> QED
      BY <1>1, <2>3, <3>1 DEF Grown, Waits
  <2>4. CASE z = x /\ more # {}
    BY <2>4
  <2> QED
    BY <2>2, <2>3, <2>4
<1> QED
  BY <1>8, <1>11, <1>12, <1>13, <1>14, <1>15, <1>16, <1>17 DEF IndexInv

LEMMA UserPutKeeps ==
  ASSUME TypeOK, IndexInv, Patient, Spaced, NEW x \in Path, NEW v \in Data \cup {Dir},
         Open(x), folder[x] # Dir, v = Dir => folder[x] = None,
         folder' = [folder EXCEPT ![x] = v], Raise("changed", x),
         UNCHANGED <<tree, meta, recent, marked, fetched, applying>>
  PROVE  IndexInv'
<1>1. \A change \in Held : ~Related(change.path, x)
  BY RelatedSymmetric DEF Open, Untouched, Held
<1>2. x \notin recent \cup marked /\ (folder[x] = None => \A i \in DOMAIN queue : queue[i] # Changed(x))
  BY DEF Open, Rested
<1> QED
  BY <1>1, <1>2, PutKeeps

\* A conflict copy comes without the index: its event is ignored.
LEMMA LoseConflictKeeps ==
  ASSUME TypeOK, IndexInv, Spaced, NEW change \in Writes, LoseConflict(change)
  PROVE  IndexInv'
<1> DEFINE x == change.path
           y == ConflictName[x]
<1>1. y \in Path /\ Backup(y)
  BY RemoteAssumption, ConflictAssumption DEF Change, Writes
<1>2. /\ folder[x] \in Data /\ folder[y] # Dir /\ Untouched(y)
      /\ folder' = [folder EXCEPT ![y] = folder[x]] /\ Raise("changed", y)
      /\ UNCHANGED <<tree, meta, recent, marked, fetched, applying>>
  BY DEF LoseConflict
<1> HIDE DEF x, y
<1>3. \A other \in Held : ~Related(other.path, y)
  BY <1>2, RelatedSymmetric DEF Untouched, Held
<1>4. folder[x] # Dir
  BY <1>2, DataAssumption
<1> QED
  BY <1>1, <1>2, <1>3, <1>4, PutKeeps

\* The index keeps what was moved away, and was not to follow it.
LEMMA UserMoveAwayKeeps ==
  ASSUME TypeOK, IndexInv, Spaced, MovesAside, NEW x \in Path, UserMoveAway(x)
  PROVE  IndexInv'
<1>1. /\ folder' = Remove(folder, x) /\ Raise("changed", x) /\ x \in Movable
      /\ UNCHANGED <<tree, meta, recent, marked, fetched, applying>>
  BY DEF UserMoveAway
<1>2. Grown(Changed(x), Silent(x))
  BY <1>1, RaiseGrows DEF Changed
<1>3. Changed(x).kind = "changed" /\ Changed(x).path = x
  BY DEF Changed
<1>4. \A change \in Held : ~Related(change.path, x)
  BY RelatedSymmetric DEF UserMoveAway, Untouched, Held
<1>5. /\ \A z \in Path : x \notin {z} \cup Above(z) => folder'[z] = folder[z]
      /\ Files(folder') \subseteq Files(folder) \ {x}
      /\ \A z \in Path : folder'[z] # None => folder'[z] = folder[z]
  <2>1. folder \in Tree
    BY DEF TypeOK
  <2>2. \A z \in Path : folder'[z] = IF z = x \/ z \in Below(x) THEN None ELSE folder[z]
    BY <1>1 DEF Remove
  <2> QED
    BY <1>1, <2>1, <2>2, RemoveFiles
<1>6. \A z \in Path : Followed(z) => x \notin {z} \cup Above(z)
  <2>1. ASSUME NEW z \in Path, x \in Above(z), ~Followed(x)
        PROVE  ~Followed(z)
    BY <2>1, AboveHidden DEF Followed
  <2> QED
    BY <1>1, <2>1 DEF MovesAside
<1>7. \A i \in DOMAIN queue' : queue'[i].kind = "removed" => i \in DOMAIN queue /\ queue'[i] = queue[i]
  BY <1>2, <1>3 DEF Grown
<1>8. \A e : Waits(e) => Waits(e)'
  BY <1>2 DEF Waits, Grown
<1>9. HiddenOut'
  <2>1. ASSUME NEW i \in DOMAIN queue'
        PROVE  ~Hidden(queue'[i].path)
    BY <1>2, <1>3 DEF Grown, Silent, IndexInv, HiddenOut
  <2> QED
    BY <1>1, <2>1 DEF IndexInv, HiddenOut
<1>10. Apart'
  BY <1>1 DEF IndexInv, Apart, Held
<1>11. Alone'
  <2>1. ASSUME NEW change \in Held, NEW i \in DOMAIN queue', Related(change.path, queue'[i].path)
        PROVE  \/ queue'[i].kind = "changed" /\ queue'[i].path \in Above(change.path)
               \/ change \notin Writes /\ queue'[i] = Gone(change.path)
    <3>1. i \in DOMAIN queue /\ queue'[i] = queue[i]
      BY <1>2, <1>3, <1>4, <2>1 DEF Grown
    <3> QED
      BY <2>1, <3>1 DEF IndexInv, Alone
  <2>2. Held' = Held
    BY <1>1 DEF Held
  <2> QED
    BY <2>1, <2>2 DEF Alone
<1>12. Stands'
  <2>1. ASSUME NEW change \in applying
        PROVE  folder'[change.path] = folder[change.path]
    BY <1>4, <1>5, HeldTypes DEF Held, Related
  <2> QED
    BY <1>1, <2>1 DEF IndexInv, Stands
<1>13. ChangedLast'
  <2> SUFFICES ASSUME NEW z \in Path, folder'[z] # None, ~Backup(z), NEW i \in DOMAIN queue',
                      NEW j \in DOMAIN queue', i < j, queue'[i] = Changed(z),
                      queue'[j].kind = "removed", queue'[j].path \in {z} \cup Above(z)
               PROVE  FALSE
    BY DEF ChangedLast, Changed
  <2>1. j \in DOMAIN queue /\ queue'[j] = queue[j]
    BY <1>7
  <2>2. i \in DOMAIN queue /\ queue'[i] = queue[i]
    <3>1. i \in Nat /\ j \in Nat
      BY <1>2 DEF Grown
    <3> QED
      BY <1>2, <2>1, <3>1 DEF Grown
  <2> QED
    BY <1>5, <2>1, <2>2 DEF IndexInv, ChangedLast
<1>14. RemovedFirst'
  <2> SUFFICES ASSUME NEW z \in Files(folder'), Followed(z), NEW i \in DOMAIN queue',
                      queue'[i].kind = "removed", queue'[i].path \in {z} \cup Above(z)
               PROVE  /\ z \notin recent \cup marked
                      /\ \E j \in DOMAIN queue' : i < j /\ queue'[j] = Changed(z)
    BY <1>1 DEF RemovedFirst, Changed
  <2>1. z \in Files(folder) /\ i \in DOMAIN queue /\ queue'[i] = queue[i]
    BY <1>5, <1>7
  <2>2. z \notin recent \cup marked /\ \E j \in DOMAIN queue : i < j /\ queue[j] = Changed(z)
    BY <2>1 DEF IndexInv, RemovedFirst
  <2> QED
    BY <1>2, <2>2 DEF Grown
<1>15. Awaited'
  <2> SUFFICES ASSUME NEW z \in Files(folder'), Followed(z), tree[z] # folder'[z]
               PROVE  \/ z \notin recent \cup marked /\ Waits(Changed(z))'
                      \/ \E change \in applying \cap Writes : change.path = z
    BY <1>1 DEF Awaited, Waits, Changed
  <2>1. z \in Path /\ z \in Files(folder)
    BY <1>5 DEF Files
  <2>2. folder'[z] = folder[z]
    BY <1>5, <1>6, <2>1
  <2> QED
    BY <1>8, <2>1, <2>2 DEF IndexInv, Awaited
<1>16. Forgotten'
  <2> SUFFICES ASSUME NEW z \in meta, z \notin Files(folder'), ~Backup(z)
               PROVE  Waits(Gone(z))' \/ \E change \in applying \ Writes : change.path = z
    BY <1>1 DEF Forgotten, Waits, Gone
  <2>1. z \in Path /\ Followed(z)
    BY DEF TypeOK, IndexInv, HiddenOut, Followed
  <2>2. z \notin Files(folder)
    BY <1>5, <1>6, <2>1 DEF Files
  <2> QED
    BY <1>8, <2>2 DEF IndexInv, Forgotten
<1> QED
  BY <1>1, <1>9, <1>10, <1>11, <1>12, <1>13, <1>14, <1>15, <1>16 DEF IndexInv

LEMMA UserRemoveKeeps ==
  ASSUME TypeOK, IndexInv, Patient, Spaced, NEW x \in Path, UserRemove(x)
  PROVE  IndexInv'
<1>1. \A change \in Held : ~Related(change.path, x)
  BY RelatedSymmetric DEF UserRemove, Untouched, Held
<1>2. applying' = applying \cup {} /\ {} \in SUBSET (Remote \ Writes)
  BY DEF UserRemove
<1>3. x \notin marked
  BY DEF UserRemove
<1> QED
  BY <1>1, <1>2, <1>3, CutKeeps DEF UserRemove

\* The directories made for a file are above its path: nothing else is in hand there, and
\* no removal waits.
LEMMA MakeAboveKeeps ==
  ASSUME TypeOK, IndexInv, NEW change \in fetched, NEW y \in Path, MakeAbove(change, y)
  PROVE  IndexInv'
<1> DEFINE x == change.path
<1>1. change \in Held /\ change \in Writes /\ x \in Path /\ y \in Above(x)
  BY HeldTypes DEF Held, MakeAbove
<1> HIDE DEF x
<1>2. ASSUME NEW other \in Held, Related(other.path, y)
      PROVE  y \in Above(other.path)
  <2>1. CASE other = change
    BY <1>1, <2>1 DEF x
  <2>2. CASE other # change
    <3>1. ~Related(x, other.path)
      BY <1>1, <2>2 DEF IndexInv, Apart, x
    <3>2. other.path # y
      BY <1>1, <3>1 DEF Related
    <3>3. other.path \notin Above(y)
      BY <1>1, <3>1, AboveAbove DEF Related
    <3> QED
      BY <1>2, <3>2, <3>3 DEF Related
  <2> QED
    BY <2>1, <2>2
<1>3. ASSUME NEW j \in DOMAIN queue, queue[j].kind = "removed", queue[j].path \in {y} \cup Above(y)
      PROVE  FALSE
  <2>1. queue[j].path \in Above(x)
    BY <1>1, <1>3, AboveAbove
  <2>2. Related(change.path, queue[j].path)
    BY <2>1 DEF Related, x
  <2> QED
    BY <1>1, <1>3, <2>2 DEF IndexInv, Alone
<1>4. folder[y] = None /\ folder' = [folder EXCEPT ![y] = Dir] /\ Raise("changed", y)
      /\ UNCHANGED <<tree, meta, recent, marked, fetched, applying>>
  BY DEF MakeAbove
<1> QED
  BY <1>2, <1>3, <1>4, PutKeeps, DataAssumption

LEMMA DeleteFileKeeps ==
  ASSUME TypeOK, IndexInv, Spaced, NEW change \in Remote \ Writes, DeleteFile(change)
  PROVE  IndexInv'
<1> DEFINE x == change.path
<1>1. x \in Path /\ folder[x] # Dir
  BY RemoteAssumption DEF Change, DeleteFile
<1>2. /\ \A other \in Held : ~Related(x, other.path) /\ ~Related(other.path, x)
      /\ \A i \in DOMAIN queue : ~Related(x, queue[i].path)
  BY RelatedSymmetric DEF DeleteFile, Quiet, Untouched, Held
<1>3. applying' = applying \cup {change} /\ UNCHANGED <<tree, meta, recent, marked, fetched>>
  BY DEF DeleteFile
<1>4. CASE folder[x] \in Data
  <2>1. folder' = [folder EXCEPT ![x] = None] /\ Raise("removed", x)
    BY <1>4 DEF DeleteFile
  <2>2. Childless(folder, x)
    BY <1>1, FileChildless DEF TypeOK
  <2>3. {change} \in SUBSET (Remote \ Writes) /\ \A c, d \in {change} : c = d /\ c.path = x
    OBVIOUS
  <2> HIDE DEF x
  <2> QED
    BY <1>1, <1>2, <1>3, <2>1, <2>2, <2>3, CutKeeps
<1>5. CASE folder[x] \notin Data
  <2>1. folder[x] = None /\ UNCHANGED <<folder, queue>>
    BY <1>1, <1>5 DEF DeleteFile, TypeOK, Tree
  <2>2. Held' = Held \cup {change} /\ change \notin Held /\ applying' \cap Writes = applying \cap Writes
    BY <1>2, <1>3 DEF Held, Related
  <2>3. HiddenOut'
    BY <1>3, <2>1, <2>2 DEF IndexInv, HiddenOut
  <2>4. Apart'
    <3>1. fetched' \cap applying' = {}
      BY <1>3, <2>2 DEF IndexInv, Apart, Held
    <3>2. \A c, d \in Held \cup {change} : c # d => ~Related(c.path, d.path)
      BY <1>2 DEF IndexInv, Apart
    <3> QED
      BY <2>2, <3>1, <3>2 DEF Apart
  <2>5. Alone'
    BY <1>2, <2>1, <2>2 DEF IndexInv, Alone
  <2>6. Stands'
    BY <1>3, <2>1 DEF IndexInv, Stands
  <2>7. ChangedLast' /\ RemovedFirst'
    BY <1>3, <2>1 DEF IndexInv, ChangedLast, RemovedFirst
  <2>8. Awaited'
    BY <1>3, <2>1, <2>2 DEF IndexInv, Awaited, Waits
  <2>9. Forgotten'
    BY <1>3, <2>1 DEF IndexInv, Forgotten, Waits
  <2> QED
    BY <1>3, <2>3, <2>4, <2>5, <2>6, <2>7, <2>8, <2>9 DEF IndexInv
<1> QED
  BY <1>4, <1>5

\* The first event is taken: what holds of the events holds of the others.
LEMMA TakeKeeps ==
  ASSUME TypeOK, IndexInv, queue # <<>>, queue' = Tail(queue),
         UNCHANGED <<folder, fetched, applying>>
  PROVE  /\ Apart' /\ Alone' /\ Stands' /\ ChangedLast'
         /\ \A i \in DOMAIN queue' : ~Hidden(queue'[i].path)
         /\ \A e : Waits(e) /\ e # Head(queue) => Waits(e)'
         /\ \A z \in Files(folder) : Followed(z) =>
              \A i \in DOMAIN queue' :
                queue'[i].kind = "removed" /\ queue'[i].path \in {z} \cup Above(z) =>
                  /\ z \notin recent \cup marked
                  /\ \E j \in DOMAIN queue' : i < j /\ queue'[j] = Changed(z)
<1>1. Shrunk
  BY TakeShrinks
<1>2. \A i \in DOMAIN queue' : i \in Nat /\ i + 1 \in DOMAIN queue /\ queue'[i] = queue[i + 1]
  BY <1>1 DEF Shrunk
<1>3. \A i \in DOMAIN queue' : \E k \in DOMAIN queue : queue'[i] = queue[k]
  BY <1>2
<1>4. Held' = Held
  BY DEF Held
<1>5. Apart' /\ Stands'
  BY <1>4 DEF IndexInv, Apart, Stands
<1>6. Alone'
  <2>1. ASSUME NEW change \in Held, NEW i \in DOMAIN queue', Related(change.path, queue'[i].path)
        PROVE  \/ queue'[i].kind = "changed" /\ queue'[i].path \in Above(change.path)
               \/ change \notin Writes /\ queue'[i] = Gone(change.path)
    <3>1. PICK k \in DOMAIN queue : queue'[i] = queue[k]
      BY <1>3
    <3> QED
      BY <2>1, <3>1 DEF IndexInv, Alone
  <2> QED
    BY <1>4, <2>1 DEF Alone
<1>7. ChangedLast'
  <2> SUFFICES ASSUME NEW z \in Path, folder[z] # None, ~Backup(z), NEW i \in DOMAIN queue', NEW j \in DOMAIN queue',
                      i < j, queue'[i] = Changed(z)
               PROVE  ~(queue'[j].kind = "removed" /\ queue'[j].path \in {z} \cup Above(z))
    BY DEF ChangedLast, Changed
  <2>1. PICK k \in DOMAIN queue, l \in DOMAIN queue : k < l /\ queue'[i] = queue[k] /\ queue'[j] = queue[l]
    BY <1>2
  <2> QED
    BY <2>1 DEF IndexInv, ChangedLast
<1>8. ASSUME NEW i \in DOMAIN queue'
      PROVE  ~Hidden(queue'[i].path)
  BY <1>3 DEF IndexInv, HiddenOut
<1>9. ASSUME NEW e, Waits(e), e # Head(queue)
      PROVE  Waits(e)'
  <2>1. PICK i \in DOMAIN queue : queue[i] = e
    BY <1>9 DEF Waits
  <2>2. i > 1
    BY <1>1, <1>9, <2>1 DEF Shrunk
  <2>3. PICK k \in DOMAIN queue' : queue'[k] = e
    BY <1>1, <2>1, <2>2 DEF Shrunk
  <2> QED
    BY <2>3 DEF Waits
<1>10. ASSUME NEW z \in Files(folder), Followed(z), NEW i \in DOMAIN queue',
              queue'[i].kind = "removed", queue'[i].path \in {z} \cup Above(z)
       PROVE  /\ z \notin recent \cup marked
              /\ \E j \in DOMAIN queue' : i < j /\ queue'[j] = Changed(z)
  <2>1. PICK k \in DOMAIN queue : k = i + 1 /\ queue[k] = queue'[i]
    BY <1>2
  <2>2. z \notin recent \cup marked /\ \E j \in DOMAIN queue : k < j /\ queue[j] = Changed(z)
    BY <1>10, <2>1 DEF IndexInv, RemovedFirst
  <2>3. PICK j \in DOMAIN queue : k < j /\ queue[j] = Changed(z)
    BY <2>2
  <2>4. i \in Nat /\ j \in Nat /\ j > 1
    BY <1>1, <1>2, <2>1, <2>3 DEF Shrunk
  <2>5. PICK l \in DOMAIN queue' : l = j - 1 /\ queue'[l] = Changed(z)
    BY <1>1, <2>3, <2>4 DEF Shrunk
  <2>6. i < l
    BY <2>1, <2>3, <2>4, <2>5
  <2> QED
    BY <2>2, <2>5, <2>6
<1> QED
  BY <1>5, <1>6, <1>7, <1>8, <1>9, <1>10

\* No removal waits of a path whose event comes first and where something stands.
LEMMA FirstIsLast ==
  ASSUME TypeOK, IndexInv, queue # <<>>, NEW x \in Path, Head(queue) = Changed(x), folder[x] # None, ~Backup(x),
         NEW i \in DOMAIN queue, queue[i].kind = "removed", queue[i].path \in {x} \cup Above(x)
  PROVE  FALSE
<1>1. 1 \in DOMAIN queue /\ queue[1] = Changed(x) /\ \A k \in DOMAIN queue : k \in Nat \ {0}
  <2>1. queue \in Seq(FsEvent)
    BY DEF TypeOK
  <2> QED
    BY <2>1
<1>2. i # 1
  BY <1>1 DEF Changed
<1>3. 1 < i
  BY <1>1, <1>2
<1> QED
  BY <1>1, <1>3 DEF IndexInv, ChangedLast

LEMMA HandleChangedKeeps ==
  ASSUME TypeOK, IndexInv, HandleChanged
  PROVE  IndexInv'
<1> DEFINE x == Head(queue).path
<1>1. Head(queue) = Changed(x) /\ x \in Path /\ ~Hidden(x) /\ x \notin recent \cup marked
  <2>1. Head(queue) \in FsEvent /\ Head(queue).kind = "changed" /\ x \notin recent \cup marked
    BY EventsType DEF HandleChanged, TypeOK
  <2>2. Head(queue) = Changed(x) /\ x \in Path
    BY <2>1 DEF FsEvent, Changed
  <2>3. \E i \in DOMAIN queue : queue[i] = Head(queue)
    <3>1. queue \in Seq(FsEvent) /\ queue # <<>>
      BY DEF HandleChanged, TypeOK
    <3> QED
      BY <3>1
  <2>4. ~Hidden(x)
    BY <2>3 DEF IndexInv, HiddenOut
  <2> QED
    BY <2>1, <2>2, <2>4
<1>2. /\ queue # <<>> /\ queue' = Tail(queue) /\ recent' = recent \cup {x}
      /\ UNCHANGED <<folder, marked, fetched, applying>>
      /\ x \in Files(folder) /\ ~Backup(x) => tree' = Insert(tree, x, folder[x]) /\ meta' = meta \cup {x}
      /\ ~(x \in Files(folder) /\ ~Backup(x)) => UNCHANGED <<tree, meta>>
  BY DEF HandleChanged
<1> HIDE DEF x
<1>3. /\ Apart' /\ Alone' /\ Stands' /\ ChangedLast'
      /\ \A i \in DOMAIN queue' : ~Hidden(queue'[i].path)
      /\ \A e : Waits(e) /\ e # Head(queue) => Waits(e)'
      /\ \A z \in Files(folder) : Followed(z) =>
           \A i \in DOMAIN queue' :
             queue'[i].kind = "removed" /\ queue'[i].path \in {z} \cup Above(z) =>
               /\ z \notin recent \cup marked
               /\ \E j \in DOMAIN queue' : i < j /\ queue'[j] = Changed(z)
  BY <1>2, TakeKeeps
<1>4. \A i \in DOMAIN queue' : \E k \in DOMAIN queue : queue'[i] = queue[k]
  BY <1>2, TakeShrinks DEF Shrunk
<1>5. ASSUME x \in Files(folder), ~Backup(x)
      PROVE  /\ tree'[x] = folder[x]
             /\ \A z \in Files(folder) : z # x => tree'[z] = tree[z]
             /\ Files(tree') \subseteq Files(tree) \cup {x}
  <2>1. folder[x] \in Data /\ folder[x] # None /\ folder \in Tree /\ tree \in Tree
    BY <1>5, DataAssumption DEF Files, TypeOK
  <2>2. ASSUME NEW y \in Above(x), tree[y] \in Data
        PROVE  FALSE
    <3>1. y \in Path /\ folder[y] = Dir /\ y \in meta /\ y \notin Files(folder) /\ ~Backup(y)
      BY <1>1, <1>5, <2>1, <2>2, AbovePath, AboveHidden, DataAssumption DEF Tree, Files, IndexInv
    <3>2. ~Waits(Gone(y))
      <4>1. ASSUME NEW i \in DOMAIN queue, queue[i] = Gone(y)
            PROVE  FALSE
        <5>1. queue[i].kind = "removed" /\ queue[i].path \in {x} \cup Above(x)
          BY <2>2, <4>1 DEF Gone
        <5> QED
          BY <1>1, <1>2, <1>5, <2>1, <5>1, FirstIsLast
      <4> QED
        BY <4>1 DEF Waits
    <3>3. ASSUME NEW change \in applying \ Writes, change.path = y
          PROVE  FALSE
      BY <3>1, <3>3, DataAssumption DEF IndexInv, Stands
    <3> QED
      BY <3>1, <3>2, <3>3 DEF IndexInv, Forgotten
  <2> QED
    BY <1>1, <1>2, <1>5, <2>1, <2>2, InsertFiles
<1>6. HiddenOut'
  BY <1>1, <1>2, <1>3 DEF IndexInv, HiddenOut
<1>7. RemovedFirst'
  <2> SUFFICES ASSUME NEW z \in Files(folder), Followed(z), NEW i \in DOMAIN queue',
                      queue'[i].kind = "removed", queue'[i].path \in {z} \cup Above(z)
               PROVE  /\ z \notin recent' \cup marked
                      /\ \E j \in DOMAIN queue' : i < j /\ queue'[j] = Changed(z)
    BY <1>2 DEF RemovedFirst, Changed
  <2>1. z \notin recent \cup marked /\ \E j \in DOMAIN queue' : i < j /\ queue'[j] = Changed(z)
    BY <1>3
  <2>2. z # x
    <3>1. PICK k \in DOMAIN queue : queue'[i] = queue[k]
      BY <1>4
    <3>2. z \in Path /\ folder[z] # None
      BY DataAssumption DEF Files
    <3> QED
      BY <1>1, <1>2, <3>1, <3>2, FirstIsLast DEF Followed
  <2> QED
    BY <1>2, <2>1, <2>2
<1>8. Awaited'
  <2> SUFFICES ASSUME NEW z \in Files(folder), Followed(z), tree'[z] # folder[z]
               PROVE  \/ z \notin recent' \cup marked /\ Waits(Changed(z))'
                      \/ \E change \in applying \cap Writes : change.path = z
    BY <1>2 DEF Awaited, Waits, Changed
  <2>1. z # x /\ tree[z] # folder[z]
    BY <1>2, <1>5 DEF Followed
  <2>2. Changed(z) # Head(queue)
    BY <1>1, <2>1 DEF Changed
  <2> QED
    BY <1>2, <1>3, <2>1, <2>2 DEF IndexInv, Awaited
<1>9. Forgotten'
  <2> SUFFICES ASSUME NEW z \in meta', z \notin Files(folder), ~Backup(z)
               PROVE  Waits(Gone(z))' \/ \E change \in applying \ Writes : change.path = z
    BY <1>2 DEF Forgotten, Waits, Gone
  <2>1. z \in meta
    BY <1>2
  <2>2. Gone(z) # Head(queue)
    BY <1>1 DEF Gone, Changed
  <2> QED
    BY <1>3, <2>1, <2>2 DEF IndexInv, Forgotten
<1>10. (Files(tree) \subseteq meta)'
  BY <1>2, <1>5 DEF IndexInv
<1> QED
  BY <1>3, <1>6, <1>7, <1>8, <1>9, <1>10 DEF IndexInv

\* An event of a path within a window is not missed: what the index has still to learn is
\* told by an event that no window suppresses, or by a task.
LEMMA SuppressChangedKeeps ==
  ASSUME TypeOK, IndexInv, SuppressChanged
  PROVE  IndexInv'
<1> DEFINE x == Head(queue).path
<1>1. /\ queue # <<>> /\ queue' = Tail(queue) /\ x \in recent \cup marked /\ Head(queue).kind = "changed"
      /\ UNCHANGED <<folder, tree, meta, recent, marked, fetched, applying>>
  BY DEF SuppressChanged
<1>2. /\ Apart' /\ Alone' /\ Stands' /\ ChangedLast'
      /\ \A i \in DOMAIN queue' : ~Hidden(queue'[i].path)
      /\ \A e : Waits(e) /\ e # Head(queue) => Waits(e)'
      /\ \A z \in Files(folder) : Followed(z) =>
           \A i \in DOMAIN queue' :
             queue'[i].kind = "removed" /\ queue'[i].path \in {z} \cup Above(z) =>
               /\ z \notin recent \cup marked
               /\ \E j \in DOMAIN queue' : i < j /\ queue'[j] = Changed(z)
  BY <1>1, TakeKeeps
<1>3. HiddenOut'
  BY <1>1, <1>2 DEF IndexInv, HiddenOut
<1>4. RemovedFirst'
  BY <1>1, <1>2 DEF RemovedFirst, Changed
<1>5. Awaited'
  <2> SUFFICES ASSUME NEW z \in Files(folder), Followed(z), tree[z] # folder[z]
               PROVE  \/ z \notin recent \cup marked /\ Waits(Changed(z))'
                      \/ \E change \in applying \cap Writes : change.path = z
    BY <1>1 DEF Awaited, Waits, Changed
  <2>1. z \notin recent \cup marked => Changed(z) # Head(queue)
    BY <1>1 DEF Changed
  <2> QED
    BY <1>2, <2>1 DEF IndexInv, Awaited
<1>6. Forgotten'
  <2> SUFFICES ASSUME NEW z \in meta, z \notin Files(folder), ~Backup(z)
               PROVE  Waits(Gone(z))' \/ \E change \in applying \ Writes : change.path = z
    BY <1>1 DEF Forgotten, Waits, Gone
  <2>1. Gone(z) # Head(queue)
    BY <1>1 DEF Gone
  <2> QED
    BY <1>2, <2>1 DEF IndexInv, Forgotten
<1> QED
  BY <1>1, <1>2, <1>3, <1>4, <1>5, <1>6 DEF IndexInv

\* The index may lose what stands in the folder, but then an event behind brings it back.
LEMMA HandleRemovedKeeps ==
  ASSUME TypeOK, IndexInv, HandleRemoved
  PROVE  IndexInv'
<1> DEFINE x == Head(queue).path
<1>1. /\ queue # <<>> /\ queue' = Tail(queue)
      /\ UNCHANGED <<folder, recent, marked, fetched, applying>>
      /\ tree' = Remove(tree, x) /\ meta' = meta \ {x}
  BY DEF HandleRemoved
<1>2. Head(queue) = Gone(x) /\ x \in Path /\ 1 \in DOMAIN queue /\ queue[1] = Gone(x)
  <2>1. Head(queue) \in FsEvent /\ Head(queue).kind = "removed"
    BY EventsType DEF HandleRemoved, TypeOK
  <2>2. Head(queue) = Gone(x) /\ x \in Path
    BY <2>1 DEF FsEvent, Gone
  <2> QED
    BY <1>1, <2>2, TakeShrinks DEF Shrunk
<1> HIDE DEF x
<1>3. /\ Apart' /\ Alone' /\ Stands' /\ ChangedLast'
      /\ \A i \in DOMAIN queue' : ~Hidden(queue'[i].path)
      /\ \A e : Waits(e) /\ e # Head(queue) => Waits(e)'
      /\ \A z \in Files(folder) : Followed(z) =>
           \A i \in DOMAIN queue' :
             queue'[i].kind = "removed" /\ queue'[i].path \in {z} \cup Above(z) =>
               /\ z \notin recent \cup marked
               /\ \E j \in DOMAIN queue' : i < j /\ queue'[j] = Changed(z)
  BY <1>1, TakeKeeps
<1>4. /\ \A z \in Path : x \notin {z} \cup Above(z) => tree'[z] = tree[z]
      /\ Files(tree') \subseteq Files(tree) \ {x}
  BY <1>1, <1>2, RemoveFiles DEF TypeOK
<1>5. HiddenOut'
  BY <1>1, <1>3 DEF IndexInv, HiddenOut
<1>6. RemovedFirst'
  BY <1>1, <1>3 DEF RemovedFirst, Changed
<1>7. Awaited'
  <2> SUFFICES ASSUME NEW z \in Files(folder), Followed(z), tree'[z] # folder[z]
               PROVE  \/ z \notin recent \cup marked /\ Waits(Changed(z))'
                      \/ \E change \in applying \cap Writes : change.path = z
    BY <1>1 DEF Awaited, Waits, Changed
  <2>1. Changed(z) # Head(queue) /\ z \in Path
    BY <1>2 DEF Changed, Gone, Files
  <2>2. CASE x \in {z} \cup Above(z)
    <3>1. queue[1].kind = "removed" /\ queue[1].path \in {z} \cup Above(z)
      BY <1>2, <2>2 DEF Gone
    <3>2. z \notin recent \cup marked /\ Waits(Changed(z))
      BY <1>2, <3>1 DEF IndexInv, RemovedFirst, Waits
    <3> QED
      BY <1>3, <2>1, <3>2
  <2>3. CASE x \notin {z} \cup Above(z)
    <3>1. tree[z] # folder[z]
      BY <1>4, <2>1, <2>3
    <3> QED
      BY <1>3, <2>1, <3>1 DEF IndexInv, Awaited
  <2> QED
    BY <2>2, <2>3
<1>8. Forgotten'
  <2> SUFFICES ASSUME NEW z \in meta, z # x, z \notin Files(folder), ~Backup(z)
               PROVE  Waits(Gone(z))' \/ \E change \in applying \ Writes : change.path = z
    BY <1>1 DEF Forgotten, Waits, Gone
  <2>1. Gone(z) # Head(queue)
    BY <1>2 DEF Gone
  <2> QED
    BY <1>3, <2>1 DEF IndexInv, Forgotten
<1> QED
  BY <1>1, <1>3, <1>4, <1>5, <1>6, <1>7, <1>8 DEF IndexInv

LEMMA WindowEndsKeeps ==
  ASSUME TypeOK, IndexInv, NEW x \in Path, WindowEnds(x)
  PROVE  IndexInv'
<1>1. /\ recent' \subseteq recent /\ marked' \subseteq marked
      /\ UNCHANGED <<folder, queue, tree, meta, fetched, applying>>
  BY DEF WindowEnds
<1>2. HiddenOut' /\ Apart' /\ Alone' /\ Stands' /\ ChangedLast'
  BY <1>1 DEF IndexInv, HiddenOut, Apart, Alone, Held, Stands, ChangedLast
<1>3. RemovedFirst'
  BY <1>1 DEF IndexInv, RemovedFirst
<1>4. Awaited' /\ Forgotten'
  BY <1>1 DEF IndexInv, Awaited, Forgotten, Waits
<1> QED
  BY <1>1, <1>2, <1>3, <1>4 DEF IndexInv

LEMMA FetchedKeeps ==
  ASSUME TypeOK, IndexInv, Spaced, NEW change \in Writes, Fetched(change)
  PROVE  IndexInv'
<1> DEFINE x == change.path
<1>1. /\ \A other \in Held : ~Related(x, other.path) /\ ~Related(other.path, x)
      /\ \A i \in DOMAIN queue : ~Related(x, queue[i].path)
  BY RelatedSymmetric DEF Fetched, Quiet, Untouched, Held
<1>2. /\ x \in Path /\ ~Hidden(x) /\ fetched' = fetched \cup {change} /\ marked' \subseteq marked \cup {x}
      /\ UNCHANGED <<folder, queue, tree, meta, recent, applying>>
  BY HeldTypes DEF Fetched
<1>3. Held' = Held \cup {change} /\ change \notin Held
  BY <1>1, <1>2 DEF Held, Related
<1>4. HiddenOut'
  BY <1>2 DEF IndexInv, HiddenOut
<1>5. Apart'
  <2>1. fetched' \cap applying' = {}
    BY <1>2, <1>3 DEF IndexInv, Apart, Held
  <2>2. \A c, d \in Held \cup {change} : c # d => ~Related(c.path, d.path)
    BY <1>1 DEF IndexInv, Apart
  <2> QED
    BY <1>3, <2>1, <2>2 DEF Apart
<1>6. Alone'
  BY <1>1, <1>2, <1>3 DEF IndexInv, Alone
<1>7. Stands' /\ ChangedLast'
  BY <1>2 DEF IndexInv, Stands, ChangedLast
<1> HIDE DEF x
<1>8. RemovedFirst'
  <2> SUFFICES ASSUME NEW z \in Files(folder), Followed(z), NEW i \in DOMAIN queue,
                      queue[i].kind = "removed", queue[i].path \in {z} \cup Above(z)
               PROVE  /\ z \notin recent \cup marked'
                      /\ \E j \in DOMAIN queue : i < j /\ queue[j] = Changed(z)
    BY <1>2 DEF RemovedFirst, Changed
  <2>1. z # x
    BY <1>1 DEF Related
  <2> QED
    BY <1>2, <2>1 DEF IndexInv, RemovedFirst
<1>9. Awaited'
  <2> SUFFICES ASSUME NEW z \in Files(folder), Followed(z), tree[z] # folder[z]
               PROVE  \/ z \notin recent \cup marked' /\ Waits(Changed(z))
                      \/ \E other \in applying \cap Writes : other.path = z
    BY <1>2 DEF Awaited, Waits, Changed
  <2>1. ~Waits(Changed(x))
    BY <1>1 DEF Waits, Changed, Related
  <2> QED
    BY <1>2, <2>1 DEF IndexInv, Awaited
<1>10. Forgotten'
  BY <1>2 DEF IndexInv, Forgotten, Waits
<1> QED
  BY <1>2, <1>4, <1>5, <1>6, <1>7, <1>8, <1>9, <1>10 DEF IndexInv

\* No event of a removal waits about the path of a write in hand, and none of its path.
LEMMA WriteAlone ==
  ASSUME TypeOK, IndexInv, NEW change \in Held \cap Writes
  PROVE  /\ \A i \in DOMAIN queue :
              queue[i].kind = "removed" => queue[i].path \notin {change.path} \cup Above(change.path)
         /\ ~Waits(Changed(change.path))
<1> DEFINE x == change.path
<1>1. x \in Path /\ x \notin Above(x)
  BY HeldTypes, NotAboveItself
<1>2. ASSUME NEW i \in DOMAIN queue, queue[i].kind = "removed", queue[i].path \in {x} \cup Above(x)
      PROVE  FALSE
  BY <1>2 DEF IndexInv, Alone, Related
<1>3. ASSUME NEW i \in DOMAIN queue, queue[i] = Changed(x)
      PROVE  FALSE
  BY <1>1, <1>3 DEF IndexInv, Alone, Related, Changed
<1> QED
  BY <1>2, <1>3 DEF Waits

LEMMA WriteFailsKeeps ==
  ASSUME TypeOK, IndexInv, NEW change \in fetched, WriteFails(change)
  PROVE  IndexInv'
<1> DEFINE x == change.path
<1>1. change \in Held \cap Writes /\ x \in Path
  BY HeldTypes DEF Held
<1>2. /\ fetched' = fetched \ {change} /\ marked' = marked \cup {x}
      /\ UNCHANGED <<folder, queue, tree, meta, recent, applying>>
  BY DEF WriteFails
<1>3. /\ \A i \in DOMAIN queue : queue[i].kind = "removed" => queue[i].path \notin {x} \cup Above(x)
      /\ ~Waits(Changed(x))
  BY <1>1, WriteAlone
<1> HIDE DEF x
<1>4. Held' \subseteq Held
  BY <1>2 DEF Held
<1>5. HiddenOut'
  BY <1>2 DEF IndexInv, HiddenOut
<1>6. Apart'
  BY <1>2, <1>4 DEF IndexInv, Apart
<1>7. Alone'
  BY <1>2, <1>4 DEF IndexInv, Alone
<1>8. Stands' /\ ChangedLast'
  BY <1>2 DEF IndexInv, Stands, ChangedLast
<1>9. RemovedFirst'
  <2> SUFFICES ASSUME NEW z \in Files(folder), Followed(z), NEW i \in DOMAIN queue,
                      queue[i].kind = "removed", queue[i].path \in {z} \cup Above(z)
               PROVE  /\ z \notin recent \cup marked'
                      /\ \E j \in DOMAIN queue : i < j /\ queue[j] = Changed(z)
    BY <1>2 DEF RemovedFirst, Changed
  <2>1. z # x
    BY <1>3
  <2> QED
    BY <1>2, <2>1 DEF IndexInv, RemovedFirst
<1>10. Awaited'
  <2> SUFFICES ASSUME NEW z \in Files(folder), Followed(z), tree[z] # folder[z]
               PROVE  \/ z \notin recent \cup marked' /\ Waits(Changed(z))
                      \/ \E other \in applying \cap Writes : other.path = z
    BY <1>2 DEF Awaited, Waits, Changed
  <2> QED
    BY <1>2, <1>3 DEF IndexInv, Awaited
<1>11. Forgotten'
  BY <1>2 DEF IndexInv, Forgotten, Waits
<1> QED
  BY <1>2, <1>5, <1>6, <1>7, <1>8, <1>9, <1>10, <1>11 DEF IndexInv

LEMMA WriteFileKeeps ==
  ASSUME TypeOK, IndexInv, NEW change \in fetched, WriteFile(change)
  PROVE  IndexInv'
<1> DEFINE x == change.path
<1>1. change \in Held \cap Writes /\ x \in Path /\ change.data \in Data
  BY HeldTypes DEF Held
<1>2. /\ fetched' = fetched \ {change} /\ marked' = marked \cup {x} /\ applying' = applying \cup {change}
      /\ folder' = [folder EXCEPT ![x] = change.data]
      /\ UNCHANGED <<queue, tree, meta, recent>>
  BY DEF WriteFile
<1>3. /\ \A i \in DOMAIN queue : queue[i].kind = "removed" => queue[i].path \notin {x} \cup Above(x)
      /\ ~Waits(Changed(x))
  BY <1>1, WriteAlone
<1>4. Held' = Held
  BY <1>2 DEF Held
<1>5. HiddenOut'
  BY <1>2 DEF IndexInv, HiddenOut
<1>6. Apart'
  <2>1. fetched' \cap applying' = {}
    BY <1>2 DEF IndexInv, Apart
  <2> QED
    BY <1>4, <2>1 DEF IndexInv, Apart
<1>7. Alone'
  BY <1>2, <1>4 DEF IndexInv, Alone
<1>8. /\ folder'[x] = change.data /\ \A z \in Path : z # x => folder'[z] = folder[z]
      /\ \A z \in Path : z # x => (z \in Files(folder') <=> z \in Files(folder))
      /\ x \in Files(folder') /\ \A z \in Files(folder') : z \in Path
  BY <1>1, <1>2 DEF TypeOK, Tree, Files
<1>9. Stands'
  <2>1. ASSUME NEW other \in applying
        PROVE  other.path \in Path /\ other.path # x
    <3>1. other \in Held /\ other # change /\ other.path \in Path
      BY HeldTypes DEF Held, IndexInv, Apart
    <3> QED
      BY <1>1, <3>1 DEF IndexInv, Apart, Related
  <2> QED
    BY <1>1, <1>2, <1>8, <2>1 DEF IndexInv, Stands
<1> HIDE DEF x
<1>10. ChangedLast'
  <2> SUFFICES ASSUME NEW z \in Path, folder'[z] # None, ~Backup(z), NEW i \in DOMAIN queue, NEW j \in DOMAIN queue,
                      i < j, queue[i] = Changed(z)
               PROVE  ~(queue[j].kind = "removed" /\ queue[j].path \in {z} \cup Above(z))
    BY <1>2 DEF ChangedLast, Changed
  <2>1. z # x
    BY <1>3 DEF Waits
  <2> QED
    BY <1>8, <2>1 DEF IndexInv, ChangedLast
<1>11. RemovedFirst'
  <2> SUFFICES ASSUME NEW z \in Files(folder'), Followed(z), NEW i \in DOMAIN queue,
                      queue[i].kind = "removed", queue[i].path \in {z} \cup Above(z)
               PROVE  /\ z \notin recent \cup marked'
                      /\ \E j \in DOMAIN queue : i < j /\ queue[j] = Changed(z)
    BY <1>2 DEF RemovedFirst, Changed
  <2>1. z # x
    BY <1>3
  <2> QED
    BY <1>2, <1>8, <2>1 DEF IndexInv, RemovedFirst
<1>12. Awaited'
  <2> SUFFICES ASSUME NEW z \in Files(folder'), Followed(z), tree[z] # folder'[z]
               PROVE  \/ z \notin recent \cup marked' /\ Waits(Changed(z))
                      \/ \E other \in applying' \cap Writes : other.path = z
    BY <1>2 DEF Awaited, Waits, Changed
  <2>1. CASE z = x
    BY <1>1, <1>2, <2>1 DEF x
  <2>2. CASE z # x
    BY <1>2, <1>8, <2>2 DEF IndexInv, Awaited
  <2> QED
    BY <2>1, <2>2
<1>13. Forgotten'
  <2> SUFFICES ASSUME NEW z \in meta, z \notin Files(folder'), ~Backup(z)
               PROVE  Waits(Gone(z)) \/ \E other \in applying' \ Writes : other.path = z
    BY <1>2 DEF Forgotten, Waits, Gone
  <2>1. z \notin Files(folder)
    BY <1>8 DEF TypeOK
  <2> QED
    BY <1>2, <2>1 DEF IndexInv, Forgotten
<1> QED
  BY <1>2, <1>5, <1>6, <1>7, <1>9, <1>10, <1>11, <1>12, <1>13 DEF IndexInv

\* The index takes over what still stands.
LEMMA ApplyWriteKeeps ==
  ASSUME TypeOK, IndexInv, NEW change \in applying \cap Writes, Apply(change)
  PROVE  IndexInv'
<1> DEFINE x == change.path
<1>1. change \in Held \cap Writes /\ x \in Path /\ folder[x] = change.data /\ folder[x] \in Data
  BY HeldTypes DEF Held, IndexInv, Stands
<1>2. /\ applying' = applying \ {change} /\ tree' = Insert(tree, x, folder[x]) /\ meta' = meta \cup {x}
      /\ UNCHANGED <<folder, queue, recent, marked, fetched>>
  BY <1>1 DEF Apply
<1>3. ASSUME NEW y \in Above(x), tree[y] \in Data, ~Backup(x)
      PROVE  FALSE
  <2>1. y \in Path /\ folder[y] = Dir /\ y \in meta /\ y \notin Files(folder) /\ ~Backup(y)
    BY <1>1, <1>3, AbovePath, AboveHidden, DataAssumption DEF TypeOK, Tree, Files, IndexInv
  <2>2. ~Waits(Gone(y))
    BY <1>1, <1>3, WriteAlone DEF Waits, Gone
  <2>3. ASSUME NEW other \in applying \ Writes, other.path = y
        PROVE  FALSE
    BY <1>1, <1>3, <2>3 DEF IndexInv, Apart, Related, Held
  <2> QED
    BY <2>1, <2>2, <2>3 DEF IndexInv, Forgotten
<1>4. ~Hidden(x)
  BY DEF IndexInv, HiddenOut
<1>5. \A other \in applying : other.path # x => other \in applying'
  BY <1>2
<1> HIDE DEF x
<1>6. /\ ~Backup(x) => tree'[x] = folder[x]
      /\ \A z \in Files(folder) : z # x => tree'[z] = tree[z]
      /\ Files(tree') \subseteq Files(tree) \cup {x}
  BY <1>1, <1>2, <1>3, InsertFiles DEF TypeOK
<1>7. Held' \subseteq Held
  BY <1>2 DEF Held
<1>8. HiddenOut'
  BY <1>2, <1>4 DEF IndexInv, HiddenOut
<1>9. Apart' /\ Alone'
  BY <1>2, <1>7 DEF IndexInv, Apart, Alone
<1>10. Stands' /\ ChangedLast' /\ RemovedFirst'
  BY <1>2 DEF IndexInv, Stands, ChangedLast, RemovedFirst
<1>11. Awaited'
  <2> SUFFICES ASSUME NEW z \in Files(folder), Followed(z), tree'[z] # folder[z]
               PROVE  \/ z \notin recent \cup marked /\ Waits(Changed(z))
                      \/ \E other \in applying' \cap Writes : other.path = z
    BY <1>2 DEF Awaited, Waits, Changed
  <2>1. z # x /\ tree[z] # folder[z]
    BY <1>6 DEF Followed
  <2> QED
    BY <1>5, <2>1 DEF IndexInv, Awaited
<1>12. Forgotten'
  <2> SUFFICES ASSUME NEW z \in meta', z \notin Files(folder), ~Backup(z)
               PROVE  Waits(Gone(z)) \/ \E other \in applying' \ Writes : other.path = z
    BY <1>2 DEF Forgotten, Waits, Gone
  <2>1. z # x /\ z \in meta
    BY <1>1, <1>2 DEF Files
  <2> QED
    BY <1>5, <2>1 DEF IndexInv, Forgotten
<1>13. (Files(tree) \subseteq meta)'
  BY <1>2, <1>6 DEF IndexInv
<1> QED
  BY <1>8, <1>9, <1>10, <1>11, <1>12, <1>13 DEF IndexInv

LEMMA ApplyDeleteKeeps ==
  ASSUME TypeOK, IndexInv, NEW change \in applying \ Writes, Apply(change)
  PROVE  IndexInv'
<1> DEFINE x == change.path
<1>1. x \in Path /\ folder[x] = None
  BY HeldTypes DEF Held, IndexInv, Stands
<1>2. /\ applying' = applying \ {change} /\ tree' = Remove(tree, x) /\ meta' = meta \ {x}
      /\ UNCHANGED <<folder, queue, recent, marked, fetched>>
  BY DEF Apply
<1>3. \A other \in applying : other.path # x => other \in applying'
  BY <1>2
<1>4. applying' \subseteq applying /\ Held' \subseteq Held
  BY <1>2 DEF Held
<1> HIDE DEF x
<1>5. /\ \A z \in Path : x \notin {z} \cup Above(z) => tree'[z] = tree[z]
      /\ Files(tree') \subseteq Files(tree) \ {x}
  BY <1>1, <1>2, RemoveFiles DEF TypeOK
<1>6. HiddenOut'
  BY <1>2, <1>4 DEF IndexInv, HiddenOut
<1>7. Apart' /\ Alone'
  BY <1>2, <1>4 DEF IndexInv, Apart, Alone
<1>8. Stands' /\ ChangedLast' /\ RemovedFirst'
  BY <1>2 DEF IndexInv, Stands, ChangedLast, RemovedFirst
<1>9. Awaited'
  <2> SUFFICES ASSUME NEW z \in Files(folder), Followed(z), tree'[z] # folder[z]
               PROVE  \/ z \notin recent \cup marked /\ Waits(Changed(z))
                      \/ \E other \in applying' \cap Writes : other.path = z
    BY <1>2 DEF Awaited, Waits, Changed
  <2>1. z \in Path /\ folder[z] # None
    BY DataAssumption DEF Files
  <2>2. z # x /\ x \notin Above(z)
    BY <1>1, <2>1, DataAssumption DEF TypeOK, Tree
  <2>3. tree[z] # folder[z]
    BY <1>5, <2>1, <2>2
  <2> QED
    BY <1>3, <2>2, <2>3 DEF IndexInv, Awaited
<1>10. Forgotten'
  <2> SUFFICES ASSUME NEW z \in meta, z # x, z \notin Files(folder), ~Backup(z)
               PROVE  Waits(Gone(z)) \/ \E other \in applying' \ Writes : other.path = z
    BY <1>2 DEF Forgotten, Waits, Gone
  <2> QED
    BY <1>3 DEF IndexInv, Forgotten
<1> QED
  BY <1>2, <1>5, <1>6, <1>7, <1>8, <1>9, <1>10 DEF IndexInv

\* A scan: nothing waits, nothing is in hand, and the index is of the folder.
Scanned ==
  /\ DOMAIN queue = {} /\ fetched = {} /\ applying = {}
  /\ tree = Build(folder) /\ meta = Files(Build(folder))

LEMMA ScanKeeps ==
  ASSUME Scanned
  PROVE  IndexInv
<1>1. \A x \in Path : Build(folder)[x] = IF Hidden(x) THEN None ELSE folder[x]
  BY DEF Build
<1>2. \A x \in Files(Build(folder)) : ~Hidden(x) /\ x \in Files(folder)
  BY <1>1, DataAssumption DEF Files
<1>3. \A x \in Files(folder) : ~Hidden(x) => tree[x] = folder[x]
  BY <1>1 DEF Scanned, Files
<1>4. HiddenOut /\ Apart /\ Alone /\ Stands
  BY <1>2 DEF Scanned, HiddenOut, Apart, Alone, Held, Stands
<1>5. ChangedLast /\ RemovedFirst
  BY DEF Scanned, ChangedLast, RemovedFirst
<1>6. Awaited /\ Forgotten
  BY <1>2, <1>3 DEF Scanned, Awaited, Forgotten, Followed
<1> QED
  BY <1>4, <1>5, <1>6 DEF Scanned, IndexInv

LEMMA AtRest ==
  ASSUME IndexInv
  PROVE  IndexIsFolder
<1>1. SUFFICES ASSUME queue = <<>>, fetched = {}, applying = {}, NEW x \in Path, ~Backup(x)
               PROVE  /\ x \in Files(tree) \cup Files(Build(folder)) => tree[x] = Build(folder)[x]
                      /\ x \in meta <=> x \in Files(tree)
  BY DEF IndexIsFolder
<1>2. \A e : ~Waits(e)
  BY <1>1 DEF Waits
<1>3. Build(folder)[x] = IF Hidden(x) THEN None ELSE folder[x]
  BY DEF Build
<1>4. x \in Files(folder) /\ ~Hidden(x) => tree[x] = folder[x]
  BY <1>1, <1>2 DEF IndexInv, Awaited, Followed
<1>5. x \in meta => x \in Files(folder) /\ ~Hidden(x)
  BY <1>1, <1>2 DEF IndexInv, Forgotten, HiddenOut
<1>6. x \in Files(tree) => x \in meta
  BY DEF IndexInv
<1>7. x \in Files(Build(folder)) => x \in Files(folder) /\ ~Hidden(x)
  BY <1>3, DataAssumption DEF Files
<1>8. x \in meta => x \in Files(tree)
  BY <1>4, <1>5 DEF Files
<1> QED
  BY <1>3, <1>4, <1>5, <1>6, <1>7, <1>8

\* For any names, contents, depth, exclude patterns and changes of peers, and however late the
\* events are handled: if the user lets a path rest as the windows ask for and moves away only
\* conflict copies and what is hidden, and a peer's change comes where nothing else happens,
\* the index is, but for conflict copies, what a scan of the folder would make it whenever
\* nothing waits (IndexIsFolder).  No hypothesis can go: without the first the debounce window
\* drops the event of a file made again (MCRecreated.cfg), without the second a file moved away
\* stays in the index (MCMoved.cfg), without the third the deletion of a directory takes files
\* out of the index that stay (MCDirectoryDeleted.cfg).
THEOREM IndexCatchesUp ==
  ASSUME Patient, MovesAside, Spaced
  PROVE  Spec => []IndexIsFolder
<1>1. Init => IndexInv
  <2>1. SUFFICES ASSUME Init PROVE IndexInv
    OBVIOUS
  <2>2. Scanned
    BY <2>1 DEF Init, Scanned
  <2> QED
    BY <2>2, ScanKeeps
<1>2. Scanned' => IndexInv'
  <2>1. Scanned => IndexInv
    BY ScanKeeps
  <2> QED
    BY <2>1, PTL
<1>3. IndexInv /\ TypeOK /\ TypeOK' /\ [Next]_vars => IndexInv'
  <2> SUFFICES ASSUME IndexInv, TypeOK, TypeOK', [Next]_vars PROVE IndexInv'
    OBVIOUS
  <2>1. ASSUME NEW x \in Path, NEW v \in Data, UserWrite(x, v) PROVE IndexInv'
    BY <2>1, UserPutKeeps, DataAssumption DEF UserWrite
  <2>2. ASSUME NEW x \in Path, UserMakeDir(x) PROVE IndexInv'
    BY <2>2, UserPutKeeps, DataAssumption DEF UserMakeDir
  <2>3. ASSUME NEW x \in Path, UserRemove(x) PROVE IndexInv'
    BY <2>3, UserRemoveKeeps
  <2>4. ASSUME NEW x \in Path, WindowEnds(x) PROVE IndexInv'
    BY <2>4, WindowEndsKeeps
  <2>5. CASE HandleChanged
    BY <2>5, HandleChangedKeeps
  <2>6. CASE SuppressChanged
    BY <2>6, SuppressChangedKeeps
  <2>7. CASE HandleRemoved
    BY <2>7, HandleRemovedKeeps
  <2>8. CASE Rebuild
    <3>1. Scanned'
      BY <2>8 DEF Rebuild, Scanned
    <3> QED
      BY <1>2, <3>1
  <2>9. ASSUME NEW change \in Writes, Fetched(change) PROVE IndexInv'
    BY <2>9, FetchedKeeps
  <2>10. ASSUME NEW change \in Remote \ Writes, DeleteFile(change) PROVE IndexInv'
    BY <2>10, DeleteFileKeeps
  <2>11. ASSUME NEW change \in fetched, NEW y \in Path, MakeAbove(change, y) PROVE IndexInv'
    BY <2>11, MakeAboveKeeps
  <2>12. ASSUME NEW change \in fetched, WriteFile(change) PROVE IndexInv'
    BY <2>12, WriteFileKeeps
  <2>13. ASSUME NEW change \in fetched, WriteFails(change) PROVE IndexInv'
    BY <2>13, WriteFailsKeeps
  <2>14. ASSUME NEW change \in applying, Apply(change) PROVE IndexInv'
    BY <2>14, ApplyWriteKeeps, ApplyDeleteKeeps
  <2>15. ASSUME NEW x \in Path, UserMoveAway(x) PROVE IndexInv'
    BY <2>15, UserMoveAwayKeeps
  <2>16. ASSUME NEW change \in Writes, LoseConflict(change) PROVE IndexInv'
    BY <2>16, LoseConflictKeeps
  <2>17. CASE UNCHANGED vars
    BY <2>17 DEF vars, IndexInv, HiddenOut, Apart, Alone, Held, Stands, ChangedLast, RemovedFirst,
       Awaited, Forgotten, Waits
  <2> QED
    BY <2>1, <2>2, <2>3, <2>4, <2>5, <2>6, <2>7, <2>8, <2>9, <2>10, <2>11, <2>12, <2>13,
       <2>14, <2>15, <2>16, <2>17 DEF Next
<1>4. IndexInv => IndexIsFolder
  BY AtRest
<1> QED
  BY <1>1, <1>3, <1>4, TreesStayTrees, PTL DEF Spec

=============================================================================
