--------------------------- MODULE FrontEndProofs ---------------------------
(***************************************************************************)
(* What a front end is told is what happened: theorems of FrontEnd, for    *)
(* any number of peers, files and tasks and any room in the channel.       *)
(***************************************************************************)
EXTENDS FrontEnd, SequenceTheorems, TLAPS

-----------------------------------------------------------------------------
(* Queues *)

LEMMA Queueing ==
  ASSUME NEW S, NEW q \in Seq(S), NEW e \in S
  PROVE  /\ Append(q, e) \in Seq(S)
         /\ Len(q) \in Nat /\ Len(Append(q, e)) = Len(q) + 1
         /\ DOMAIN q = 1 .. Len(q) /\ DOMAIN Append(q, e) = 1 .. Len(q) + 1
         /\ \A i \in 1 .. Len(q) : Append(q, e)[i] = q[i]
         /\ Append(q, e)[Len(q) + 1] = e
<1>1. /\ Append(q, e) \in Seq(S) /\ Len(Append(q, e)) = Len(q) + 1
      /\ \A i \in 1 .. Len(q) : Append(q, e)[i] = q[i]
      /\ Append(q, e)[Len(q) + 1] = e
  BY AppendProperties
<1> QED
  BY <1>1, LenProperties

LEMMA Unqueueing ==
  ASSUME NEW S, NEW q \in Seq(S), q # <<>>
  PROVE  /\ Tail(q) \in Seq(S) /\ Head(q) \in S /\ Head(q) = q[1]
         /\ Len(q) \in Nat /\ Len(q) >= 1 /\ Len(Tail(q)) = Len(q) - 1
         /\ DOMAIN q = 1 .. Len(q) /\ DOMAIN Tail(q) = 1 .. Len(q) - 1
         /\ \A i \in 1 .. Len(q) - 1 : Tail(q)[i] = q[i + 1]
<1>1. /\ Head(q) \in S /\ Tail(q) \in Seq(S) /\ Len(Tail(q)) = Len(q) - 1
      /\ \A i \in 1 .. Len(Tail(q)) : Tail(q)[i] = q[i + 1]
  BY HeadTailProperties
<1>2. /\ DOMAIN q = 1 .. Len(q) /\ DOMAIN Tail(q) = 1 .. Len(Tail(q))
      /\ Len(q) \in Nat /\ Len(q) # 0
  BY <1>1, LenProperties, EmptySeq
<1> QED
  BY <1>1, <1>2

\* An event that is added is the newest of its kind, and leaves the others' order.
LEMMA NewestAppend ==
  ASSUME NEW S, NEW q \in Seq(S), NEW e \in S, NEW kinds, NEW x, NEW kind, NEW before
  PROVE  /\ e[1] \in kinds /\ e[2] = x => Newest(Append(q, e), kinds, x, e[1], before)
         /\ (e[1] \notin kinds \/ e[2] # x) /\ Newest(q, kinds, x, kind, before)
              => Newest(Append(q, e), kinds, x, kind, before)
<1>1. /\ Len(q) \in Nat /\ Len(Append(q, e)) = Len(q) + 1
      /\ DOMAIN q = 1 .. Len(q) /\ DOMAIN Append(q, e) = 1 .. Len(q) + 1
      /\ \A i \in 1 .. Len(q) : Append(q, e)[i] = q[i]
      /\ Append(q, e)[Len(q) + 1] = e
  BY Queueing
<1>2. ASSUME e[1] \in kinds, e[2] = x
      PROVE  Newest(Append(q, e), kinds, x, e[1], before)
  <2>1. Len(q) + 1 \in DOMAIN Append(q, e)
    BY <1>1
  <2>2. Len(q) + 1 + 1 .. Len(Append(q, e)) = {}
    BY <1>1
  <2> QED
    BY <1>1, <1>2, <2>1, <2>2 DEF Newest
<1>3. ASSUME e[1] \notin kinds \/ e[2] # x, Newest(q, kinds, x, kind, before)
      PROVE  Newest(Append(q, e), kinds, x, kind, before)
  <2>1. CASE \A i \in DOMAIN q : q[i][1] \notin kinds \/ q[i][2] # x
    <3>1. \A i \in DOMAIN Append(q, e) :
            Append(q, e)[i][1] \notin kinds \/ Append(q, e)[i][2] # x
      BY <1>1, <1>3, <2>1
    <3>2. kind = before
      BY <1>3, <2>1 DEF Newest
    <3> QED
      BY <3>1, <3>2 DEF Newest
  <2>2. CASE \E i \in DOMAIN q : q[i][1] \in kinds /\ q[i][2] = x
    <3>1. PICK i \in DOMAIN q :
            /\ q[i][1] \in kinds /\ q[i][2] = x /\ q[i][1] = kind
            /\ \A j \in i + 1 .. Len(q) : q[j][1] \notin kinds \/ q[j][2] # x
      BY <1>3, <2>2 DEF Newest
    <3>2. /\ i \in DOMAIN Append(q, e) /\ Append(q, e)[i] = q[i]
          /\ \A j \in i + 1 .. Len(Append(q, e)) :
               Append(q, e)[j][1] \notin kinds \/ Append(q, e)[j][2] # x
      <4>1. i \in 1 .. Len(q)
        BY <1>1, <3>1
      <4>2. ASSUME NEW j \in i + 1 .. Len(q) + 1
            PROVE  Append(q, e)[j][1] \notin kinds \/ Append(q, e)[j][2] # x
        <5>1. CASE j = Len(q) + 1
          BY <1>1, <1>3, <5>1
        <5>2. CASE j # Len(q) + 1
          <6>1. j \in i + 1 .. Len(q) /\ j \in 1 .. Len(q)
            BY <1>1, <4>1, <5>2
          <6> QED
            BY <1>1, <3>1, <6>1
        <5> QED
          BY <5>1, <5>2
      <4> QED
        BY <1>1, <4>1, <4>2
    <3> QED
      BY <3>1, <3>2 DEF Newest
  <2> QED
    BY <2>1, <2>2
<1> QED
  BY <1>2, <1>3

\* An event that is taken off becomes what there was before the others.
LEMMA NewestTail ==
  ASSUME NEW S, NEW q \in Seq(S), q # <<>>, NEW kinds, NEW x, NEW kind, NEW before,
         Newest(q, kinds, x, kind, before)
  PROVE  Newest(Tail(q), kinds, x, kind,
                IF Head(q)[1] \in kinds /\ Head(q)[2] = x THEN Head(q)[1] ELSE before)
<1>1. /\ Head(q) = q[1] /\ Len(q) \in Nat /\ Len(q) >= 1 /\ Len(Tail(q)) = Len(q) - 1
      /\ DOMAIN q = 1 .. Len(q) /\ DOMAIN Tail(q) = 1 .. Len(q) - 1
      /\ \A i \in 1 .. Len(q) - 1 : Tail(q)[i] = q[i + 1]
  BY Unqueueing
<1>2. \A i \in 1 .. Len(q) - 1 : i + 1 \in 1 .. Len(q)
  BY <1>1
<1>3. CASE \A i \in DOMAIN q : q[i][1] \notin kinds \/ q[i][2] # x
  <2>1. \A i \in DOMAIN Tail(q) : Tail(q)[i][1] \notin kinds \/ Tail(q)[i][2] # x
    BY <1>1, <1>2, <1>3
  <2>2. kind = before /\ ~(Head(q)[1] \in kinds /\ Head(q)[2] = x)
    BY <1>1, <1>3 DEF Newest
  <2> QED
    BY <2>1, <2>2 DEF Newest
<1>4. CASE \E i \in DOMAIN q : q[i][1] \in kinds /\ q[i][2] = x
  <2>1. PICK i \in DOMAIN q :
          /\ q[i][1] \in kinds /\ q[i][2] = x /\ q[i][1] = kind
          /\ \A j \in i + 1 .. Len(q) : q[j][1] \notin kinds \/ q[j][2] # x
    BY <1>4 DEF Newest
  <2>2. CASE i = 1
    <3>1. \A j \in DOMAIN Tail(q) : Tail(q)[j][1] \notin kinds \/ Tail(q)[j][2] # x
      <4> SUFFICES ASSUME NEW j \in 1 .. Len(q) - 1
                   PROVE  Tail(q)[j][1] \notin kinds \/ Tail(q)[j][2] # x
        BY <1>1
      <4>1. j + 1 \in i + 1 .. Len(q)
        BY <1>1, <2>2
      <4> QED
        BY <1>1, <2>1, <4>1
    <3> QED
      BY <1>1, <2>1, <2>2, <3>1 DEF Newest
  <2>3. CASE i # 1
    <3>1. i - 1 \in DOMAIN Tail(q) /\ Tail(q)[i - 1] = q[i]
      <4>1. i - 1 \in 1 .. Len(q) - 1 /\ (i - 1) + 1 = i
        BY <1>1, <2>3
      <4> QED
        BY <1>1, <4>1
    <3>2. ASSUME NEW j \in (i - 1) + 1 .. Len(Tail(q))
          PROVE  Tail(q)[j][1] \notin kinds \/ Tail(q)[j][2] # x
      <4>1. j \in 1 .. Len(q) - 1 /\ j + 1 \in i + 1 .. Len(q)
        BY <1>1, <2>3
      <4> QED
        BY <1>1, <2>1, <4>1
    <3> QED
      BY <2>1, <3>1, <3>2 DEF Newest
  <2> QED
    BY <2>2, <2>3
<1> QED
  BY <1>3, <1>4

-----------------------------------------------------------------------------
(* Types, and what each task may have to say *)

JobFits(k) ==
  /\ k.at \in {"hash", "compare", "tree", "diff", "failed"} => k.job[1] = "reconcile"
  /\ k.at = "decide" => k.job[1] = "changed"
  /\ k.at = "remove" => k.job[1] = "deleted"
  /\ \/ k.after = <<>>
     \/ k.after = <<OnFile("conflict", k.job[2])>> /\ k.job[1] = "changed"

Says(k) ==
  \/ k.out = <<>>
  \/ k.out = <<Log("other")>> /\ k.at \in {"hash", "next"}
  \/ k.out = <<OnFile("started", k.path)>> /\ k.at = "chunks"
  \/ k.out = <<OnFile("chunk", k.path)>> /\ k.at \in {"write", "next"}
  \/ k.out = <<OnFile("received", k.path), Synced(k.path)>> /\ k.at = "reported"
  \/ k.out = <<Synced(k.path)>> /\ k.at = "reported"
  \/ k.out = <<OnFile("removed", k.job[2])>> /\ k.at = "reported" /\ k.job[1] = "deleted"
  \/ k.out = <<Log("failed")>> /\ k.at = "failed"
  \/ k.out = <<Log("other"), Reconciled(k.job[2])>> /\ k.at = "done" /\ k.job[1] = "reconcile"
  \/ k.out = <<Reconciled(k.job[2])>> /\ k.at = "done" /\ k.job[1] = "reconcile"
  \/ k.out = <<OnFile("conflict", k.job[2])>> /\ k.at = "done" /\ k.job[1] = "changed"

TasksFit == \A t \in DOMAIN tasks : JobFits(tasks[t]) /\ Says(tasks[t])

FileKinds == {"started", "chunk", "received", "removed", "conflict"}

\* The loop tells of peers first, and of no file; there is room for what it spawns.
LoopSays ==
  /\ \A i \in DOMAIN loopOut :
       /\ loopOut[i][1] \in {"connected", "disconnected"} => i = 1
       /\ loopOut[i][1] \notin FileKinds \cup {"reconciled"}
       /\ loopOut[i] # Log("failed")
  /\ spawns # <<>> => Len(tasks) < MaxTasks

Typed == TypeOK /\ TasksFit /\ LoopSays

LEMMA EventTypes ==
  /\ \A p \in Peer : Connected(p) \in Event /\ Disconnected(p) \in Event /\ Reconciled(p) \in Event
  /\ Log("failed") \in Event /\ Log("other") \in Event /\ <<"index", "ready">> \in Event
  /\ \A kind \in FileKinds, f \in File : OnFile(kind, f) \in Event
  /\ \A f \in File : Synced(f) \in Event
BY DEF Event, Connected, Disconnected, Reconciled, Log, OnFile, Synced, LogText, FileKinds

LEMMA ShortOuts ==
  /\ <<>> \in Seq(Event)
  /\ \A e \in Event : <<e>> \in Seq(Event)
  /\ \A d, e \in Event : <<d, e>> \in Seq(Event)
OBVIOUS

\* The job of a task that reconciles is with a peer, of any other about a file.
LEMMA JobTypes ==
  ASSUME NEW k \in Task
  PROVE  /\ k.job[1] = "reconcile" => k.job[2] \in Peer
         /\ k.job[1] # "reconcile" => k.job[2] \in File
<1>1. k.job \in ({"reconcile"} \X Peer) \cup Notifiable
  BY DEF Task
<1>2. CASE k.job \in {"reconcile"} \X Peer
  BY <1>2
<1>3. CASE k.job \in {"changed", "deleted"} \X File
  BY <1>3
<1>4. k.job \in {"reconcile"} \X Peer \/ k.job \in {"changed", "deleted"} \X File
  BY <1>1, EngineAssumption
<1> QED
  BY <1>2, <1>3, <1>4

LEMMA SpawnedFits ==
  ASSUME NEW job \in ({"reconcile"} \X Peer) \cup Notifiable, NEW at \in {"hash", "decide", "remove"},
         NEW out \in {<<>>, <<Log("other")>>},
         at = "hash" <=> job[1] = "reconcile",
         at = "decide" <=> job[1] = "changed",
         at = "remove" <=> job[1] = "deleted",
         out # <<>> => at = "hash"
  PROVE  LET k == Spawned(job, at, out) IN
         /\ k \in Task /\ JobFits(k) /\ Says(k)
         /\ k.at = at /\ k.job = job /\ k.out = out /\ k.offered = {} /\ k.missed = {} /\ k.todo = {}
<1> DEFINE k == Spawned(job, at, out)
<1>1. (CHOOSE f \in File : TRUE) \in File
  BY EngineAssumption
<1>2. out \in Seq(Event)
  BY EventTypes, ShortOuts
<1>3. /\ k \in Task /\ k.at = at /\ k.job = job /\ k.out = out /\ k.after = <<>>
      /\ k.offered = {} /\ k.missed = {} /\ k.todo = {}
  BY <1>1, <1>2 DEF Spawned, Task, Await
<1>4. JobFits(k) /\ Says(k)
  BY <1>3 DEF JobFits, Says
<1> QED
  BY <1>3, <1>4

LEMMA TaskAdded ==
  ASSUME tasks \in Seq(Task), Len(tasks) < MaxTasks, NEW k \in Task, tasks' = Append(tasks, k)
  PROVE  /\ tasks' \in Seq(Task) /\ Len(tasks') <= MaxTasks
         /\ DOMAIN tasks \subseteq DOMAIN tasks'
         /\ \A u \in DOMAIN tasks : tasks'[u] = tasks[u]
         /\ \A u \in DOMAIN tasks' : u \in DOMAIN tasks \/ tasks'[u] = k
<1>1. /\ tasks' \in Seq(Task) /\ Len(tasks) \in Nat /\ Len(tasks') = Len(tasks) + 1
      /\ DOMAIN tasks = 1 .. Len(tasks) /\ DOMAIN tasks' = 1 .. Len(tasks) + 1
      /\ \A i \in 1 .. Len(tasks) : tasks'[i] = tasks[i]
      /\ tasks'[Len(tasks) + 1] = k
  BY Queueing
<1> QED
  BY <1>1, EngineAssumption

LEMMA TaskChanged ==
  ASSUME tasks \in Seq(Task), NEW t \in DOMAIN tasks, NEW k \in Task,
         tasks' = [tasks EXCEPT ![t] = k]
  PROVE  /\ tasks' \in Seq(Task) /\ Len(tasks') = Len(tasks)
         /\ DOMAIN tasks' = DOMAIN tasks
         /\ tasks'[t] = k
         /\ \A u \in DOMAIN tasks : u # t => tasks'[u] = tasks[u]
BY ExceptSeq

LEMMA TaskType ==
  ASSUME tasks \in Seq(Task), NEW t \in DOMAIN tasks
  PROVE  tasks[t] \in Task
BY ElementOfSeq

\* A step of task t that changes nothing but its record, and what the index took over.
Moved(t) ==
  /\ tasks' \in Seq(Task) /\ Len(tasks') = Len(tasks) /\ DOMAIN tasks' = DOMAIN tasks
  /\ \A u \in DOMAIN tasks : u # t => tasks'[u] = tasks[u]
  /\ tasks'[t] \in Task /\ tasks'[t].job = tasks[t].job
  /\ JobFits(tasks'[t]) /\ Says(tasks'[t])
  /\ UNCHANGED <<engine, loopOut, spawns, near, ui>>

\* What is known of a task before its step.
LEMMA TaskKnown ==
  ASSUME Typed, NEW t \in DOMAIN tasks
  PROVE  /\ tasks[t] \in Task /\ JobFits(tasks[t]) /\ Says(tasks[t])
         /\ tasks[t].job[1] = "reconcile" => tasks[t].job[2] \in Peer
         /\ tasks[t].job[1] # "reconcile" => tasks[t].job[2] \in File
BY TaskType, JobTypes DEF Typed, TypeOK, EngineTypeOK, TasksFit

LEMMA BecomeMoved ==
  ASSUME Typed, NEW t \in DOMAIN tasks, NEW k \in Task, Become(t, k), JobFits(k), Says(k),
         k.job = tasks[t].job
  PROVE  Moved(t) /\ tasks'[t] = k
BY TaskChanged DEF Typed, TypeOK, EngineTypeOK, Become, Moved

LEMMA HashReplyMoves ==
  ASSUME Typed, NEW t \in DOMAIN tasks, HashReply(t)
  PROVE  LET k == tasks[t]
             n == tasks'[t] IN
         /\ Moved(t) /\ k.at = "hash" /\ k.out = <<>>
         /\ n.at = "compare" /\ n.out = <<>>
         /\ n.todo = k.todo /\ n.path = k.path /\ n.offered = k.offered
         /\ n.missed = k.missed /\ n.after = k.after
<1> DEFINE k == tasks[t]
           n == [k EXCEPT !.at = "compare"]
<1>1. k \in Task /\ JobFits(k) /\ k.at = "hash" /\ k.out = <<>> /\ Become(t, n)
  BY TaskKnown DEF HashReply, At
<1>2. /\ n \in Task /\ n.job = k.job
      /\ n.at = "compare" /\ n.out = <<>>
      /\ n.todo = k.todo /\ n.path = k.path /\ n.offered = k.offered
      /\ n.missed = k.missed /\ n.after = k.after
  BY <1>1 DEF Task, Await
<1>3. JobFits(n) /\ Says(n)
  BY <1>1, <1>2 DEF JobFits, Says
<1> QED
  BY <1>1, <1>2, <1>3, BecomeMoved

LEMMA TreeReplyMoves ==
  ASSUME Typed, NEW t \in DOMAIN tasks, TreeReply(t)
  PROVE  LET k == tasks[t]
             n == tasks'[t] IN
         /\ Moved(t) /\ k.at = "tree" /\ k.out = <<>>
         /\ n.at = "diff" /\ n.out = <<>>
         /\ n.todo = k.todo /\ n.path = k.path /\ n.offered = k.offered
         /\ n.missed = k.missed /\ n.after = k.after
<1> DEFINE k == tasks[t]
           n == [k EXCEPT !.at = "diff"]
<1>1. k \in Task /\ JobFits(k) /\ k.at = "tree" /\ k.out = <<>> /\ Become(t, n)
  BY TaskKnown DEF TreeReply, At
<1>2. /\ n \in Task /\ n.job = k.job
      /\ n.at = "diff" /\ n.out = <<>>
      /\ n.todo = k.todo /\ n.path = k.path /\ n.offered = k.offered
      /\ n.missed = k.missed /\ n.after = k.after
  BY <1>1 DEF Task, Await
<1>3. JobFits(n) /\ Says(n)
  BY <1>1, <1>2 DEF JobFits, Says
<1> QED
  BY <1>1, <1>2, <1>3, BecomeMoved

LEMMA WriteFileMoves ==
  ASSUME Typed, NEW t \in DOMAIN tasks, WriteFile(t)
  PROVE  LET k == tasks[t]
             n == tasks'[t] IN
         /\ Moved(t) /\ k.at = "write" /\ k.out = <<>>
         /\ n.at = "index" /\ n.out = <<>>
         /\ n.todo = k.todo /\ n.path = k.path /\ n.offered = k.offered
         /\ n.missed = k.missed /\ n.after = k.after
<1> DEFINE k == tasks[t]
           n == [k EXCEPT !.at = "index"]
<1>1. k \in Task /\ JobFits(k) /\ k.at = "write" /\ k.out = <<>> /\ Become(t, n)
  BY TaskKnown DEF WriteFile, At
<1>2. /\ n \in Task /\ n.job = k.job
      /\ n.at = "index" /\ n.out = <<>>
      /\ n.todo = k.todo /\ n.path = k.path /\ n.offered = k.offered
      /\ n.missed = k.missed /\ n.after = k.after
  BY <1>1 DEF Task, Await
<1>3. JobFits(n) /\ Says(n)
  BY <1>1, <1>2 DEF JobFits, Says
<1> QED
  BY <1>1, <1>2, <1>3, BecomeMoved

LEMMA RequestFailsMoves ==
  ASSUME Typed, NEW t \in DOMAIN tasks, RequestFails(t)
  PROVE  LET k == tasks[t]
             n == tasks'[t] IN
         /\ Moved(t) /\ k.at \in {"hash", "tree"} /\ k.out = <<>>
         /\ n.at = "failed" /\ n.out = <<Log("failed")>>
         /\ n.todo = k.todo /\ n.path = k.path /\ n.offered = k.offered
         /\ n.missed = k.missed /\ n.after = k.after
<1> DEFINE k == tasks[t]
           n == [k EXCEPT !.at = "failed", !.out = <<Log("failed")>>]
<1>1. /\ k \in Task /\ JobFits(k) /\ k.at \in {"hash", "tree"} /\ k.out = <<>>
      /\ Become(t, n)
  BY TaskKnown DEF RequestFails, At
<1>2. /\ n \in Task /\ n.job = k.job
      /\ n.at = "failed" /\ n.out = <<Log("failed")>>
      /\ n.todo = k.todo /\ n.path = k.path /\ n.offered = k.offered
      /\ n.missed = k.missed /\ n.after = k.after
  BY <1>1, ShortOuts, EventTypes DEF Task, Await
<1>3. JobFits(n) /\ Says(n)
  BY <1>1, <1>2 DEF JobFits, Says
<1> QED
  BY <1>1, <1>2, <1>3, BecomeMoved

LEMMA CompareRootsMoves ==
  ASSUME Typed, NEW t \in DOMAIN tasks, NEW same \in BOOLEAN, CompareRoots(t, same)
  PROVE  LET k == tasks[t]
             n == tasks'[t] IN
         /\ Moved(t) /\ k.at = "compare" /\ k.out = <<>> /\ k.job[1] = "reconcile"
         /\ \/ n.at = "done" /\ n.out = <<Log("other"), Reconciled(k.job[2])>>
            \/ n.at = "tree" /\ n.out = <<>>
         /\ n.todo = k.todo /\ n.path = k.path /\ n.offered = k.offered
         /\ n.missed = k.missed /\ n.after = k.after
<1> DEFINE k == tasks[t]
           o == <<Log("other"), Reconciled(k.job[2])>>
           n == IF same THEN [k EXCEPT !.at = "done", !.out = o] ELSE [k EXCEPT !.at = "tree"]
<1>1. /\ k \in Task /\ JobFits(k) /\ k.at = "compare" /\ k.out = <<>>
      /\ k.job[1] = "reconcile" /\ k.job[2] \in Peer
      /\ Become(t, n)
  BY TaskKnown DEF CompareRoots, At, JobFits
<1>2. o \in Seq(Event)
  BY <1>1, ShortOuts, EventTypes
<1> HIDE DEF o
<1>3. /\ n \in Task /\ n.job = k.job
      /\ \/ n.at = "done" /\ n.out = o
         \/ n.at = "tree" /\ n.out = <<>>
      /\ n.todo = k.todo /\ n.path = k.path /\ n.offered = k.offered
      /\ n.missed = k.missed /\ n.after = k.after
  BY <1>1, <1>2 DEF Task, Await
<1>4. JobFits(n) /\ Says(n)
  BY <1>1, <1>3 DEF JobFits, Says, o
<1> HIDE DEF n
<1> QED
  BY <1>1, <1>3, <1>4, BecomeMoved DEF o

LEMMA DiffMoves ==
  ASSUME Typed, NEW t \in DOMAIN tasks, NEW files \in SUBSET File, Diff(t, files)
  PROVE  LET k == tasks[t]
             n == tasks'[t] IN
         /\ Moved(t) /\ k.at = "diff" /\ k.out = <<>>
         /\ n.at = "next" /\ n.out = <<Log("other")>> /\ n.todo = files /\ n.offered = files
         /\ n.path = k.path /\ n.missed = k.missed /\ n.after = k.after
<1> DEFINE k == tasks[t]
           n == [k EXCEPT !.at = "next", !.out = <<Log("other")>>, !.todo = files, !.offered = files]
<1>1. k \in Task /\ JobFits(k) /\ k.at = "diff" /\ k.out = <<>> /\ Become(t, n)
  BY TaskKnown DEF Diff, At
<1>2. /\ n \in Task /\ n.job = k.job
      /\ n.at = "next" /\ n.out = <<Log("other")>> /\ n.todo = files /\ n.offered = files
      /\ n.path = k.path /\ n.missed = k.missed /\ n.after = k.after
  BY <1>1, ShortOuts, EventTypes DEF Task, Await
<1>3. JobFits(n) /\ Says(n)
  BY <1>1, <1>2 DEF JobFits, Says
<1> QED
  BY <1>1, <1>2, <1>3, BecomeMoved

LEMMA DecideMoves ==
  ASSUME Typed, NEW t \in DOMAIN tasks, NEW verdict \in {"accept", "conflict", "reject"},
         NEW to \in File, Decide(t, verdict, to)
  PROVE  LET k == tasks[t]
             n == tasks'[t] IN
         /\ Moved(t) /\ k.at = "decide" /\ k.out = <<>>
         /\ n.at \in {"next", "done"} /\ n.out = <<>>
         /\ n.at = "done" => n.todo = k.todo
         /\ n.path = k.path /\ n.offered = k.offered /\ n.missed = k.missed
<1> DEFINE k == tasks[t]
           a == IF verdict = "conflict" THEN <<OnFile("conflict", k.job[2])>> ELSE <<>>
           n == IF verdict = "reject" THEN [k EXCEPT !.at = "done"]
                ELSE [k EXCEPT !.at = "next", !.todo = {to}, !.after = a]
<1>1. /\ k \in Task /\ JobFits(k) /\ k.at = "decide" /\ k.out = <<>> /\ k.job[1] = "changed"
      /\ k.job[2] \in File /\ Become(t, n)
  BY TaskKnown DEF Decide, At, JobFits
<1>2. a \in Seq(Event) /\ (a = <<>> \/ a = <<OnFile("conflict", k.job[2])>>)
  BY <1>1, ShortOuts, EventTypes DEF FileKinds
<1> HIDE DEF a
<1>3. /\ n \in Task /\ n.job = k.job
      /\ n.at \in {"next", "done"} /\ n.out = <<>>
      /\ n.at = "done" => n.todo = k.todo
      /\ n.path = k.path /\ n.offered = k.offered /\ n.missed = k.missed
      /\ n.after = k.after \/ n.after = a
  BY <1>1, <1>2 DEF Task, Await
<1>4. JobFits(n) /\ Says(n)
  BY <1>1, <1>2, <1>3 DEF JobFits, Says
<1> HIDE DEF n
<1> QED
  BY <1>1, <1>3, <1>4, BecomeMoved

LEMMA FetchNextMoves ==
  ASSUME Typed, NEW t \in DOMAIN tasks, NEW f \in File, FetchNext(t, f)
  PROVE  LET k == tasks[t]
             n == tasks'[t] IN
         /\ Moved(t) /\ k.at \in {"next", "reported"} /\ k.out = <<>>
         /\ f \in k.todo /\ n.todo = k.todo \ {f}
         /\ \/ f \in Excluded /\ n.at = "next" /\ n.out = <<>> /\ n.path = k.path
            \/ n.at = "chunks" /\ n.out = <<OnFile("started", f)>> /\ n.path = f
         /\ n.offered = k.offered /\ n.missed = k.missed /\ n.after = k.after
<1> DEFINE k == tasks[t]
           n == IF f \in Excluded
                THEN [k EXCEPT !.at = "next", !.todo = @ \ {f}]
                ELSE [k EXCEPT !.at = "chunks", !.todo = @ \ {f}, !.path = f,
                               !.out = <<OnFile("started", f)>>]
<1>1. /\ k \in Task /\ JobFits(k) /\ k.at \in {"next", "reported"} /\ k.out = <<>>
      /\ f \in k.todo /\ Become(t, n)
  BY TaskKnown DEF FetchNext, Continues, At
<1>2. <<OnFile("started", f)>> \in Seq(Event)
  BY ShortOuts, EventTypes DEF FileKinds
<1>3. /\ n \in Task /\ n.job = k.job /\ n.todo = k.todo \ {f}
      /\ \/ f \in Excluded /\ n.at = "next" /\ n.out = <<>> /\ n.path = k.path
         \/ n.at = "chunks" /\ n.out = <<OnFile("started", f)>> /\ n.path = f
      /\ n.offered = k.offered /\ n.missed = k.missed /\ n.after = k.after
  BY <1>1, <1>2 DEF Task, Await
<1>4. JobFits(n) /\ Says(n)
  BY <1>1, <1>3 DEF JobFits, Says
<1> HIDE DEF n
<1> QED
  BY <1>1, <1>3, <1>4, BecomeMoved

LEMMA ChunksReplyMoves ==
  ASSUME Typed, NEW t \in DOMAIN tasks, NEW fits \in BOOLEAN, ChunksReply(t, fits)
  PROVE  LET k == tasks[t]
             n == tasks'[t] IN
         /\ Moved(t) /\ k.at = "chunks" /\ k.out = <<>>
         /\ n.out = <<OnFile("chunk", k.path)>>
         /\ \/ n.at = "write" /\ n.missed = k.missed
            \/ n.at = "next" /\ n.missed = k.missed \cup {k.path}
         /\ n.todo = k.todo /\ n.path = k.path /\ n.offered = k.offered /\ n.after = k.after
<1> DEFINE k == tasks[t]
           o == <<OnFile("chunk", k.path)>>
           n == [k EXCEPT !.out = o,
                          !.at = IF fits THEN "write" ELSE "next",
                          !.missed = IF fits THEN @ ELSE @ \cup {k.path}]
<1>1. /\ k \in Task /\ JobFits(k) /\ k.at = "chunks" /\ k.out = <<>> /\ k.path \in File
      /\ Become(t, n)
  BY TaskKnown DEF ChunksReply, At, Task
<1>2. o \in Seq(Event)
  BY <1>1, ShortOuts, EventTypes DEF FileKinds
<1> HIDE DEF o
<1>3. /\ n \in Task /\ n.job = k.job /\ n.out = o
      /\ \/ n.at = "write" /\ n.missed = k.missed
         \/ n.at = "next" /\ n.missed = k.missed \cup {k.path}
      /\ n.todo = k.todo /\ n.path = k.path /\ n.offered = k.offered /\ n.after = k.after
  BY <1>1, <1>2 DEF Task, Await
<1>4. JobFits(n) /\ Says(n)
  BY <1>1, <1>3 DEF JobFits, Says, o
<1> HIDE DEF n
<1> QED
  BY <1>1, <1>3, <1>4, BecomeMoved DEF o

LEMMA TransferFailsMoves ==
  ASSUME Typed, NEW t \in DOMAIN tasks, TransferFails(t)
  PROVE  LET k == tasks[t]
             n == tasks'[t] IN
         /\ Moved(t) /\ k.at \in {"chunks", "write"} /\ k.out = <<>>
         /\ n.at = "next" /\ n.out = <<>> /\ n.missed = k.missed \cup {k.path}
         /\ n.todo = k.todo /\ n.path = k.path /\ n.offered = k.offered /\ n.after = k.after
<1> DEFINE k == tasks[t]
           n == [k EXCEPT !.at = "next", !.missed = @ \cup {k.path}]
<1>1. /\ k \in Task /\ JobFits(k) /\ k.at \in {"chunks", "write"} /\ k.out = <<>>
      /\ Become(t, n)
  BY TaskKnown DEF TransferFails, At
<1>2. /\ n \in Task /\ n.job = k.job
      /\ n.at = "next" /\ n.out = <<>> /\ n.missed = k.missed \cup {k.path}
      /\ n.todo = k.todo /\ n.path = k.path /\ n.offered = k.offered /\ n.after = k.after
  BY <1>1 DEF Task, Await
<1>3. JobFits(n) /\ Says(n)
  BY <1>1, <1>2 DEF JobFits, Says
<1> QED
  BY <1>1, <1>2, <1>3, BecomeMoved

LEMMA IndexFileMoves ==
  ASSUME Typed, NEW t \in DOMAIN tasks, IndexFile(t)
  PROVE  LET k == tasks[t]
             n == tasks'[t] IN
         /\ Moved(t) /\ ~Locked /\ k.at = "index" /\ k.out = <<>> /\ k.path \in File
         /\ applied' = [applied EXCEPT ![k.path] = "received"]
         /\ n.at = "reported" /\ n.out = <<OnFile("received", k.path), Synced(k.path)>>
         /\ n.todo = k.todo /\ n.path = k.path /\ n.offered = k.offered
         /\ n.missed = k.missed /\ n.after = k.after
<1> DEFINE k == tasks[t]
           o == <<OnFile("received", k.path), Synced(k.path)>>
           n == [k EXCEPT !.at = "reported", !.out = o]
<1>1. /\ k \in Task /\ JobFits(k) /\ k.at = "index" /\ k.out = <<>> /\ k.path \in File
      /\ ~Locked /\ applied' = [applied EXCEPT ![k.path] = "received"]
      /\ Become(t, n)
  BY TaskKnown DEF IndexFile, At, Task
<1>2. o \in Seq(Event)
  BY <1>1, ShortOuts, EventTypes DEF FileKinds
<1> HIDE DEF o
<1>3. /\ n \in Task /\ n.job = k.job
      /\ n.at = "reported" /\ n.out = o
      /\ n.todo = k.todo /\ n.path = k.path /\ n.offered = k.offered
      /\ n.missed = k.missed /\ n.after = k.after
  BY <1>1, <1>2 DEF Task, Await
<1>4. JobFits(n) /\ Says(n)
  BY <1>1, <1>3 DEF JobFits, Says, o
<1> HIDE DEF n
<1> QED
  BY <1>1, <1>3, <1>4, BecomeMoved DEF o

LEMMA RemoveFileMoves ==
  ASSUME Typed, NEW t \in DOMAIN tasks, RemoveFile(t)
  PROVE  LET k == tasks[t]
             n == tasks'[t] IN
         /\ Moved(t) /\ ~Locked /\ k.at = "remove" /\ k.out = <<>> /\ k.job[2] \in File
         /\ applied' = [applied EXCEPT ![k.job[2]] = "removed"]
         /\ n.at = "reported" /\ n.out = <<OnFile("removed", k.job[2])>>
         /\ n.todo = k.todo /\ n.path = k.path /\ n.offered = k.offered
         /\ n.missed = k.missed /\ n.after = k.after
<1> DEFINE k == tasks[t]
           o == <<OnFile("removed", k.job[2])>>
           n == [k EXCEPT !.at = "reported", !.out = o]
<1>1. /\ k \in Task /\ JobFits(k) /\ k.at = "remove" /\ k.out = <<>>
      /\ k.job[1] = "deleted" /\ k.job[2] \in File
      /\ ~Locked /\ applied' = [applied EXCEPT ![k.job[2]] = "removed"]
      /\ Become(t, n)
  BY TaskKnown DEF RemoveFile, At, JobFits
<1>2. o \in Seq(Event)
  BY <1>1, ShortOuts, EventTypes DEF FileKinds
<1> HIDE DEF o
<1>3. /\ n \in Task /\ n.job = k.job
      /\ n.at = "reported" /\ n.out = o
      /\ n.todo = k.todo /\ n.path = k.path /\ n.offered = k.offered
      /\ n.missed = k.missed /\ n.after = k.after
  BY <1>1, <1>2 DEF Task, Await
<1>4. JobFits(n) /\ Says(n)
  BY <1>1, <1>3 DEF JobFits, Says, o
<1> HIDE DEF n
<1> QED
  BY <1>1, <1>3, <1>4, BecomeMoved DEF o

LEMMA EndTaskMoves ==
  ASSUME Typed, NEW t \in DOMAIN tasks, EndTask(t)
  PROVE  LET k == tasks[t]
             n == tasks'[t] IN
         /\ Moved(t) /\ k.at \in {"next", "reported"} /\ k.out = <<>> /\ k.todo = {}
         /\ n.at = "done"
         /\ \/ k.job[1] = "reconcile" /\ n.out = <<Log("other"), Reconciled(k.job[2])>>
            \/ n.out = <<>>
            \/ n.out = <<OnFile("conflict", k.job[2])>>
         /\ n.todo = k.todo /\ n.path = k.path /\ n.offered = k.offered
         /\ n.missed = k.missed /\ n.after = k.after
<1> DEFINE k == tasks[t]
           o == IF k.job[1] = "reconcile" THEN <<Log("other"), Reconciled(k.job[2])>> ELSE k.after
           n == [k EXCEPT !.at = "done", !.out = o]
<1>1. /\ k \in Task /\ JobFits(k) /\ k.at \in {"next", "reported"} /\ k.out = <<>> /\ k.todo = {}
      /\ k.job[1] = "reconcile" => k.job[2] \in Peer
      /\ Become(t, n)
  BY TaskKnown DEF EndTask, Continues, At
<1>2. o \in Seq(Event)
  BY <1>1, ShortOuts, EventTypes DEF Task
<1>3. \/ k.job[1] = "reconcile" /\ o = <<Log("other"), Reconciled(k.job[2])>>
      \/ k.job[1] # "reconcile" /\ o = <<>>
      \/ k.job[1] = "changed" /\ o = <<OnFile("conflict", k.job[2])>>
  BY <1>1 DEF JobFits
<1> HIDE DEF o
<1>4. /\ n \in Task /\ n.job = k.job
      /\ n.at = "done" /\ n.out = o
      /\ n.todo = k.todo /\ n.path = k.path /\ n.offered = k.offered
      /\ n.missed = k.missed /\ n.after = k.after
  BY <1>1, <1>2 DEF Task, Await
<1>5. JobFits(n)
  BY <1>1, <1>4 DEF JobFits
<1>6. Says(n)
  BY <1>3, <1>4 DEF Says
<1> HIDE DEF n
<1> QED
  BY <1>1, <1>3, <1>4, <1>5, <1>6, BecomeMoved

\* A task sends e, and rest is what it has still to send.
Sends(k, e, rest) ==
  \/ e = Log("other") /\ rest = <<>> /\ k.at \in {"hash", "next"}
  \/ e = OnFile("started", k.path) /\ rest = <<>> /\ k.at = "chunks"
  \/ e = OnFile("chunk", k.path) /\ rest = <<>> /\ k.at \in {"write", "next"}
  \/ e = OnFile("received", k.path) /\ rest = <<Synced(k.path)>> /\ k.at = "reported"
  \/ e = Synced(k.path) /\ rest = <<>> /\ k.at = "reported"
  \/ e = OnFile("removed", k.job[2]) /\ rest = <<>> /\ k.at = "reported" /\ k.job[1] = "deleted"
  \/ e = Log("failed") /\ rest = <<>> /\ k.at = "failed"
  \/ /\ e = Log("other") /\ rest = <<Reconciled(k.job[2])>>
     /\ k.at = "done" /\ k.job[1] = "reconcile"
  \/ e = Reconciled(k.job[2]) /\ rest = <<>> /\ k.at = "done" /\ k.job[1] = "reconcile"
  \/ e = OnFile("conflict", k.job[2]) /\ rest = <<>> /\ k.at = "done" /\ k.job[1] = "changed"

LEMMA SaysSends ==
  ASSUME NEW k \in Task, Says(k), k.out # <<>>
  PROVE  Sends(k, Head(k.out), Tail(k.out))
<1>1. \A e : Head(<<e>>) = e /\ Tail(<<e>>) = <<>>
  OBVIOUS
<1>2. \A d, e : Head(<<d, e>>) = d /\ Tail(<<d, e>>) = <<e>>
  OBVIOUS
<1> QED
  BY <1>1, <1>2 DEF Says, Sends

LEMMA TaskSendsMoves ==
  ASSUME Typed, NEW t \in DOMAIN tasks, TaskSends(t)
  PROVE  LET k == tasks[t]
             n == tasks'[t]
             e == Head(k.out) IN
         /\ tasks' \in Seq(Task) /\ Len(tasks') = Len(tasks) /\ DOMAIN tasks' = DOMAIN tasks
         /\ \A u \in DOMAIN tasks : u # t => tasks'[u] = tasks[u]
         /\ e \in Event /\ ui' = Append(ui, e) /\ Len(ui) < ChannelCapacity
         /\ k.out # <<>> /\ Sends(k, e, n.out)
         /\ n \in Task /\ n = [k EXCEPT !.out = Tail(k.out)]
         /\ n.at = k.at /\ n.job = k.job /\ n.todo = k.todo /\ n.path = k.path
         /\ n.offered = k.offered /\ n.missed = k.missed /\ n.after = k.after
         /\ JobFits(n) /\ Says(n)
         /\ UNCHANGED <<engine, loopOut, spawns, near, applied>>
<1> DEFINE k == tasks[t]
           n == [k EXCEPT !.out = Tail(k.out)]
           e == Head(k.out)
<1>1. k \in Task /\ JobFits(k) /\ Says(k) /\ k.out \in Seq(Event) /\ k.out # <<>>
  BY TaskKnown DEF TaskSends, Task
<1>2. /\ ui' = Append(ui, e) /\ Len(ui) < ChannelCapacity
      /\ UNCHANGED <<engine, loopOut, spawns, near, applied>>
  BY DEF TaskSends, Room
<1>3. tasks' = [tasks EXCEPT ![t] = n]
  BY <1>1, TaskKnown DEF TaskSends, Typed, TypeOK, EngineTypeOK, Task
<1>4. e \in Event /\ Tail(k.out) \in Seq(Event)
  BY <1>1, Unqueueing
<1>5. Sends(k, e, Tail(k.out))
  BY <1>1, SaysSends
<1>6. /\ n \in Task /\ n.out = Tail(k.out)
      /\ n.at = k.at /\ n.job = k.job /\ n.todo = k.todo /\ n.path = k.path
      /\ n.offered = k.offered /\ n.missed = k.missed /\ n.after = k.after
  BY <1>1, <1>4 DEF Task
<1>7. JobFits(n) /\ Says(n)
  BY <1>1, <1>5, <1>6 DEF JobFits, Says, Sends
<1>8. /\ tasks' \in Seq(Task) /\ Len(tasks') = Len(tasks) /\ DOMAIN tasks' = DOMAIN tasks
      /\ \A u \in DOMAIN tasks : u # t => tasks'[u] = tasks[u]
      /\ tasks'[t] = n
  BY <1>3, <1>6, TaskChanged DEF Typed, TypeOK, EngineTypeOK
<1> HIDE DEF n
<1> QED
  BY <1>1, <1>2, <1>4, <1>5, <1>6, <1>7, <1>8 DEF n

\* What happens to the channel: an event of the loop or of a task is added, or the first
\* is taken off.
LEMMA LoopSendsMoves ==
  ASSUME Typed, LoopSends
  PROVE  LET e == Head(loopOut) IN
         /\ loopOut # <<>> /\ e \in Event /\ e = loopOut[1]
         /\ ui' = Append(ui, e) /\ Len(ui) < ChannelCapacity
         /\ loopOut' = Tail(loopOut) /\ loopOut' \in Seq(Event)
         /\ \A i \in DOMAIN loopOut' : i + 1 \in DOMAIN loopOut /\ loopOut'[i] = loopOut[i + 1]
         /\ e[1] \notin FileKinds \cup {"reconciled"} /\ e # Log("failed")
         /\ \A i \in DOMAIN loopOut' : loopOut'[i][1] \notin {"connected", "disconnected"}
         /\ LoopSays'
<1>1. loopOut \in Seq(Event) /\ loopOut # <<>> /\ loopOut' = Tail(loopOut)
  BY DEF LoopSends, Typed, TypeOK, EngineTypeOK
<1>2. /\ Tail(loopOut) \in Seq(Event) /\ Head(loopOut) \in Event /\ Head(loopOut) = loopOut[1]
      /\ Len(loopOut) \in Nat /\ Len(loopOut) >= 1
      /\ DOMAIN loopOut = 1 .. Len(loopOut) /\ DOMAIN Tail(loopOut) = 1 .. Len(loopOut) - 1
      /\ \A i \in 1 .. Len(loopOut) - 1 : Tail(loopOut)[i] = loopOut[i + 1]
  BY <1>1, Unqueueing
<1>3. \A i \in DOMAIN loopOut' :
        i + 1 \in DOMAIN loopOut /\ loopOut'[i] = loopOut[i + 1] /\ i + 1 # 1
  BY <1>1, <1>2
<1>4. LoopSays'
  BY <1>3 DEF LoopSays, Typed, LoopSends
<1>5. 1 \in DOMAIN loopOut
  BY <1>2
<1> QED
  BY <1>1, <1>2, <1>3, <1>4, <1>5 DEF LoopSends, Room, Typed, LoopSays

LEMMA ReceiveMoves ==
  ASSUME Typed, ui # <<>>, Receive(Head(ui))
  PROVE  /\ Head(ui) \in Event /\ Head(ui) = ui[1]
         /\ ui' = Tail(ui) /\ ui' \in Seq(Event) /\ Len(ui') <= ChannelCapacity
         /\ Len(ui) \in Nat /\ Len(ui) >= 1 /\ Len(ui') = Len(ui) - 1
         /\ DOMAIN ui = 1 .. Len(ui) /\ DOMAIN ui' = 1 .. Len(ui) - 1
         /\ \A i \in DOMAIN ui' : i + 1 \in DOMAIN ui /\ ui'[i] = ui[i + 1]
         /\ reported' \in [File -> {"nothing", "received", "removed"}]
         /\ \A f \in File : reported'[f] = IF Head(ui)[1] \in ReportKinds /\ Head(ui)[2] = f
                                           THEN Head(ui)[1] ELSE reported[f]
         /\ UNCHANGED <<engine, loopOut, spawns, near, tasks, applied, command>>
<1>1. ui \in Seq(Event) /\ Len(ui) <= ChannelCapacity /\ ui' = Tail(ui)
  BY DEF Receive, Typed, TypeOK, EngineTypeOK
<1>2. /\ Tail(ui) \in Seq(Event) /\ Head(ui) \in Event /\ Head(ui) = ui[1]
      /\ Len(ui) \in Nat /\ Len(ui) >= 1 /\ Len(Tail(ui)) = Len(ui) - 1
      /\ DOMAIN ui = 1 .. Len(ui) /\ DOMAIN Tail(ui) = 1 .. Len(ui) - 1
      /\ \A i \in 1 .. Len(ui) - 1 : Tail(ui)[i] = ui[i + 1]
  BY <1>1, Unqueueing
<1>3. Len(ui') <= ChannelCapacity
  BY <1>1, <1>2, EngineAssumption
<1>4. \A i \in DOMAIN ui' : i + 1 \in DOMAIN ui /\ ui'[i] = ui[i + 1]
  BY <1>1, <1>2
<1>5. Head(ui)[1] \in ReportKinds => Head(ui)[2] \in File
  BY <1>2 DEF Event, ReportKinds
<1>6. /\ reported' \in [File -> {"nothing", "received", "removed"}]
      /\ \A f \in File : reported'[f] = IF Head(ui)[1] \in ReportKinds /\ Head(ui)[2] = f
                                        THEN Head(ui)[1] ELSE reported[f]
  <2>1. reported \in [File -> {"nothing", "received", "removed"}]
    BY DEF Typed, TypeOK
  <2>2. CASE Head(ui)[1] \in ReportKinds
    BY <1>5, <2>1, <2>2 DEF Receive, ReportKinds
  <2>3. CASE Head(ui)[1] \notin ReportKinds
    BY <2>1, <2>3 DEF Receive
  <2> QED
    BY <2>2, <2>3
<1> QED
  BY <1>1, <1>2, <1>3, <1>4, <1>6 DEF Receive

-----------------------------------------------------------------------------
(* Type correctness *)

LEMMA MovedTyped ==
  ASSUME Typed, NEW t \in DOMAIN tasks, Moved(t), UNCHANGED frontVars,
         applied' \in [File -> {"nothing", "received", "removed"}]
  PROVE  Typed'
<1>1. TasksFit'
  BY DEF Typed, TasksFit, Moved
<1>2. LoopSays'
  BY DEF Typed, LoopSays, Moved
<1>3. TypeOK'
  BY DEF Typed, TypeOK, EngineTypeOK, Moved, frontVars
<1> QED
  BY <1>1, <1>2, <1>3 DEF Typed

\* A task's step other than to send an event.
LEMMA TaskStepMoves ==
  ASSUME Typed, NEW t \in DOMAIN tasks, TaskStep(t), ~TaskSends(t)
  PROVE  /\ Moved(t) /\ tasks[t].out = <<>> /\ ~Settled(t)
         /\ \/ UNCHANGED applied /\ tasks'[t].at # "reported"
            \/ IndexFile(t) \/ RemoveFile(t)
<1> USE DEF Settled
<1>1. CASE HashReply(t)
  BY <1>1, HashReplyMoves DEF HashReply
<1>2. CASE TreeReply(t)
  BY <1>2, TreeReplyMoves DEF TreeReply
<1>3. CASE RequestFails(t)
  BY <1>3, RequestFailsMoves DEF RequestFails
<1>4. ASSUME NEW same \in BOOLEAN, CompareRoots(t, same)
      PROVE  /\ Moved(t) /\ tasks[t].out = <<>> /\ ~Settled(t)
             /\ UNCHANGED applied /\ tasks'[t].at # "reported"
  BY <1>4, CompareRootsMoves DEF CompareRoots
<1>5. ASSUME NEW files \in SUBSET File, Diff(t, files)
      PROVE  /\ Moved(t) /\ tasks[t].out = <<>> /\ ~Settled(t)
             /\ UNCHANGED applied /\ tasks'[t].at # "reported"
  BY <1>5, DiffMoves DEF Diff
<1>6. ASSUME NEW verdict \in {"accept", "conflict", "reject"}, NEW to \in File,
             Decide(t, verdict, to)
      PROVE  /\ Moved(t) /\ tasks[t].out = <<>> /\ ~Settled(t)
             /\ UNCHANGED applied /\ tasks'[t].at # "reported"
  BY <1>6, DecideMoves DEF Decide
<1>7. ASSUME NEW f \in File, FetchNext(t, f)
      PROVE  /\ Moved(t) /\ tasks[t].out = <<>> /\ ~Settled(t)
             /\ UNCHANGED applied /\ tasks'[t].at # "reported"
  BY <1>7, FetchNextMoves DEF FetchNext
<1>8. ASSUME NEW fits \in BOOLEAN, ChunksReply(t, fits)
      PROVE  /\ Moved(t) /\ tasks[t].out = <<>> /\ ~Settled(t)
             /\ UNCHANGED applied /\ tasks'[t].at # "reported"
  BY <1>8, ChunksReplyMoves DEF ChunksReply
<1>9. CASE TransferFails(t)
  BY <1>9, TransferFailsMoves DEF TransferFails
<1>10. CASE WriteFile(t)
  BY <1>10, WriteFileMoves DEF WriteFile
<1>11. CASE IndexFile(t)
  BY <1>11, IndexFileMoves
<1>12. CASE RemoveFile(t)
  BY <1>12, RemoveFileMoves
<1>13. CASE EndTask(t)
  BY <1>13, EndTaskMoves DEF EndTask
<1> QED
  BY <1>1, <1>2, <1>3, <1>4, <1>5, <1>6, <1>7, <1>8, <1>9, <1>10, <1>11, <1>12, <1>13
     DEF TaskStep

Fresh(k) ==
  /\ k.at \in {"hash", "decide", "remove"} /\ k.out \in {<<>>, <<Log("other")>>}
  /\ k.offered = {} /\ k.missed = {} /\ k.todo = {}

\* Tasks may be spawned, and nothing else is done with them.
Grown ==
  /\ DOMAIN tasks \subseteq DOMAIN tasks'
  /\ \A u \in DOMAIN tasks : tasks'[u] = tasks[u]
  /\ \A u \in DOMAIN tasks' : u \in DOMAIN tasks \/ Fresh(tasks'[u])

\* The loop's steps other than to send an event, and what happens to the engine.
LEMMA LoopTyped ==
  ASSUME Typed, UNCHANGED frontVars, EngineStarts \/ SpawnReconcile \/ Happening
  PROVE  Typed' /\ Grown /\ UNCHANGED <<ui, applied>>
<1> USE DEF Typed, TypeOK, EngineTypeOK, frontVars
<1>1. CASE EngineStarts
  BY <1>1 DEF EngineStarts, TasksFit, LoopSays, Grown
<1>2. CASE SpawnReconcile
  <2> DEFINE k == Spawned(<<"reconcile", Head(spawns)>>, "hash", <<Log("other")>>)
  <2>1. Head(spawns) \in Peer
    BY <1>2, Unqueueing DEF SpawnReconcile
  <2>2. k \in Task /\ JobFits(k) /\ Says(k) /\ Fresh(k)
    <3>1. <<"reconcile", Head(spawns)>> \in ({"reconcile"} \X Peer) \cup Notifiable
      BY <2>1
    <3> QED
      BY <3>1, SpawnedFits DEF Fresh
  <2> HIDE DEF k
  <2>3. tasks' = Append(tasks, k) /\ Len(tasks) < MaxTasks
    BY <1>2 DEF SpawnReconcile, LoopSays, k
  <2>4. /\ tasks' \in Seq(Task) /\ Len(tasks') <= MaxTasks
        /\ DOMAIN tasks \subseteq DOMAIN tasks'
        /\ \A u \in DOMAIN tasks : tasks'[u] = tasks[u]
        /\ \A u \in DOMAIN tasks' : u \in DOMAIN tasks \/ tasks'[u] = k
    BY <2>2, <2>3, TaskAdded
  <2>5. TasksFit'
    BY <2>2, <2>4 DEF TasksFit
  <2>6. /\ spawns' = <<>> /\ UNCHANGED <<engine, loopOut, near, ui, applied>>
        /\ UNCHANGED frontVars
    BY <1>2 DEF SpawnReconcile
  <2>7. LoopSays'
    BY <2>6 DEF LoopSays
  <2>8. Grown
    BY <2>2, <2>4 DEF Grown
  <2> QED
    BY <2>4, <2>5, <2>6, <2>7, <2>8
<1>3. CASE EngineDies
  BY <1>3 DEF EngineDies, TasksFit, LoopSays, Grown
<1>4. ASSUME NEW p \in Peer, PeerDiscovered(p)
      PROVE  Typed' /\ Grown /\ UNCHANGED <<ui, applied>>
  <2>1. <<Connected(p), Log("other")>> \in Seq(Event) /\ <<p>> \in Seq(Peer)
    BY EventTypes, ShortOuts
  <2>2. LoopSays'
    BY <1>4 DEF PeerDiscovered, LoopSays, Connected, Log, FileKinds
  <2> QED
    BY <1>4, <2>1, <2>2 DEF PeerDiscovered, TasksFit, Grown
<1>5. ASSUME NEW p \in Peer, PeerDisconnected(p)
      PROVE  Typed' /\ Grown /\ UNCHANGED <<ui, applied>>
  <2>1. <<Disconnected(p), Log("other")>> \in Seq(Event)
    BY EventTypes, ShortOuts
  <2>2. LoopSays'
    BY <1>5 DEF PeerDisconnected, LoopSays, Disconnected, Log, FileKinds
  <2> QED
    BY <1>5, <2>1, <2>2 DEF PeerDisconnected, TasksFit, Grown
<1>6. ASSUME NEW note \in Notifiable, Notification(note)
      PROVE  Typed' /\ Grown /\ UNCHANGED <<ui, applied>>
  <2> DEFINE at == IF note[1] = "changed" THEN "decide" ELSE "remove"
             k == Spawned(note, at, <<>>)
  <2>1. k \in Task /\ JobFits(k) /\ Says(k) /\ Fresh(k)
    <3>1. note[1] \in {"changed", "deleted"}
      BY EngineAssumption
    <3> HIDE DEF k
    <3>2. /\ at \in {"hash", "decide", "remove"} /\ ~(at = "hash") /\ note[1] # "reconcile"
          /\ at = "decide" <=> note[1] = "changed"
          /\ at = "remove" <=> note[1] = "deleted"
      BY <3>1
    <3> HIDE DEF at
    <3> QED
      BY <3>2, SpawnedFits DEF k, Fresh
  <2> HIDE DEF k
  <2>2. tasks' = Append(tasks, k) /\ Len(tasks) < MaxTasks
    BY <1>6 DEF Notification, k
  <2>3. /\ tasks' \in Seq(Task) /\ Len(tasks') <= MaxTasks
        /\ DOMAIN tasks \subseteq DOMAIN tasks'
        /\ \A u \in DOMAIN tasks : tasks'[u] = tasks[u]
        /\ \A u \in DOMAIN tasks' : u \in DOMAIN tasks \/ tasks'[u] = k
    BY <2>1, <2>2, TaskAdded
  <2>4. TasksFit'
    BY <2>1, <2>3 DEF TasksFit
  <2>5. LoopSays' /\ UNCHANGED <<engine, loopOut, spawns, near, ui, applied>>
    BY <1>6 DEF Notification, LoopSays, AtSelect
  <2>6. Grown
    BY <2>1, <2>3 DEF Grown
  <2> QED
    BY <2>3, <2>4, <2>5, <2>6
<1> QED
  BY <1>1, <1>2, <1>3, <1>4, <1>5, <1>6 DEF Happening

LEMMA InitTyped == Init => Typed
<1> SUFFICES ASSUME Init PROVE Typed
  OBVIOUS
<1> DEFINE index == <<"index", "ready">>
<1>0. /\ Log("other")[1] = "log" /\ index[1] = "index"
      /\ Log("other") # Log("failed") /\ index # Log("failed")
      /\ Log("other") \in Event /\ index \in Event
  BY EventTypes DEF Log
<1>2. loopOut = <<Log("other"), index, Log("other")>> /\ spawns = <<>>
  BY DEF Init, EngineInit
<1> HIDE DEF index
<1>6. loopOut \in Seq(Event)
  BY <1>0, <1>2
<1>7. \A i \in DOMAIN loopOut : loopOut[i] \in {Log("other"), index}
  BY <1>2
<1>1. LoopSays
  BY <1>0, <1>2, <1>7 DEF LoopSays, FileKinds
<1>8. tasks = <<>> /\ \A t \in DOMAIN tasks : FALSE
  BY DEF Init, EngineInit
<1>3. TasksFit
  BY <1>8 DEF TasksFit
<1>4. EngineTypeOK
  <2>1. Len(tasks) = 0 /\ tasks \in Seq(Task) /\ 0 <= MaxTasks
    BY <1>8, EngineAssumption
  <2>2. Len(ui) = 0 /\ ui \in Seq(Event) /\ 0 <= ChannelCapacity
    BY EngineAssumption DEF Init, EngineInit
  <2> QED
    BY <1>6, <2>1, <2>2 DEF Init, EngineInit, EngineTypeOK
<1>5. TypeOK
  <2>1. panel \in Seq(Peer \X BOOLEAN) /\ journal \in Nat /\ journal <= MaxLogLines
    BY FrontEndAssumption DEF Init
  <2>2. reported \in [File -> {"nothing", "received", "removed"}]
    BY DEF Init
  <2> QED
    BY <1>4, <2>1, <2>2 DEF Init, TypeOK
<1> QED
  BY <1>1, <1>3, <1>5 DEF Typed

\* A terminal's picture stays well formed.
LEMMA PictureTyped ==
  ASSUME Typed, NEW e \in Event
  PROVE  /\ Known(e) \in Seq(Peer \X BOOLEAN)
         /\ Shown(e) \subseteq File
         /\ Lines(e) \in Nat /\ (Lines(e) <= MaxLogLines \/ Lines(e) = 1)
<1>1. e[1] \in {"connected", "disconnected"} => e[2] \in Peer
  BY DEF Event
<1>2. e[1] = "started" => e[2] \in File
  BY DEF Event
<1>3. panel \in Seq(Peer \X BOOLEAN)
  BY DEF Typed, TypeOK
<1>4. Known(e) \in Seq(Peer \X BOOLEAN)
  <2>1. CASE e[1] = "connected" /\ ~Listed(e[2])
    <3>1. <<e[2], TRUE>> \in Peer \X BOOLEAN
      BY <1>1, <2>1
    <3>2. Append(panel, <<e[2], TRUE>>) \in Seq(Peer \X BOOLEAN)
      BY <1>3, <3>1, Queueing
    <3>3. Known(e) = Append(panel, <<e[2], TRUE>>)
      BY <2>1 DEF Known
    <3> QED
      BY <3>2, <3>3
  <2>2. CASE e[1] \in {"connected", "disconnected"} /\ ~(e[1] = "connected" /\ ~Listed(e[2]))
    <3> DEFINE new == [i \in DOMAIN panel |-> IF panel[i][1] = e[2]
                                              THEN <<e[2], e[1] = "connected">> ELSE panel[i]]
    <3>1. Len(panel) \in Nat /\ DOMAIN panel = 1 .. Len(panel)
      BY <1>3
    <3>2. \A i \in 1 .. Len(panel) : panel[i] \in Peer \X BOOLEAN
      BY <1>3
    <3>3. <<e[2], e[1] = "connected">> \in Peer \X BOOLEAN
      BY <1>1, <2>2
    <3>4. new \in [1 .. Len(panel) -> Peer \X BOOLEAN]
      BY <3>1, <3>2, <3>3
    <3>5. new \in Seq(Peer \X BOOLEAN)
      BY <3>1, <3>4
    <3> QED
      BY <2>2, <3>5 DEF Known
  <2>3. CASE e[1] \notin {"connected", "disconnected"}
    BY <1>3, <2>3 DEF Known
  <2> QED
    BY <2>1, <2>2, <2>3
<1>5. Shown(e) \subseteq File
  BY <1>2 DEF Shown, Typed, TypeOK
<1>6. Lines(e) \in Nat /\ (Lines(e) <= MaxLogLines \/ Lines(e) = 1)
  BY FrontEndAssumption DEF Lines, Typed, TypeOK
<1> QED
  BY <1>4, <1>5, <1>6

\* The front end has ended, or ends by itself.
Rests ==
  /\ UNCHANGED <<engineVars, command, connected, downloaded, panel, rows, journal, reported>>
  /\ outcome' = outcome \/ outcome' \in {"timeout", "interrupted", "quit"}

\* The kinds of steps there are.
LEMMA Steps ==
  ASSUME [Next]_vars
  PROVE  \/ Running /\ LoopSends /\ UNCHANGED frontVars
         \/ Running /\ (EngineStarts \/ SpawnReconcile \/ Happening) /\ UNCHANGED frontVars
         \/ Running /\ \E t \in DOMAIN tasks : TaskSends(t) /\ UNCHANGED frontVars
         \/ Running /\ \E t \in DOMAIN tasks : TaskStep(t) /\ ~TaskSends(t) /\ UNCHANGED frontVars
         \/ Running /\ ui # <<>> /\ FetchEvent(Head(ui))
         \/ Running /\ ui # <<>> /\ TerminalEvent(Head(ui))
         \/ Rests
<1>1. CASE Running /\ EngineStep /\ UNCHANGED frontVars
  BY <1>1 DEF EngineStep, LoopStep
<1>2. CASE FrontStep
  BY <1>2 DEF FrontStep
<1>3. ASSUME NEW why \in {"timeout", "interrupted"}, FetchGivesUp(why)
      PROVE  Rests
  BY <1>3 DEF FetchGivesUp, Rests
<1>4. CASE Quit
  BY <1>4 DEF Quit, Rests
<1>5. CASE UNCHANGED vars
  BY <1>5 DEF vars, frontVars, Rests
<1> QED
  BY <1>1, <1>2, <1>3, <1>4, <1>5 DEF Next, Ended

LEMMA StepTyped == Typed /\ [Next]_vars => Typed'
<1> SUFFICES ASSUME Typed, [Next]_vars PROVE Typed'
  OBVIOUS
<1>1. CASE LoopSends /\ UNCHANGED frontVars
  <2>1. ui' \in Seq(Event) /\ Len(ui') <= ChannelCapacity
    <3>1. Head(loopOut) \in Event /\ ui' = Append(ui, Head(loopOut)) /\ Len(ui) < ChannelCapacity
      BY <1>1, LoopSendsMoves
    <3> QED
      BY <3>1, Queueing, EngineAssumption DEF Typed, TypeOK, EngineTypeOK
  <2>2. loopOut' \in Seq(Event) /\ LoopSays'
    BY <1>1, LoopSendsMoves
  <2>3. UNCHANGED <<engine, spawns, near, tasks, applied>>
    BY <1>1 DEF LoopSends
  <2>4. TypeOK'
    BY <1>1, <2>1, <2>2, <2>3 DEF Typed, TypeOK, EngineTypeOK, frontVars
  <2> QED
    BY <2>2, <2>3, <2>4 DEF Typed, TasksFit
<1>2. CASE (EngineStarts \/ SpawnReconcile \/ Happening) /\ UNCHANGED frontVars
  BY <1>2, LoopTyped
<1>3. ASSUME NEW t \in DOMAIN tasks, TaskSends(t), UNCHANGED frontVars
      PROVE  Typed'
  <2>1. ui' \in Seq(Event) /\ Len(ui') <= ChannelCapacity
    <3>1. PICK e \in Event : ui' = Append(ui, e) /\ Len(ui) < ChannelCapacity
      BY <1>3, TaskSendsMoves
    <3> QED
      BY <3>1, Queueing, EngineAssumption DEF Typed, TypeOK, EngineTypeOK
  <2>2. /\ tasks' \in Seq(Task) /\ Len(tasks') = Len(tasks) /\ DOMAIN tasks' = DOMAIN tasks
        /\ \A u \in DOMAIN tasks : u # t => tasks'[u] = tasks[u]
        /\ JobFits(tasks'[t]) /\ Says(tasks'[t])
        /\ UNCHANGED <<engine, loopOut, spawns, near, applied>>
    BY <1>3, TaskSendsMoves
  <2>3. TypeOK'
    BY <1>3, <2>1, <2>2 DEF Typed, TypeOK, EngineTypeOK, frontVars
  <2>4. TasksFit' /\ LoopSays'
    BY <2>2 DEF Typed, TasksFit, LoopSays
  <2> QED
    BY <2>3, <2>4 DEF Typed
<1>4. ASSUME NEW t \in DOMAIN tasks, TaskStep(t), ~TaskSends(t), UNCHANGED frontVars
      PROVE  Typed'
  <2>1. Moved(t)
    BY <1>4, TaskStepMoves
  <2>2. applied \in [File -> {"nothing", "received", "removed"}]
    BY DEF Typed, TypeOK, EngineTypeOK
  <2>3. applied' \in [File -> {"nothing", "received", "removed"}]
    <3>1. CASE UNCHANGED applied
      BY <2>2, <3>1
    <3>2. CASE IndexFile(t)
      BY <2>2, <3>2, IndexFileMoves
    <3>3. CASE RemoveFile(t)
      BY <2>2, <3>3, RemoveFileMoves
    <3> QED
      BY <1>4, <3>1, <3>2, <3>3, TaskStepMoves
  <2> QED
    BY <1>4, <2>1, <2>3, MovedTyped
<1>5. CASE ui # <<>> /\ (FetchEvent(Head(ui)) \/ TerminalEvent(Head(ui)))
  <2>1. Receive(Head(ui))
    BY <1>5 DEF FetchEvent, TerminalEvent
  <2>2. /\ Head(ui) \in Event
        /\ ui' \in Seq(Event) /\ Len(ui') <= ChannelCapacity
        /\ reported' \in [File -> {"nothing", "received", "removed"}]
        /\ UNCHANGED <<engine, loopOut, spawns, near, tasks, applied, command>>
    BY <1>5, <2>1, ReceiveMoves
  <2>3. EngineTypeOK'
    BY <2>2 DEF Typed, TypeOK, EngineTypeOK
  <2>4. TypeOK'
    <3>1. CASE FetchEvent(Head(ui))
      BY <2>2, <2>3, <3>1 DEF FetchEvent, Typed, TypeOK
    <3>2. CASE TerminalEvent(Head(ui))
      BY <2>2, <2>3, <3>2, PictureTyped DEF TerminalEvent, Typed, TypeOK
    <3> QED
      BY <1>5, <3>1, <3>2
  <2> QED
    BY <2>2, <2>4 DEF Typed, TasksFit, LoopSays
<1>6. CASE Rests
  <2>1. TypeOK'
    BY <1>6 DEF Rests, Typed, TypeOK, EngineTypeOK, engineVars
  <2> QED
    BY <1>6, <2>1 DEF Rests, Typed, TasksFit, LoopSays, engineVars
<1> QED
  BY <1>1, <1>2, <1>3, <1>4, <1>5, <1>6, Steps

\* Types: the channel never holds more than its capacity, the journal never more lines
\* than its limit, or one, and a task is never elsewhere than at an await of its job.
THEOREM FrontEndTypeCorrect == Spec => []TypeOK
<1>1. Init => Typed
  BY InitTyped
<1>2. Typed /\ [Next]_vars => Typed'
  BY StepTyped
<1>3. Typed => TypeOK
  BY DEF Typed
<1> QED
  BY <1>1, <1>2, <1>3, PTL DEF Spec

-----------------------------------------------------------------------------
(* What the channel, the tasks that send and the front end hold together *)

Reporting(t) == tasks[t].at = "reported" /\ tasks[t].out # <<>>

\* Task t has changed the index and is about to say so of f.
Reports(t, kind, f) == Reporting(t) /\ tasks[t].out[1] = OnFile(kind, f)

\* The lock has one holder.
OneReporter == \A t, u \in DOMAIN tasks : Reporting(t) /\ Reporting(u) => t = u

\* What the index took over last of a file is about to be said, or was said last.
IndexTold ==
  \A f \in File :
    \/ \E t \in DOMAIN tasks : applied[f] \in ReportKinds /\ Reports(t, applied[f], f)
    \/ /\ \A t \in DOMAIN tasks, kind \in ReportKinds : ~Reports(t, kind, f)
       /\ Newest(ui, ReportKinds, f, applied[f], reported[f])

\* The front end will have been told that f came once it has taken the first n - 1 events.
Received(f, n) ==
  reported[f] # "nothing" \/ \E j \in DOMAIN ui : j < n /\ ui[j] = OnFile("received", f)

Told(f) == Received(f, Len(ui) + 1)

Early == {"hash", "compare", "tree", "diff", "failed", "decide", "remove"}
Fetching == {"chunks", "write", "index"}

Accounted(t, f) ==
  \/ f \in tasks[t].todo \cup Excluded \cup tasks[t].missed
  \/ f = tasks[t].path /\ tasks[t].at \in Fetching
  \/ Reports(t, "received", f)
  \/ Told(f)

\* Every file of a reconciliation's list is still to come, was left out, or was told.
TaskTold(t) ==
  /\ tasks[t].at \in Early => tasks[t].offered = {} /\ tasks[t].todo = {}
  /\ tasks[t].at = "done" => tasks[t].todo = {}
  /\ \A f \in tasks[t].offered : Accounted(t, f)

FilesTold == \A t \in DOMAIN tasks : TaskTold(t)

Whole(t, n) ==
  tasks[t].at = "done" /\ \A f \in tasks[t].offered \ (Excluded \cup tasks[t].missed) : Received(f, n)

EndsTold ==
  \A n \in DOMAIN ui, p \in Peer :
    ui[n] = Reconciled(p) => \E t \in ReconcileOf(p) : Whole(t, n)

\* A line with the word "failed" follows its cause.
Caused(n) ==
  \/ \E t \in DOMAIN tasks : tasks[t].at = "failed"
  \/ \E f \in NamedFailed : Received(f, n)

FailuresTold == \A n \in DOMAIN ui : ui[n] = Log("failed") => Caused(n)

\* Task t has begun to fetch f, and its end was not told.
TaskLive(t, f) ==
  \/ tasks[t].path = f /\ tasks[t].at \in Fetching
  \/ Reports(t, "received", f)
  \/ f \in tasks[t].missed

Live(f) == \E t \in DOMAIN tasks : TaskLive(t, f)

EndComes(f, n) == Live(f) \/ \E j \in DOMAIN ui : j > n /\ ui[j] = OnFile("received", f)

RowsLive ==
  /\ \A f \in File, n \in DOMAIN ui : ui[n] = OnFile("started", f) => EndComes(f, n)
  /\ \A f \in rows : EndComes(f, 0)
  /\ command = "fetch" => rows = {}

PeerKinds == {"connected", "disconnected"}
NearKind(p) == IF p \in near THEN "connected" ELSE "disconnected"
PanelKind(p) ==
  IF \E i \in DOMAIN panel : panel[i][1] = p /\ panel[i][2] = TRUE
  THEN "connected" ELSE "disconnected"

\* The newest word about a peer, the loop's included, is its connection.
PeerTold(p) ==
  IF loopOut # <<>> /\ loopOut[1] \in {Connected(p), Disconnected(p)}
  THEN loopOut[1][1] = NearKind(p)
  ELSE Newest(ui, PeerKinds, p, NearKind(p), PanelKind(p))

PeersTold ==
  /\ \A i, j \in DOMAIN panel : panel[i][1] = panel[j][1] => i = j
  /\ command = "share" => \A p \in Peer : PeerTold(p)

-----------------------------------------------------------------------------
(* The reports of the index: the lock orders them *)

\* The tasks about to report the index are the same before and after.
SameReporters ==
  /\ \A u \in DOMAIN tasks' : Reporting(u)' => u \in DOMAIN tasks /\ tasks'[u] = tasks[u]
  /\ \A u \in DOMAIN tasks : Reporting(u) => u \in DOMAIN tasks' /\ tasks'[u] = tasks[u]

LEMMA SameReportersTold ==
  ASSUME OneReporter, IndexTold, SameReporters, UNCHANGED applied,
         \A f \in File : Newest(ui, ReportKinds, f, applied[f], reported[f])
                           => Newest(ui, ReportKinds, f, applied[f], reported[f])'
  PROVE  OneReporter' /\ IndexTold'
<1>1. OneReporter'
  BY DEF OneReporter, SameReporters, Reporting
<1>2. ASSUME NEW f \in File
      PROVE  \/ \E t \in DOMAIN tasks' : applied'[f] \in ReportKinds /\ Reports(t, applied[f], f)'
             \/ /\ \A t \in DOMAIN tasks', kind \in ReportKinds : ~Reports(t, kind, f)'
                /\ Newest(ui, ReportKinds, f, applied[f], reported[f])'
  <2>1. CASE \E t \in DOMAIN tasks : applied[f] \in ReportKinds /\ Reports(t, applied[f], f)
    BY <2>1 DEF SameReporters, Reports, Reporting
  <2>2. CASE /\ \A t \in DOMAIN tasks, kind \in ReportKinds : ~Reports(t, kind, f)
             /\ Newest(ui, ReportKinds, f, applied[f], reported[f])
    BY <2>2 DEF SameReporters, Reports, Reporting
  <2> QED
    BY <2>1, <2>2 DEF IndexTold
<1> QED
  BY <1>1, <1>2 DEF IndexTold

\* An event that reports no change of the index leaves what was said last of each file.
LEMMA OtherEventTold ==
  ASSUME Typed, NEW e \in Event, e[1] \notin ReportKinds, ui' = Append(ui, e),
         UNCHANGED <<applied, reported>>
  PROVE  \A f \in File : Newest(ui, ReportKinds, f, applied[f], reported[f])
                           => Newest(ui, ReportKinds, f, applied[f], reported[f])'
<1> SUFFICES ASSUME NEW f \in File, Newest(ui, ReportKinds, f, applied[f], reported[f])
             PROVE  Newest(ui', ReportKinds, f, applied[f], reported[f])
  BY DEF Newest
<1> QED
  BY NewestAppend DEF Typed, TypeOK, EngineTypeOK

LEMMA TaskReportTold ==
  ASSUME Typed, OneReporter, IndexTold, NEW t \in DOMAIN tasks, Reporting(t), TaskSends(t),
         UNCHANGED reported
  PROVE  OneReporter' /\ IndexTold'
<1> DEFINE k == tasks[t]
           e == Head(k.out)
<1>1. /\ DOMAIN tasks' = DOMAIN tasks
      /\ \A u \in DOMAIN tasks : u # t => tasks'[u] = tasks[u]
      /\ e \in Event /\ ui' = Append(ui, e)
      /\ k.out # <<>> /\ Sends(k, e, tasks'[t].out)
      /\ UNCHANGED applied
  BY TaskSendsMoves
<1>2. k.at = "reported" /\ k \in Task /\ Says(k) /\ JobFits(k) /\ e = k.out[1]
  BY <1>1, TaskKnown DEF Reporting
<1>3. ui \in Seq(Event) /\ k.path \in File /\ (k.job[1] = "deleted" => k.job[2] \in File)
  BY <1>2, TaskKnown DEF Typed, TypeOK, EngineTypeOK, Task
<1>4. \A u \in DOMAIN tasks : u # t => ~Reporting(u) /\ ~Reporting(u)'
  BY <1>1 DEF OneReporter, Reporting
<1>5. OneReporter'
  BY <1>1, <1>4 DEF OneReporter, Reporting
<1>6. \A kind, f : Reports(t, kind, f) <=> e = OnFile(kind, f)
  BY <1>2 DEF Reports
<1>7. \A kind \in ReportKinds, f \in File : ~Reports(t, kind, f)'
  <2>1. tasks'[t].out = <<>> \/ tasks'[t].out = <<Synced(k.path)>>
    BY <1>1, <1>2 DEF Sends
  <2> QED
    BY <2>1 DEF Reports, Reporting, Synced, Log, OnFile, ReportKinds
<1>8. \A u \in DOMAIN tasks', kind \in ReportKinds, f \in File : ~Reports(u, kind, f)'
  BY <1>1, <1>4, <1>7 DEF Reports
<1>9. ASSUME NEW f \in File
      PROVE  Newest(ui', ReportKinds, f, applied[f], reported[f])
  <2>1. CASE \E kind \in ReportKinds : e = OnFile(kind, f)
    <3>1. PICK kind \in ReportKinds : e = OnFile(kind, f)
      BY <2>1
    <3>2. Reports(t, kind, f)
      BY <1>6, <3>1
    <3>3. applied[f] \in ReportKinds /\ Reports(t, applied[f], f)
      BY <1>4, <3>2 DEF IndexTold, Reports
    <3>4. e[1] = applied[f] /\ e[1] \in ReportKinds /\ e[2] = f
      BY <1>6, <3>3 DEF OnFile
    <3> QED
      BY <1>1, <1>3, <3>4, NewestAppend
  <2>2. CASE \A kind \in ReportKinds : e # OnFile(kind, f)
    <3>1. e[1] \notin ReportKinds \/ e[2] # f
      BY <1>1, <1>2, <2>2 DEF Sends, Synced, Log, OnFile, ReportKinds
    <3>2. \A u \in DOMAIN tasks, kind \in ReportKinds : ~Reports(u, kind, f)
      BY <1>4, <1>6, <2>2 DEF Reports
    <3>3. Newest(ui, ReportKinds, f, applied[f], reported[f])
      BY <3>2 DEF IndexTold
    <3> QED
      BY <1>1, <1>3, <3>1, <3>3, NewestAppend
  <2> QED
    BY <2>1, <2>2
<1>10. \A f \in File : Newest(ui, ReportKinds, f, applied[f], reported[f])'
  BY <1>1, <1>9 DEF Newest
<1> QED
  BY <1>5, <1>8, <1>10 DEF IndexTold

\* The lock was free, so that no report of the file is outstanding when the next change
\* of the index is made.
LEMMA IndexChangeTold ==
  ASSUME Typed, OneReporter, IndexTold, NEW t \in DOMAIN tasks, IndexFile(t) \/ RemoveFile(t),
         UNCHANGED reported
  PROVE  OneReporter' /\ IndexTold'
<1>1. PICK f \in File, kind \in ReportKinds :
        /\ Moved(t) /\ ~Locked
        /\ applied' = [applied EXCEPT ![f] = kind]
        /\ tasks'[t].at = "reported"
        /\ tasks'[t].out # <<>> /\ tasks'[t].out[1] = OnFile(kind, f)
  <2>1. CASE IndexFile(t)
    BY <2>1, IndexFileMoves DEF ReportKinds
  <2>2. CASE RemoveFile(t)
    BY <2>2, RemoveFileMoves DEF ReportKinds
  <2> QED
    BY <2>1, <2>2
<1>2. /\ DOMAIN tasks' = DOMAIN tasks /\ ui' = ui
      /\ \A u \in DOMAIN tasks : u # t => tasks'[u] = tasks[u]
  BY <1>1 DEF Moved
<1>3. \A u \in DOMAIN tasks : ~Reporting(u)
  BY <1>1 DEF Locked, Reporting
<1>4. \A u \in DOMAIN tasks : u # t => ~Reporting(u)'
  BY <1>2, <1>3 DEF Reporting
<1>5. OneReporter'
  BY <1>2, <1>4 DEF OneReporter
<1>6. Reports(t, kind, f)'
  BY <1>1 DEF Reports, Reporting
<1>7. applied \in [File -> {"nothing", "received", "removed"}]
  BY DEF Typed, TypeOK, EngineTypeOK
<1>8. ASSUME NEW g \in File
      PROVE  \/ \E u \in DOMAIN tasks' : applied'[g] \in ReportKinds /\ Reports(u, applied[g], g)'
             \/ /\ \A u \in DOMAIN tasks', other \in ReportKinds : ~Reports(u, other, g)'
                /\ Newest(ui, ReportKinds, g, applied[g], reported[g])'
  <2>1. CASE g = f
    <3>1. applied'[g] = kind
      BY <1>1, <1>7, <2>1
    <3>2. Reports(t, applied[g], g)'
      BY <1>6, <2>1, <3>1 DEF Reports
    <3> QED
      BY <1>2, <3>1, <3>2
  <2>2. CASE g # f
    <3>1. applied'[g] = applied[g]
      BY <1>1, <1>7, <2>2
    <3>2. \A u \in DOMAIN tasks', other \in ReportKinds : ~Reports(u, other, g)'
      BY <1>1, <1>2, <1>4, <2>2 DEF Reports, OnFile
    <3>3. Newest(ui, ReportKinds, g, applied[g], reported[g])
      BY <1>3 DEF IndexTold, Reports
    <3> QED
      BY <1>2, <3>1, <3>2, <3>3 DEF Newest
  <2> QED
    BY <2>1, <2>2
<1> QED
  BY <1>5, <1>8 DEF IndexTold

LEMMA IndexToldStep ==
  ASSUME Typed, OneReporter, IndexTold, [Next]_vars
  PROVE  OneReporter' /\ IndexTold'
<1>1. CASE LoopSends /\ UNCHANGED frontVars
  <2>1. /\ Head(loopOut) \in Event /\ ui' = Append(ui, Head(loopOut))
        /\ Head(loopOut)[1] \notin ReportKinds
    BY <1>1, LoopSendsMoves DEF FileKinds, ReportKinds
  <2>2. UNCHANGED <<tasks, applied, reported>>
    BY <1>1 DEF LoopSends, frontVars
  <2>3. SameReporters
    BY <2>2 DEF SameReporters, Reporting
  <2> QED
    BY <2>1, <2>2, <2>3, OtherEventTold, SameReportersTold
<1>2. CASE (EngineStarts \/ SpawnReconcile \/ Happening) /\ UNCHANGED frontVars
  <2>1. Grown /\ UNCHANGED <<ui, applied, reported>>
    BY <1>2, LoopTyped DEF frontVars
  <2>2. SameReporters
    BY <2>1 DEF Grown, Fresh, SameReporters, Reporting
  <2> QED
    BY <2>1, <2>2, SameReportersTold DEF Newest
<1>3. ASSUME NEW t \in DOMAIN tasks, TaskSends(t), UNCHANGED frontVars
      PROVE  OneReporter' /\ IndexTold'
  <2>1. CASE Reporting(t)
    BY <1>3, <2>1, TaskReportTold DEF frontVars
  <2>2. CASE ~Reporting(t)
    <3>1. /\ DOMAIN tasks' = DOMAIN tasks
          /\ \A u \in DOMAIN tasks : u # t => tasks'[u] = tasks[u]
          /\ Head(tasks[t].out) \in Event /\ ui' = Append(ui, Head(tasks[t].out))
          /\ tasks[t].out # <<>> /\ Sends(tasks[t], Head(tasks[t].out), tasks'[t].out)
          /\ tasks'[t].at = tasks[t].at
          /\ UNCHANGED <<applied, reported>>
      BY <1>3, TaskSendsMoves DEF frontVars
    <3>2. tasks[t].at # "reported"
      BY <2>2, <3>1 DEF Reporting
    <3>3. SameReporters
      BY <2>2, <3>1, <3>2 DEF SameReporters, Reporting
    <3>4. Head(tasks[t].out)[1] \notin ReportKinds
      BY <3>1, <3>2 DEF Sends, OnFile, Log, Reconciled, ReportKinds
    <3> QED
      BY <3>1, <3>3, <3>4, OtherEventTold, SameReportersTold
  <2> QED
    BY <2>1, <2>2
<1>4. ASSUME NEW t \in DOMAIN tasks, TaskStep(t), ~TaskSends(t), UNCHANGED frontVars
      PROVE  OneReporter' /\ IndexTold'
  <2>1. CASE IndexFile(t) \/ RemoveFile(t)
    BY <1>4, <2>1, IndexChangeTold DEF frontVars
  <2>2. CASE ~(IndexFile(t) \/ RemoveFile(t))
    <3>1. /\ Moved(t) /\ tasks[t].out = <<>> /\ tasks'[t].at # "reported"
          /\ UNCHANGED <<applied, reported>>
      BY <1>4, <2>2, TaskStepMoves DEF frontVars
    <3>2. SameReporters /\ UNCHANGED ui
      BY <3>1 DEF Moved, SameReporters, Reporting
    <3> QED
      BY <3>1, <3>2, SameReportersTold DEF Newest
  <2> QED
    BY <2>1, <2>2
<1>5. CASE ui # <<>> /\ (FetchEvent(Head(ui)) \/ TerminalEvent(Head(ui)))
  <2>1. Receive(Head(ui))
    BY <1>5 DEF FetchEvent, TerminalEvent
  <2>2. /\ ui' = Tail(ui)
        /\ \A f \in File : reported'[f] = IF Head(ui)[1] \in ReportKinds /\ Head(ui)[2] = f
                                          THEN Head(ui)[1] ELSE reported[f]
        /\ UNCHANGED <<tasks, applied>>
    BY <1>5, <2>1, ReceiveMoves
  <2>3. ASSUME NEW f \in File, Newest(ui, ReportKinds, f, applied[f], reported[f])
        PROVE  Newest(ui, ReportKinds, f, applied[f], reported[f])'
    <3>1. ui \in Seq(Event)
      BY DEF Typed, TypeOK, EngineTypeOK
    <3>2. Newest(ui', ReportKinds, f, applied[f], reported'[f])
      BY <1>5, <2>2, <2>3, <3>1, NewestTail
    <3> QED
      BY <2>2, <3>2 DEF Newest
  <2>4. SameReporters
    BY <2>2 DEF SameReporters, Reporting
  <2> QED
    BY <2>2, <2>3, <2>4, SameReportersTold
<1>6. CASE Rests
  <2>1. UNCHANGED <<tasks, applied, ui, reported>>
    BY <1>6 DEF Rests, engineVars
  <2>2. SameReporters
    BY <2>1 DEF SameReporters, Reporting
  <2> QED
    BY <2>1, <2>2, SameReportersTold DEF Newest
<1> QED
  BY <1>1, <1>2, <1>3, <1>4, <1>5, <1>6, Steps

LEMMA InitIndexTold == Init => OneReporter /\ IndexTold
<1> SUFFICES ASSUME Init PROVE OneReporter /\ IndexTold
  OBVIOUS
<1>1. DOMAIN tasks = {} /\ DOMAIN ui = {} /\ \A f \in File : applied[f] = reported[f]
  BY DEF Init, EngineInit
<1> QED
  BY <1>1 DEF OneReporter, IndexTold, Newest

\* Once every event was taken, what was reported last of a file is what the index did
\* to it last (ReportsFollowIndex), whatever tasks run and however small the channel is:
\* fetch_and_apply and the notification of a deletion hold the index lock while they
\* report.
THEOREM ReportsAreTrue == Spec => []ReportsFollowIndex
<1> DEFINE Told0 == Typed /\ OneReporter /\ IndexTold
<1>1. Init => Told0
  BY InitTyped, InitIndexTold
<1>2. Told0 /\ [Next]_vars => Told0'
  BY StepTyped, IndexToldStep
<1>3. Told0 => ReportsFollowIndex
  BY DEF ReportsFollowIndex, IndexTold, Locked, Reports, Reporting
<1> QED
  BY <1>1, <1>2, <1>3, PTL DEF Spec

-----------------------------------------------------------------------------
(* The files of a reconciliation: none is lost between its list and its end *)

\* What the front end was told, or will be told by the events in the channel, stays so.
TellsMore == \A f \in File : Told(f) => Told(f)'

LEMMA AppendTells ==
  ASSUME Typed, NEW e \in Event, ui' = Append(ui, e), UNCHANGED reported
  PROVE  /\ Len(ui) \in Nat /\ Len(ui') = Len(ui) + 1
         /\ DOMAIN ui = 1 .. Len(ui) /\ DOMAIN ui' = 1 .. Len(ui) + 1
         /\ \A n \in DOMAIN ui : ui'[n] = ui[n]
         /\ ui'[Len(ui) + 1] = e
         /\ \A f, n : Received(f, n) => Received(f, n)'
         /\ TellsMore
         /\ \A f \in File : \A n : n = Len(ui) + 1 /\ Told(f) => Received(f, n)'
         /\ \A f \in File : e = OnFile("received", f) => Told(f)'
<1>1. /\ Len(ui) \in Nat /\ Len(ui') = Len(ui) + 1
      /\ DOMAIN ui = 1 .. Len(ui) /\ DOMAIN ui' = 1 .. Len(ui) + 1
      /\ \A n \in 1 .. Len(ui) : ui'[n] = ui[n]
      /\ ui'[Len(ui) + 1] = e
  BY Queueing DEF Typed, TypeOK, EngineTypeOK
<1>2. ASSUME NEW f, NEW n, Received(f, n)
      PROVE  Received(f, n)'
  <2>1. CASE reported[f] # "nothing"
    BY <2>1 DEF Received
  <2>2. CASE \E j \in DOMAIN ui : j < n /\ ui[j] = OnFile("received", f)
    <3>1. PICK j \in DOMAIN ui : j < n /\ ui[j] = OnFile("received", f)
      BY <2>2
    <3>2. j \in DOMAIN ui' /\ ui'[j] = ui[j]
      BY <1>1
    <3> QED
      BY <3>1, <3>2 DEF Received
  <2> QED
    BY <1>2, <2>1, <2>2 DEF Received
<1>3. ASSUME NEW f \in File, NEW n, n = Len(ui) + 1, Told(f)
      PROVE  Received(f, n)'
  BY <1>2, <1>3 DEF Told
<1>4. ASSUME NEW f \in File, Told(f) \/ e = OnFile("received", f)
      PROVE  Told(f)'
  <2> SUFFICES ASSUME reported[f] = "nothing"
               PROVE  \E j \in DOMAIN ui' : j < Len(ui') + 1 /\ ui'[j] = OnFile("received", f)
    BY DEF Told, Received
  <2>1. \/ \E j \in DOMAIN ui : ui[j] = OnFile("received", f)
        \/ e = OnFile("received", f)
    BY <1>4 DEF Told, Received
  <2>2. \A j \in DOMAIN ui' : j < Len(ui') + 1
    BY <1>1
  <2>3. \A j \in DOMAIN ui : j \in DOMAIN ui' /\ ui'[j] = ui[j]
    BY <1>1
  <2>4. Len(ui) + 1 \in DOMAIN ui'
    BY <1>1
  <2> QED
    BY <1>1, <2>1, <2>2, <2>3, <2>4
<1> QED
  BY <1>1, <1>2, <1>3, <1>4 DEF TellsMore

LEMMA TakeTells ==
  ASSUME Typed, ui # <<>>, Receive(Head(ui))
  PROVE  /\ \A f \in File, n \in Nat : Received(f, n + 1) => Received(f, n)'
         /\ TellsMore
<1>1. /\ Head(ui) = ui[1]
      /\ Len(ui) \in Nat /\ Len(ui) >= 1 /\ Len(ui') = Len(ui) - 1
      /\ DOMAIN ui = 1 .. Len(ui) /\ DOMAIN ui' = 1 .. Len(ui) - 1
      /\ \A i \in DOMAIN ui' : i + 1 \in DOMAIN ui /\ ui'[i] = ui[i + 1]
      /\ \A f \in File : reported'[f] = IF Head(ui)[1] \in ReportKinds /\ Head(ui)[2] = f
                                        THEN Head(ui)[1] ELSE reported[f]
  BY ReceiveMoves
<1>2. ASSUME NEW f \in File, NEW n \in Nat, Received(f, n + 1)
      PROVE  Received(f, n)'
  <2>1. CASE reported[f] # "nothing"
    BY <1>1, <2>1 DEF Received, ReportKinds
  <2>2. CASE \E j \in DOMAIN ui : j < n + 1 /\ ui[j] = OnFile("received", f)
    <3>1. PICK j \in DOMAIN ui : j < n + 1 /\ ui[j] = OnFile("received", f)
      BY <2>2
    <3>2. CASE j = 1
      BY <1>1, <3>1, <3>2 DEF Received, OnFile, ReportKinds
    <3>3. CASE j # 1
      <4>1. j - 1 \in DOMAIN ui' /\ (j - 1) + 1 = j /\ j - 1 < n
        BY <1>1, <3>1, <3>3
      <4>2. ui'[j - 1] = OnFile("received", f)
        BY <1>1, <3>1, <4>1
      <4> QED
        BY <4>1, <4>2 DEF Received
    <3> QED
      BY <3>2, <3>3
  <2> QED
    BY <1>2, <2>1, <2>2 DEF Received
<1>3. ASSUME NEW f \in File, Told(f)
      PROVE  Told(f)'
  <2>1. PICK n \in Nat : n = Len(ui)
    BY <1>1
  <2>3. Received(f, n + 1) /\ Len(ui') + 1 = n
    BY <1>1, <1>3, <2>1 DEF Told
  <2>2. Received(f, n)'
    BY <1>2, <2>3
  <2> QED
    BY <2>2, <2>3 DEF Told, Received
<1> QED
  BY <1>2, <1>3 DEF TellsMore

\* A task that has come to its end stays there.
SettledStays ==
  \A u \in DOMAIN tasks :
    Settled(u) =>
      /\ u \in DOMAIN tasks'
      /\ tasks'[u].at = tasks[u].at /\ tasks'[u].job = tasks[u].job
      /\ tasks'[u].offered = tasks[u].offered /\ tasks'[u].missed = tasks[u].missed

LEMMA TaskStays ==
  ASSUME Typed, NEW u \in DOMAIN tasks, TaskTold(u), TellsMore, u \in DOMAIN tasks',
         tasks'[u] = tasks[u]
  PROVE  TaskTold(u)'
<1>1. tasks[u].offered \subseteq File
  BY TaskKnown DEF Task
<1>2. \A f \in tasks[u].offered : Accounted(u, f) => Accounted(u, f)'
  BY <1>1 DEF Accounted, Reports, Reporting, TellsMore
<1> QED
  BY <1>2 DEF TaskTold

LEMMA FreshTold ==
  ASSUME NEW u \in DOMAIN tasks', Fresh(tasks'[u])
  PROVE  TaskTold(u)'
BY DEF Fresh, TaskTold, Early

\* Whatever a task's step is, no file drops from its account.
LEMMA TaskStepTold ==
  ASSUME Typed, NEW t \in DOMAIN tasks, TaskTold(t), TellsMore, TaskStep(t), ~TaskSends(t)
  PROVE  TaskTold(t)'
<1> DEFINE k == tasks[t]
           n == tasks'[t]
<1>0. k.offered \subseteq File /\ k.todo \subseteq File
  BY TaskKnown DEF Task
<1>a. \A f : Reports(t, "received", f) => k.out # <<>> /\ k.at = "reported"
  BY DEF Reports, Reporting
<1>b. /\ k.at \in Early => k.offered = {} /\ k.todo = {}
      /\ k.at = "done" => k.todo = {}
      /\ \A f \in k.offered :
           \/ f \in k.todo \/ f \in Excluded \/ f \in k.missed
           \/ f = k.path /\ k.at \in Fetching
           \/ k.out # <<>>
           \/ Told(f)'
  BY <1>0, <1>a DEF TaskTold, Accounted, TellsMore
<1> DEFINE Kept ==
             /\ n.at \in Early => n.offered = {} /\ n.todo = {}
             /\ n.at = "done" => n.todo = {}
             /\ \A f \in n.offered :
                  \/ f \in n.todo \/ f \in Excluded \/ f \in n.missed
                  \/ f = n.path /\ n.at \in Fetching
                  \/ n.at = "reported" /\ n.out # <<>> /\ n.out[1] = OnFile("received", f)
                  \/ Told(f)'
<1>c. SUFFICES Kept
  BY DEF TaskTold, Accounted, Reports, Reporting
<1> HIDE DEF n
<1> USE DEF Early, Fetching
<1>1. CASE HashReply(t)
  BY <1>b, <1>1, HashReplyMoves DEF n
<1>2. CASE TreeReply(t)
  BY <1>b, <1>2, TreeReplyMoves DEF n
<1>3. CASE RequestFails(t)
  BY <1>b, <1>3, RequestFailsMoves DEF n
<1>4. ASSUME NEW same \in BOOLEAN, CompareRoots(t, same)
      PROVE  Kept
  BY <1>b, <1>4, CompareRootsMoves DEF n
<1>5. ASSUME NEW files \in SUBSET File, Diff(t, files)
      PROVE  Kept
  BY <1>b, <1>5, DiffMoves DEF n
<1>6. ASSUME NEW verdict \in {"accept", "conflict", "reject"}, NEW to \in File,
             Decide(t, verdict, to)
      PROVE  Kept
  BY <1>b, <1>6, DecideMoves DEF n
<1>7. ASSUME NEW f \in File, FetchNext(t, f)
      PROVE  Kept
  BY <1>b, <1>7, FetchNextMoves DEF n
<1>8. ASSUME NEW fits \in BOOLEAN, ChunksReply(t, fits)
      PROVE  Kept
  BY <1>b, <1>8, ChunksReplyMoves DEF n
<1>9. CASE TransferFails(t)
  BY <1>b, <1>9, TransferFailsMoves DEF n
<1>10. CASE WriteFile(t)
  BY <1>b, <1>10, WriteFileMoves DEF n
<1>11. CASE IndexFile(t)
  <2>1. /\ n.at = "reported" /\ n.out = <<OnFile("received", k.path), Synced(k.path)>>
        /\ k.at = "index" /\ k.out = <<>> /\ n.todo = k.todo /\ n.path = k.path
        /\ n.offered = k.offered /\ n.missed = k.missed
    BY <1>11, IndexFileMoves DEF n
  <2>2. n.out # <<>> /\ n.out[1] = OnFile("received", k.path)
    BY <2>1
  <2> QED
    BY <1>b, <2>1, <2>2
<1>12. CASE RemoveFile(t)
  BY <1>b, <1>12, RemoveFileMoves DEF n
<1>13. CASE EndTask(t)
  BY <1>b, <1>13, EndTaskMoves DEF n
<1> QED
  BY <1>1, <1>2, <1>3, <1>4, <1>5, <1>6, <1>7, <1>8, <1>9, <1>10, <1>11, <1>12, <1>13
     DEF TaskStep

LEMMA TaskSendsTold ==
  ASSUME Typed, NEW t \in DOMAIN tasks, TaskTold(t), TaskSends(t), UNCHANGED reported
  PROVE  TaskTold(t)' /\ TellsMore
<1> DEFINE k == tasks[t]
           n == tasks'[t]
           e == Head(k.out)
<1>1. /\ e \in Event /\ ui' = Append(ui, e) /\ k.out # <<>>
      /\ n.at = k.at /\ n.todo = k.todo /\ n.path = k.path
      /\ n.offered = k.offered /\ n.missed = k.missed
  BY TaskSendsMoves
<1>2. k \in Task /\ k.offered \subseteq File /\ e = k.out[1]
  BY <1>1, TaskKnown, Unqueueing DEF Task
<1>3. TellsMore /\ \A f \in File : e = OnFile("received", f) => Told(f)'
  BY <1>1, AppendTells
<1>4. \A f \in File : Reports(t, "received", f) => Told(f)'
  BY <1>2, <1>3 DEF Reports
<1>5. \A f \in n.offered : Accounted(t, f) => Accounted(t, f)'
  BY <1>1, <1>2, <1>3, <1>4 DEF Accounted, TellsMore
<1> QED
  BY <1>1, <1>3, <1>5 DEF TaskTold

\* Every step keeps the account of every task, and the tasks that are settled.
LEMMA FilesToldStep ==
  ASSUME Typed, FilesTold, [Next]_vars
  PROVE  FilesTold' /\ SettledStays /\ TellsMore
<1>0. \A u \in DOMAIN tasks : TaskTold(u)
  BY DEF FilesTold
<1>1. ASSUME TellsMore, UNCHANGED tasks
      PROVE  FilesTold' /\ SettledStays
  BY <1>0, <1>1, TaskStays DEF FilesTold, SettledStays
<1>2. ASSUME UNCHANGED <<ui, reported>>
      PROVE  TellsMore
  BY <1>2 DEF TellsMore, Told, Received
<1>3. CASE LoopSends /\ UNCHANGED frontVars
  <2>1. TellsMore
    BY <1>3, LoopSendsMoves, AppendTells DEF frontVars
  <2> QED
    BY <1>1, <1>3, <2>1 DEF LoopSends
<1>4. CASE (EngineStarts \/ SpawnReconcile \/ Happening) /\ UNCHANGED frontVars
  <2>1. Grown /\ UNCHANGED <<ui, reported>>
    BY <1>4, LoopTyped DEF frontVars
  <2>2. TellsMore
    BY <1>2, <2>1
  <2>3. FilesTold'
    BY <1>0, <2>1, <2>2, TaskStays, FreshTold DEF Grown, FilesTold
  <2> QED
    BY <2>1, <2>2, <2>3 DEF Grown, SettledStays
<1>5. ASSUME NEW t \in DOMAIN tasks, TaskSends(t), UNCHANGED frontVars
      PROVE  FilesTold' /\ SettledStays /\ TellsMore
  <2>1. /\ DOMAIN tasks' = DOMAIN tasks
        /\ \A u \in DOMAIN tasks : u # t => tasks'[u] = tasks[u]
        /\ tasks'[t].at = tasks[t].at /\ tasks'[t].job = tasks[t].job
        /\ tasks'[t].offered = tasks[t].offered /\ tasks'[t].missed = tasks[t].missed
    BY <1>5, TaskSendsMoves
  <2>2. TaskTold(t)' /\ TellsMore
    BY <1>0, <1>5, TaskSendsTold DEF frontVars
  <2>3. FilesTold'
    BY <1>0, <2>1, <2>2, TaskStays DEF FilesTold
  <2> QED
    BY <2>1, <2>2, <2>3 DEF SettledStays
<1>6. ASSUME NEW t \in DOMAIN tasks, TaskStep(t), ~TaskSends(t), UNCHANGED frontVars
      PROVE  FilesTold' /\ SettledStays /\ TellsMore
  <2>1. Moved(t) /\ ~Settled(t)
    BY <1>6, TaskStepMoves
  <2>2. TellsMore
    BY <1>2, <1>6, <2>1 DEF Moved, frontVars
  <2>3. TaskTold(t)'
    BY <1>0, <1>6, <2>2, TaskStepTold
  <2>4. FilesTold'
    BY <1>0, <2>1, <2>2, <2>3, TaskStays DEF Moved, FilesTold
  <2> QED
    BY <2>1, <2>2, <2>4 DEF Moved, SettledStays
<1>7. CASE ui # <<>> /\ (FetchEvent(Head(ui)) \/ TerminalEvent(Head(ui)))
  <2>1. Receive(Head(ui))
    BY <1>7 DEF FetchEvent, TerminalEvent
  <2>2. TellsMore /\ UNCHANGED tasks
    BY <1>7, <2>1, TakeTells, ReceiveMoves
  <2> QED
    BY <1>1, <2>2
<1>8. CASE Rests
  BY <1>1, <1>2, <1>8 DEF Rests, engineVars
<1> QED
  BY <1>3, <1>4, <1>5, <1>6, <1>7, <1>8, Steps
LEMMA InitFilesTold == Init => FilesTold
BY DEF Init, EngineInit, FilesTold

-----------------------------------------------------------------------------
(* What a fetch ends on *)

\* Of a reconciliation that ended, its list is the front end's once it has taken the
\* events before the end.
LEMMA WholeStays ==
  ASSUME SettledStays, NEW p \in Peer, NEW t \in ReconcileOf(p), NEW m, NEW n, Whole(t, m),
         \A f \in tasks[t].offered : Received(f, m) => Received(f, n)'
  PROVE  t \in ReconcileOf(p)' /\ Whole(t, n)'
<1>1. Settled(t) /\ t \in DOMAIN tasks
  BY DEF Settled, Whole, ReconcileOf
<1>2. /\ t \in DOMAIN tasks'
      /\ tasks'[t].at = tasks[t].at /\ tasks'[t].job = tasks[t].job
      /\ tasks'[t].offered = tasks[t].offered /\ tasks'[t].missed = tasks[t].missed
  BY <1>1 DEF SettledStays
<1> QED
  BY <1>2 DEF ReconcileOf, Whole

LEMMA ReconcileJob ==
  ASSUME NEW k \in Task, k.job[1] = "reconcile"
  PROVE  k.job = <<"reconcile", k.job[2]>>
<1>1. k.job \in {"reconcile"} \X Peer \/ k.job \in {"changed", "deleted"} \X File
  BY EngineAssumption DEF Task
<1> QED
  BY <1>1

LEMMA EndsToldStep ==
  ASSUME Typed, FilesTold, EndsTold, [Next]_vars
  PROVE  EndsTold'
<1>1. SettledStays /\ TellsMore
  BY FilesToldStep
<1>2. \A t \in DOMAIN tasks : tasks[t].offered \subseteq File
  BY TaskKnown DEF Task
\* An event is added, other than one that was in the channel.
<1>3. ASSUME NEW e \in Event, ui' = Append(ui, e), UNCHANGED reported,
             \A p \in Peer : e = Reconciled(p) => \E t \in ReconcileOf(p) : Whole(t, Len(ui) + 1)
      PROVE  EndsTold'
  <2>1. /\ DOMAIN ui = 1 .. Len(ui) /\ DOMAIN ui' = 1 .. Len(ui) + 1 /\ Len(ui) \in Nat
        /\ \A n \in DOMAIN ui : ui'[n] = ui[n]
        /\ ui'[Len(ui) + 1] = e
        /\ \A f, n : Received(f, n) => Received(f, n)'
    BY <1>3, AppendTells
  <2>2. ASSUME NEW n \in DOMAIN ui', NEW p \in Peer, ui'[n] = Reconciled(p)
        PROVE  \E t \in ReconcileOf(p)' : Whole(t, n)'
    <3>1. PICK t \in ReconcileOf(p) : Whole(t, n)
      <4>1. CASE n \in DOMAIN ui
        BY <2>1, <2>2, <4>1 DEF EndsTold
      <4>2. CASE n = Len(ui) + 1
        BY <1>3, <2>1, <2>2, <4>2
      <4> QED
        BY <2>1, <4>1, <4>2
    <3>2. t \in ReconcileOf(p)' /\ Whole(t, n)'
      BY <1>1, <2>1, <3>1, WholeStays
    <3> QED
      BY <3>2
  <2> QED
    BY <2>2 DEF EndsTold, ReconcileOf
<1>4. ASSUME UNCHANGED <<ui, reported>>
      PROVE  EndsTold'
  <2>1. ASSUME NEW n \in DOMAIN ui', NEW p \in Peer, ui'[n] = Reconciled(p)
        PROVE  \E t \in ReconcileOf(p)' : Whole(t, n)'
    <3>1. PICK t \in ReconcileOf(p) : Whole(t, n)
      BY <1>4, <2>1 DEF EndsTold
    <3>2. \A f : Received(f, n) => Received(f, n)'
      BY <1>4 DEF Received
    <3>3. t \in ReconcileOf(p)' /\ Whole(t, n)'
      BY <1>1, <3>1, <3>2, WholeStays
    <3> QED
      BY <3>3
  <2> QED
    BY <2>1 DEF EndsTold, ReconcileOf
<1>5. CASE LoopSends /\ UNCHANGED frontVars
  BY <1>3, <1>5, LoopSendsMoves DEF frontVars, Reconciled
<1>6. CASE (EngineStarts \/ SpawnReconcile \/ Happening) /\ UNCHANGED frontVars
  BY <1>4, <1>6, LoopTyped DEF frontVars
<1>7. ASSUME NEW t \in DOMAIN tasks, TaskSends(t), UNCHANGED frontVars
      PROVE  EndsTold'
  <2> DEFINE k == tasks[t]
             e == Head(k.out)
  <2>1. e \in Event /\ ui' = Append(ui, e) /\ UNCHANGED reported /\ Sends(k, e, tasks'[t].out)
    BY <1>7, TaskSendsMoves DEF frontVars
  <2>2. ASSUME NEW p \in Peer, e = Reconciled(p)
        PROVE  t \in ReconcileOf(p) /\ Whole(t, Len(ui) + 1)
    <3>1. k.job[1] = "reconcile" /\ k.job[2] = p /\ k.at = "done"
      BY <2>1, <2>2 DEF Sends, Reconciled, Log, OnFile, Synced
    <3>2. k.job = <<"reconcile", p>>
      BY <3>1, ReconcileJob, TaskKnown
    <3>3. \A f \in k.offered \ (Excluded \cup k.missed) : Told(f)
      BY <3>1 DEF FilesTold, TaskTold, Accounted, Fetching, Reports, Reporting
    <3> QED
      BY <3>1, <3>2, <3>3 DEF ReconcileOf, Whole, Told
  <2> QED
    BY <1>3, <2>1, <2>2
<1>8. ASSUME NEW t \in DOMAIN tasks, TaskStep(t), ~TaskSends(t), UNCHANGED frontVars
      PROVE  EndsTold'
  BY <1>4, <1>8, TaskStepMoves DEF Moved, frontVars
<1>9. CASE ui # <<>> /\ (FetchEvent(Head(ui)) \/ TerminalEvent(Head(ui)))
  <2>1. Receive(Head(ui))
    BY <1>9 DEF FetchEvent, TerminalEvent
  <2>2. /\ Len(ui) \in Nat /\ DOMAIN ui' = 1 .. Len(ui) - 1
        /\ \A i \in DOMAIN ui' : i + 1 \in DOMAIN ui /\ ui'[i] = ui[i + 1]
        /\ \A f \in File, n \in Nat : Received(f, n + 1) => Received(f, n)'
    BY <1>9, <2>1, ReceiveMoves, TakeTells
  <2>3. ASSUME NEW n \in DOMAIN ui', NEW p \in Peer, ui'[n] = Reconciled(p)
        PROVE  \E t \in ReconcileOf(p)' : Whole(t, n)'
    <3>1. PICK t \in ReconcileOf(p) : Whole(t, n + 1)
      BY <2>2, <2>3 DEF EndsTold
    <3>2. \A f \in tasks[t].offered : Received(f, n + 1) => Received(f, n)'
      BY <1>2, <2>2, <3>1 DEF ReconcileOf
    <3>3. t \in ReconcileOf(p)' /\ Whole(t, n)'
      BY <1>1, <3>1, <3>2, WholeStays
    <3> QED
      BY <3>3
  <2> QED
    BY <2>3 DEF EndsTold, ReconcileOf
<1>10. CASE Rests
  BY <1>4, <1>10 DEF Rests, engineVars
<1> QED
  BY <1>5, <1>6, <1>7, <1>8, <1>9, <1>10, Steps

LEMMA SuccessStep ==
  ASSUME Typed, FilesTold, EndsTold, SuccessIsWhole, [Next]_vars
  PROVE  SuccessIsWhole'
<1>1. CASE outcome' # "ok"
  BY <1>1 DEF SuccessIsWhole
<1>2. CASE outcome = "ok"
  <2>1. Rests
    BY <1>2, Steps DEF Running
  <2>2. UNCHANGED <<tasks, reported>>
    BY <2>1 DEF Rests, engineVars
  <2> QED
    BY <1>2, <2>2 DEF SuccessIsWhole, ReconcileOf
<1>3. CASE outcome # "ok" /\ outcome' = "ok"
  <2>1. ui # <<>> /\ FetchEvent(Head(ui))
    BY <1>3, Steps DEF frontVars, TerminalEvent, Rests
  <2>2. Head(ui) = Reconciled(Target) /\ Receive(Head(ui))
    BY <1>3, <2>1 DEF FetchEvent
  <2>3. /\ 1 \in DOMAIN ui /\ ui[1] = Reconciled(Target)
        /\ \A f \in File : reported'[f] = reported[f]
        /\ DOMAIN ui = 1 .. Len(ui) /\ Len(ui) \in Nat
        /\ UNCHANGED tasks
    BY <2>1, <2>2, ReceiveMoves DEF Reconciled, ReportKinds
  <2>4. PICK t \in ReconcileOf(Target) : Whole(t, 1)
    BY <2>3, FrontEndAssumption DEF EndsTold
  <2>5. \A f : Received(f, 1) => reported[f] # "nothing"
    BY <2>3 DEF Received
  <2>6. tasks[t].offered \subseteq File
    BY <2>4, TaskKnown DEF Task, ReconcileOf
  <2> QED
    BY <2>3, <2>4, <2>5, <2>6 DEF SuccessIsWhole, Whole, ReconcileOf
<1> QED
  BY <1>1, <1>2, <1>3

LEMMA InitEndsTold == Init => EndsTold /\ SuccessIsWhole
<1> SUFFICES ASSUME Init PROVE EndsTold /\ SuccessIsWhole
  OBVIOUS
<1>1. DOMAIN ui = {} /\ outcome # "ok"
  BY DEF Init, EngineInit
<1> QED
  BY <1>1 DEF EndsTold, SuccessIsWhole

\* A fetch ends with success only after a reconciliation with its target went through all
\* of its files, and was told of each that is neither excluded nor could not be had
\* (SuccessIsWhole): the end of a reconciliation is sent after its reports, over the one
\* channel.
THEOREM SuccessMeansWhole == Spec => []SuccessIsWhole
<1> DEFINE I == Typed /\ FilesTold /\ EndsTold /\ SuccessIsWhole
<1>1. Init => I
  BY InitTyped, InitFilesTold, InitEndsTold
<1>2. I /\ [Next]_vars => I'
  BY StepTyped, FilesToldStep, EndsToldStep, SuccessStep
<1> QED
  BY <1>1, <1>2, PTL DEF Spec

\* A file's line in the log follows the report of the file.
SyncedTold ==
  \A t \in DOMAIN tasks :
    tasks[t].at = "reported" /\ tasks[t].out = <<Synced(tasks[t].path)>> => Told(tasks[t].path)

LEMMA SyncedToldStep ==
  ASSUME Typed, FilesTold, SyncedTold, [Next]_vars
  PROVE  SyncedTold'
<1>1. TellsMore
  BY FilesToldStep
<1>2. \A u \in DOMAIN tasks : tasks[u].path \in File
  BY TaskKnown DEF Task
<1>3. ASSUME NEW u \in DOMAIN tasks, tasks'[u] = tasks[u],
             tasks'[u].at = "reported", tasks'[u].out = <<Synced(tasks'[u].path)>>
      PROVE  Told(tasks[u].path)'
  <2>1. Told(tasks[u].path)
    BY <1>3 DEF SyncedTold
  <2>2. PICK f \in File : f = tasks[u].path
    BY <1>2
  <2>3. Told(f)'
    BY <1>1, <2>1, <2>2 DEF TellsMore
  <2> QED
    BY <1>3, <2>2, <2>3
<1>4. CASE UNCHANGED tasks
  BY <1>3, <1>4 DEF SyncedTold
<1>5. CASE (EngineStarts \/ SpawnReconcile \/ Happening) /\ UNCHANGED frontVars
  BY <1>3, <1>5, LoopTyped DEF Grown, Fresh, SyncedTold
<1>6. ASSUME NEW t \in DOMAIN tasks, TaskSends(t), UNCHANGED frontVars
      PROVE  SyncedTold'
  <2> DEFINE k == tasks[t]
             n == tasks'[t]
             e == Head(k.out)
  <2>1. /\ DOMAIN tasks' = DOMAIN tasks /\ \A u \in DOMAIN tasks : u # t => tasks'[u] = tasks[u]
        /\ e \in Event /\ ui' = Append(ui, e) /\ Sends(k, e, n.out)
        /\ n.path = k.path /\ n.at = k.at
    BY <1>6, TaskSendsMoves
  <2>2. ASSUME n.at = "reported", n.out = <<Synced(n.path)>>
        PROVE  Told(k.path)'
    <3>1. e = OnFile("received", k.path)
      BY <2>1, <2>2 DEF Sends
    <3>2. PICK f \in File : f = k.path
      BY <1>2
    <3>3. Told(f)'
      BY <1>6, <2>1, <3>1, <3>2, AppendTells DEF frontVars
    <3> QED
      BY <2>1, <3>2, <3>3
  <2> QED
    BY <1>3, <2>1, <2>2 DEF SyncedTold
<1>7. ASSUME NEW t \in DOMAIN tasks, TaskStep(t), ~TaskSends(t), UNCHANGED frontVars
      PROVE  SyncedTold'
  <2>1. Moved(t)
    BY <1>7, TaskStepMoves
  <2>2. tasks'[t].at = "reported" => \A x : tasks'[t].out # <<Log(x)>>
    <3>1. CASE IndexFile(t)
      BY <3>1, IndexFileMoves
    <3>2. CASE RemoveFile(t)
      BY <3>2, RemoveFileMoves DEF OnFile, Log
    <3> QED
      BY <1>7, <3>1, <3>2, TaskStepMoves
  <2> QED
    BY <1>3, <2>1, <2>2 DEF Moved, SyncedTold, Synced
<1>8. CASE LoopSends
  BY <1>4, <1>8 DEF LoopSends
<1>9. CASE FetchEvent(Head(ui)) \/ TerminalEvent(Head(ui))
  BY <1>4, <1>9 DEF FetchEvent, TerminalEvent, Receive
<1>10. CASE Rests
  BY <1>4, <1>10 DEF Rests, engineVars
<1> QED
  BY <1>5, <1>6, <1>7, <1>8, <1>9, <1>10, Steps

LEMMA FailuresToldStep ==
  ASSUME Typed, FilesTold, SyncedTold, FailuresTold, [Next]_vars
  PROVE  FailuresTold'
<1>1. SettledStays /\ TellsMore
  BY FilesToldStep
<1>2. ASSUME NEW m, NEW n, Caused(m), \A f \in NamedFailed : Received(f, m) => Received(f, n)'
      PROVE  Caused(n)'
  BY <1>1, <1>2 DEF Caused, SettledStays, Settled
<1>3. NamedFailed \subseteq File
  BY EngineAssumption
<1>4. ASSUME NEW e \in Event, ui' = Append(ui, e), UNCHANGED reported,
             e = Log("failed") => Caused(Len(ui) + 1)
      PROVE  FailuresTold'
  <2>1. /\ DOMAIN ui = 1 .. Len(ui) /\ DOMAIN ui' = 1 .. Len(ui) + 1 /\ Len(ui) \in Nat
        /\ \A n \in DOMAIN ui : ui'[n] = ui[n]
        /\ ui'[Len(ui) + 1] = e
        /\ \A f, n : Received(f, n) => Received(f, n)'
    BY <1>4, AppendTells
  <2>2. ASSUME NEW n \in DOMAIN ui', ui'[n] = Log("failed")
        PROVE  Caused(n)
    <3>1. CASE n \in DOMAIN ui
      BY <2>1, <2>2, <3>1 DEF FailuresTold
    <3>2. CASE n = Len(ui) + 1
      BY <1>4, <2>1, <2>2, <3>2
    <3> QED
      BY <2>1, <3>1, <3>2
  <2>3. \A n \in DOMAIN ui' : ui'[n] = Log("failed") => Caused(n)'
    BY <1>2, <2>1, <2>2
  <2> QED
    BY <2>3 DEF FailuresTold
<1>5. ASSUME UNCHANGED <<ui, reported>>
      PROVE  FailuresTold'
  <2>1. \A f, n : Received(f, n) => Received(f, n)'
    BY <1>5 DEF Received
  <2>2. \A n \in DOMAIN ui' : ui'[n] = Log("failed") => Caused(n)'
    BY <1>2, <1>5, <2>1 DEF FailuresTold
  <2> QED
    BY <2>2 DEF FailuresTold
<1>6. CASE LoopSends /\ UNCHANGED frontVars
  BY <1>4, <1>6, LoopSendsMoves DEF frontVars
<1>7. CASE (EngineStarts \/ SpawnReconcile \/ Happening) /\ UNCHANGED frontVars
  BY <1>5, <1>7, LoopTyped DEF frontVars
<1>8. ASSUME NEW t \in DOMAIN tasks, TaskSends(t), UNCHANGED frontVars
      PROVE  FailuresTold'
  <2> DEFINE k == tasks[t]
             e == Head(k.out)
  <2>1. /\ e \in Event /\ ui' = Append(ui, e) /\ UNCHANGED reported /\ Sends(k, e, tasks'[t].out)
        /\ k.out # <<>>
    BY <1>8, TaskSendsMoves DEF frontVars
  <2>2. ASSUME e = Log("failed")
        PROVE  Caused(Len(ui) + 1)
    <3>1. CASE k.at = "failed"
      BY <3>1 DEF Caused
    <3>2. CASE k.at # "failed"
      <4>1. k.at = "reported" /\ e = Synced(k.path) /\ k.path \in NamedFailed
        BY <2>1, <2>2, <3>2 DEF Sends, Synced, Log, OnFile, Reconciled
      <4>2. k \in Task /\ Says(k)
        BY TaskKnown
      <4>3. k.out[1] = e
        BY <2>1, <4>2, Unqueueing DEF Task
      <4>4. k.out = <<Synced(k.path)>>
        BY <2>1, <2>2, <4>1, <4>2, <4>3 DEF Says, OnFile, Log
      <4>5. Told(k.path)
        BY <4>1, <4>4 DEF SyncedTold
      <4> QED
        BY <4>1, <4>5 DEF Caused, Told
    <3> QED
      BY <3>1, <3>2
  <2> QED
    BY <1>4, <2>1, <2>2
<1>9. ASSUME NEW t \in DOMAIN tasks, TaskStep(t), ~TaskSends(t), UNCHANGED frontVars
      PROVE  FailuresTold'
  BY <1>5, <1>9, TaskStepMoves DEF Moved, frontVars
<1>10. CASE ui # <<>> /\ (FetchEvent(Head(ui)) \/ TerminalEvent(Head(ui)))
  <2>1. Receive(Head(ui))
    BY <1>10 DEF FetchEvent, TerminalEvent
  <2>2. /\ Len(ui) \in Nat /\ DOMAIN ui' = 1 .. Len(ui) - 1
        /\ \A i \in DOMAIN ui' : i + 1 \in DOMAIN ui /\ ui'[i] = ui[i + 1]
        /\ \A f \in File, n \in Nat : Received(f, n + 1) => Received(f, n)'
    BY <1>10, <2>1, ReceiveMoves, TakeTells
  <2>3. ASSUME NEW n \in DOMAIN ui', ui'[n] = Log("failed")
        PROVE  Caused(n)'
    <3>1. Caused(n + 1)
      BY <2>2, <2>3 DEF FailuresTold
    <3> QED
      BY <1>2, <1>3, <2>2, <3>1
  <2> QED
    BY <2>3 DEF FailuresTold
<1>11. CASE Rests
  BY <1>5, <1>11 DEF Rests, engineVars
<1> QED
  BY <1>6, <1>7, <1>8, <1>9, <1>10, <1>11, Steps

LEMMA ErrorStep ==
  ASSUME Typed, FilesTold, FailuresTold, ErrorHasCause, [Next]_vars
  PROVE  ErrorHasCause'
<1>1. CASE outcome' # "error"
  BY <1>1 DEF ErrorHasCause
<1>2. CASE outcome = "error"
  <2>1. Rests
    BY <1>2, Steps DEF Running
  <2> QED
    BY <1>2, <2>1 DEF Rests, engineVars, ErrorHasCause
<1>3. CASE outcome # "error" /\ outcome' = "error"
  <2>1. ui # <<>> /\ FetchEvent(Head(ui))
    BY <1>3, Steps DEF frontVars, TerminalEvent, Rests
  <2>2. Head(ui) = Log("failed") /\ Receive(Head(ui))
    BY <1>3, <2>1 DEF FetchEvent
  <2>3. /\ 1 \in DOMAIN ui /\ ui[1] = Log("failed")
        /\ \A f \in File : reported'[f] = reported[f]
        /\ DOMAIN ui = 1 .. Len(ui) /\ Len(ui) \in Nat
        /\ UNCHANGED tasks
    BY <2>1, <2>2, ReceiveMoves DEF Log, ReportKinds
  <2>4. Caused(1)
    BY <2>3 DEF FailuresTold
  <2>5. \A f : Received(f, 1) => reported[f] # "nothing"
    BY <2>3 DEF Received
  <2> QED
    BY <2>3, <2>4, <2>5, EngineAssumption DEF ErrorHasCause, Caused
<1> QED
  BY <1>1, <1>2, <1>3

LEMMA InitFailuresTold == Init => SyncedTold /\ FailuresTold /\ ErrorHasCause
<1> SUFFICES ASSUME Init PROVE SyncedTold /\ FailuresTold /\ ErrorHasCause
  OBVIOUS
<1>1. DOMAIN ui = {} /\ DOMAIN tasks = {} /\ outcome # "error"
  BY DEF Init, EngineInit
<1> QED
  BY <1>1 DEF SyncedTold, FailuresTold, ErrorHasCause

\* A fetch ends with an error only if a reconciliation failed, or a file that came has
\* the word in its name (ErrorHasCause): a file that could not be had does not end it,
\* whichever peer's task says what first.
THEOREM ErrorMeansFailure == Spec => []ErrorHasCause
<1> DEFINE I == Typed /\ FilesTold /\ SyncedTold /\ FailuresTold /\ ErrorHasCause
<1>1. Init => I
  BY InitTyped, InitFilesTold, InitFailuresTold
<1>2. I /\ [Next]_vars => I'
  BY StepTyped, FilesToldStep, SyncedToldStep, FailuresToldStep, ErrorStep
<1> QED
  BY <1>1, <1>2, PTL DEF Spec

-----------------------------------------------------------------------------
(* What the terminal interface shows *)

\* A fetch that has begun stays so until its end is told, or fails for good.
LEMMA TaskStepLive ==
  ASSUME Typed, NEW t \in DOMAIN tasks, NEW f \in File, TaskLive(t, f), TaskStep(t), ~TaskSends(t)
  PROVE  TaskLive(t, f)'
<1> DEFINE k == tasks[t]
           n == tasks'[t]
           Lives ==
             \/ n.path = f /\ n.at \in Fetching
             \/ n.at = "reported" /\ n.out # <<>> /\ n.out[1] = OnFile("received", f)
             \/ f \in n.missed
<1>a. (k.path = f /\ k.at \in Fetching) \/ k.out # <<>> \/ f \in k.missed
  BY DEF TaskLive, Reports, Reporting
<1>b. SUFFICES Lives
  BY DEF TaskLive, Reports, Reporting
<1> HIDE DEF n
<1> USE DEF Fetching
<1>1. CASE HashReply(t)
  BY <1>a, <1>1, HashReplyMoves DEF n
<1>2. CASE TreeReply(t)
  BY <1>a, <1>2, TreeReplyMoves DEF n
<1>3. CASE RequestFails(t)
  BY <1>a, <1>3, RequestFailsMoves DEF n
<1>4. ASSUME NEW same \in BOOLEAN, CompareRoots(t, same)
      PROVE  Lives
  BY <1>a, <1>4, CompareRootsMoves DEF n
<1>5. ASSUME NEW files \in SUBSET File, Diff(t, files)
      PROVE  Lives
  BY <1>a, <1>5, DiffMoves DEF n
<1>6. ASSUME NEW verdict \in {"accept", "conflict", "reject"}, NEW to \in File,
             Decide(t, verdict, to)
      PROVE  Lives
  BY <1>a, <1>6, DecideMoves DEF n
<1>7. ASSUME NEW g \in File, FetchNext(t, g)
      PROVE  Lives
  BY <1>a, <1>7, FetchNextMoves DEF n
<1>8. ASSUME NEW fits \in BOOLEAN, ChunksReply(t, fits)
      PROVE  Lives
  BY <1>a, <1>8, ChunksReplyMoves DEF n
<1>9. CASE TransferFails(t)
  BY <1>a, <1>9, TransferFailsMoves DEF n
<1>10. CASE WriteFile(t)
  BY <1>a, <1>10, WriteFileMoves DEF n
<1>11. CASE IndexFile(t)
  <2>1. /\ n.at = "reported" /\ n.out = <<OnFile("received", k.path), Synced(k.path)>>
        /\ k.out = <<>> /\ n.missed = k.missed
    BY <1>11, IndexFileMoves DEF n
  <2>2. n.out # <<>> /\ n.out[1] = OnFile("received", k.path)
    BY <2>1
  <2> QED
    BY <1>a, <2>1, <2>2
<1>12. CASE RemoveFile(t)
  BY <1>a, <1>12, RemoveFileMoves DEF n
<1>13. CASE EndTask(t)
  BY <1>a, <1>13, EndTaskMoves DEF n
<1> QED
  BY <1>1, <1>2, <1>3, <1>4, <1>5, <1>6, <1>7, <1>8, <1>9, <1>10, <1>11, <1>12, <1>13
     DEF TaskStep

LEMMA TaskSendsLive ==
  ASSUME Typed, NEW t \in DOMAIN tasks, TaskSends(t), NEW f \in File, Live(f)
  PROVE  Live(f)' \/ Head(tasks[t].out) = OnFile("received", f)
<1>1. /\ DOMAIN tasks' = DOMAIN tasks /\ \A u \in DOMAIN tasks : u # t => tasks'[u] = tasks[u]
      /\ tasks[t].out # <<>>
      /\ tasks'[t].at = tasks[t].at /\ tasks'[t].path = tasks[t].path
      /\ tasks'[t].missed = tasks[t].missed
  BY TaskSendsMoves
<1>2. Head(tasks[t].out) = tasks[t].out[1]
  BY <1>1, TaskKnown, Unqueueing DEF Task
<1>3. PICK u \in DOMAIN tasks : TaskLive(u, f)
  BY DEF Live
<1>4. CASE u # t
  BY <1>1, <1>3, <1>4 DEF Live, TaskLive, Reports, Reporting
<1>5. CASE u = t
  BY <1>1, <1>2, <1>3, <1>5 DEF Live, TaskLive, Reports
<1> QED
  BY <1>4, <1>5

LEMMA RowsLiveStep ==
  ASSUME Typed, RowsLive, [Next]_vars
  PROVE  RowsLive'
<1>1. \A f \in rows : f \in File
  BY DEF Typed, TypeOK
\* An event is added.
<1>2. ASSUME NEW e \in Event, ui' = Append(ui, e), UNCHANGED frontVars,
             \A f \in File : Live(f) => Live(f)' \/ e = OnFile("received", f),
             \A f \in File : e = OnFile("started", f) => Live(f)
      PROVE  RowsLive'
  <2>1. /\ DOMAIN ui = 1 .. Len(ui) /\ DOMAIN ui' = 1 .. Len(ui) + 1 /\ Len(ui) \in Nat
        /\ \A n \in DOMAIN ui : ui'[n] = ui[n]
        /\ ui'[Len(ui) + 1] = e
    BY <1>2, AppendTells DEF frontVars
  <2>2. ASSUME NEW f \in File, NEW n \in Nat, n < Len(ui) + 1, EndComes(f, n)
        PROVE  EndComes(f, n)'
    <3>1. CASE Live(f)
      BY <1>2, <2>1, <2>2, <3>1 DEF EndComes
    <3>2. CASE \E j \in DOMAIN ui : j > n /\ ui[j] = OnFile("received", f)
      BY <2>1, <3>2 DEF EndComes
    <3> QED
      BY <2>2, <3>1, <3>2 DEF EndComes
  <2>3. ASSUME NEW f \in File, NEW n \in DOMAIN ui', ui'[n] = OnFile("started", f)
        PROVE  EndComes(f, n)'
    <3>1. CASE n \in DOMAIN ui
      BY <2>1, <2>2, <2>3, <3>1 DEF RowsLive
    <3>2. CASE n = Len(ui) + 1
      <4>1. e = OnFile("started", f)
        BY <2>1, <2>3, <3>2
      <4>2. e # OnFile("received", f)
        BY <4>1 DEF OnFile
      <4>3. Live(f)'
        BY <1>2, <4>1, <4>2
      <4> QED
        BY <4>3 DEF EndComes
    <3> QED
      BY <2>1, <3>1, <3>2
  <2>4. \A f \in rows' : EndComes(f, 0)'
    BY <1>1, <1>2, <2>1, <2>2 DEF RowsLive, frontVars
  <2> QED
    BY <1>2, <2>3, <2>4 DEF RowsLive, frontVars
<1>3. ASSUME UNCHANGED <<ui, rows, command>>, \A f \in File : Live(f) => Live(f)'
      PROVE  RowsLive'
  BY <1>1, <1>3 DEF RowsLive, EndComes
<1>4. ASSUME UNCHANGED tasks
      PROVE  \A f : Live(f) => Live(f)'
  BY <1>4 DEF Live, TaskLive, Reports, Reporting
<1>5. CASE LoopSends /\ UNCHANGED frontVars
  <2>1. /\ Head(loopOut) \in Event /\ ui' = Append(ui, Head(loopOut))
        /\ Head(loopOut)[1] \notin FileKinds
    BY <1>5, LoopSendsMoves
  <2>2. UNCHANGED tasks
    BY <1>5 DEF LoopSends
  <2> QED
    BY <1>2, <1>4, <1>5, <2>1, <2>2 DEF OnFile, FileKinds
<1>6. CASE (EngineStarts \/ SpawnReconcile \/ Happening) /\ UNCHANGED frontVars
  <2>1. Grown /\ UNCHANGED <<ui, rows, command>>
    BY <1>6, LoopTyped DEF frontVars
  <2>2. \A f \in File : Live(f) => Live(f)'
    BY <2>1 DEF Grown, Live, TaskLive, Reports, Reporting
  <2> QED
    BY <1>3, <2>1, <2>2
<1>7. ASSUME NEW t \in DOMAIN tasks, TaskSends(t), UNCHANGED frontVars
      PROVE  RowsLive'
  <2> DEFINE e == Head(tasks[t].out)
  <2>1. e \in Event /\ ui' = Append(ui, e) /\ Sends(tasks[t], e, tasks'[t].out)
    BY <1>7, TaskSendsMoves
  <2>2. \A f \in File : Live(f) => Live(f)' \/ e = OnFile("received", f)
    BY <1>7, TaskSendsLive
  <2>3. ASSUME NEW f \in File, e = OnFile("started", f)
        PROVE  Live(f)
    <3>1. tasks[t].path = f /\ tasks[t].at = "chunks"
      BY <2>1, <2>3 DEF Sends, OnFile, Log, Reconciled, Synced
    <3> QED
      BY <3>1 DEF Live, TaskLive, Fetching
  <2> HIDE DEF e
  <2> QED
    BY <1>2, <1>7, <2>1, <2>2, <2>3
<1>8. ASSUME NEW t \in DOMAIN tasks, TaskStep(t), ~TaskSends(t), UNCHANGED frontVars
      PROVE  RowsLive'
  <2>1. Moved(t)
    BY <1>8, TaskStepMoves
  <2>2. ASSUME NEW f \in File, Live(f)
        PROVE  Live(f)'
    <3>1. PICK u \in DOMAIN tasks : TaskLive(u, f)
      BY <2>2 DEF Live
    <3>2. TaskLive(u, f)'
      <4>1. CASE u = t
        BY <1>8, <3>1, <4>1, TaskStepLive
      <4>2. CASE u # t
        BY <2>1, <3>1, <4>2 DEF Moved, TaskLive, Reports, Reporting
      <4> QED
        BY <4>1, <4>2
    <3> QED
      BY <2>1, <3>2 DEF Moved, Live
  <2> QED
    BY <1>3, <1>8, <2>1, <2>2 DEF Moved, frontVars
<1>9. CASE ui # <<>> /\ (FetchEvent(Head(ui)) \/ TerminalEvent(Head(ui)))
  <2> DEFINE e == Head(ui)
  <2>1. Receive(e)
    BY <1>9 DEF FetchEvent, TerminalEvent
  <2>2. /\ Len(ui) \in Nat /\ DOMAIN ui' = 1 .. Len(ui) - 1 /\ DOMAIN ui = 1 .. Len(ui)
        /\ \A i \in DOMAIN ui' : i + 1 \in DOMAIN ui /\ ui'[i] = ui[i + 1]
        /\ e = ui[1] /\ e \in Event /\ Len(ui) >= 1
        /\ UNCHANGED <<tasks, command>>
    BY <1>9, <2>1, ReceiveMoves
  <2> HIDE DEF e
  <2>3. \A f : Live(f) => Live(f)'
    BY <1>4, <2>2
  <2>4. \A f \in File, j \in DOMAIN ui :
          ui[j] = OnFile("received", f) /\ j # 1
            => /\ j - 1 \in DOMAIN ui' /\ ui'[j - 1] = OnFile("received", f)
    <3> SUFFICES ASSUME NEW f \in File, NEW j \in DOMAIN ui, ui[j] = OnFile("received", f), j # 1
                 PROVE  /\ j - 1 \in DOMAIN ui' /\ ui'[j - 1] = OnFile("received", f)
      OBVIOUS
    <3>1. j - 1 \in DOMAIN ui' /\ (j - 1) + 1 = j
      BY <2>2
    <3> QED
      BY <2>2, <3>1
  <2>5. ASSUME NEW f \in File, NEW n \in DOMAIN ui', ui'[n] = OnFile("started", f)
        PROVE  EndComes(f, n)'
    <3>1. n \in Nat /\ n + 1 \in DOMAIN ui /\ ui[n + 1] = OnFile("started", f)
      BY <2>2, <2>5
    <3>2. EndComes(f, n + 1)
      BY <3>1 DEF RowsLive
    <3>3. CASE Live(f)
      BY <2>3, <3>3 DEF EndComes
    <3>4. CASE \E j \in DOMAIN ui : j > n + 1 /\ ui[j] = OnFile("received", f)
      <4>1. PICK j \in DOMAIN ui : j > n + 1 /\ ui[j] = OnFile("received", f)
        BY <3>4
      <4>2. j # 1 /\ j - 1 > n
        BY <2>2, <3>1, <4>1
      <4> QED
        BY <2>4, <4>1, <4>2 DEF EndComes
    <3> QED
      BY <3>2, <3>3, <3>4 DEF EndComes
  <2>6. ASSUME NEW f \in rows', command = "share"
        PROVE  EndComes(f, 0)'
    <3>1. rows' = Shown(e) /\ Shown(e) \subseteq File
      BY <1>9, <2>2, <2>6, PictureTyped DEF FetchEvent, TerminalEvent, e
    <3>2. f \in File
      BY <3>1
    <3>3. CASE e = OnFile("started", f)
      <4>1. 1 \in DOMAIN ui /\ ui[1] = OnFile("started", f)
        BY <2>2, <3>3
      <4>2. EndComes(f, 1)
        BY <3>2, <4>1 DEF RowsLive
      <4>3. ASSUME NEW j \in DOMAIN ui, j > 1, ui[j] = OnFile("received", f)
            PROVE  EndComes(f, 0)'
        <5>1. j # 1 /\ j - 1 > 0
          BY <2>2, <4>3
        <5> QED
          BY <2>4, <3>2, <4>3, <5>1 DEF EndComes
      <4>4. Live(f) => EndComes(f, 0)'
        BY <2>3 DEF EndComes
      <4> QED
        BY <4>2, <4>3, <4>4 DEF EndComes
    <3>4. CASE e # OnFile("started", f)
      <4>1. f \in rows /\ e # OnFile("received", f)
        <5>1. e[1] = "started" => e = OnFile("started", e[2])
          BY <2>2 DEF Event, OnFile
        <5> QED
          BY <3>1, <3>4, <5>1 DEF Shown, OnFile
      <4>2. EndComes(f, 0)
        BY <4>1 DEF RowsLive
      <4>3. ASSUME NEW j \in DOMAIN ui, ui[j] = OnFile("received", f)
            PROVE  EndComes(f, 0)'
        <5>1. j # 1
          BY <2>2, <4>1, <4>3
        <5>2. j - 1 > 0
          BY <2>2, <5>1
        <5> QED
          BY <2>4, <3>2, <4>3, <5>1, <5>2 DEF EndComes
      <4>4. Live(f) => EndComes(f, 0)'
        BY <2>3 DEF EndComes
      <4> QED
        BY <4>2, <4>3, <4>4 DEF EndComes
    <3> QED
      BY <3>3, <3>4
  <2>7. command = "fetch" => rows' = {}
    BY <1>9 DEF FetchEvent, TerminalEvent, RowsLive
  <2>8. command = "share" \/ command = "fetch"
    BY <1>9 DEF FetchEvent, TerminalEvent
  <2> QED
    BY <2>2, <2>5, <2>6, <2>7, <2>8 DEF RowsLive
<1>10. CASE Rests
  BY <1>3, <1>4, <1>10 DEF Rests, engineVars
<1> QED
  BY <1>5, <1>6, <1>7, <1>8, <1>9, <1>10, Steps

LEMMA RowsLiveHolds ==
  /\ Init => RowsLive
  /\ Typed /\ RowsLive => RowsAreFetches
<1>1. Init => RowsLive
  BY DEF Init, EngineInit, RowsLive
<1>2. ASSUME Typed, RowsLive
      PROVE  RowsAreFetches
  <2>1. ASSUME NEW f \in rows
        PROVE  \/ \E t \in DOMAIN tasks :
                    \/ tasks[t].path = f /\ tasks[t].at \in {"chunks", "write", "index", "reported"}
                    \/ f \in tasks[t].missed
               \/ \E i \in DOMAIN ui : ui[i] = OnFile("received", f)
    <3>1. EndComes(f, 0)
      BY <1>2, <2>1 DEF RowsLive
    <3>2. ASSUME NEW t \in DOMAIN tasks, Reports(t, "received", f)
          PROVE  tasks[t].path = f /\ tasks[t].at = "reported"
      <4>1. Says(tasks[t])
        BY <1>2, TaskKnown
      <4> QED
        BY <3>2, <4>1 DEF Says, Reports, Reporting, OnFile, Synced, Log
    <3> QED
      BY <3>1, <3>2 DEF EndComes, Live, TaskLive, Fetching
  <2> QED
    BY <2>1 DEF RowsAreFetches
<1> QED
  BY <1>1, <1>2

\* A row of the transfer table stands for a fetch that runs, whose end is in the channel,
\* or that failed (RowsAreFetches): the row of a file that came goes with the event, two
\* fetches of one path included.
THEOREM RowsStandForFetches == Spec => []RowsAreFetches
<1> DEFINE I == Typed /\ RowsLive
<1>1. Init => I
  BY InitTyped, RowsLiveHolds
<1>2. I /\ [Next]_vars => I'
  BY StepTyped, RowsLiveStep
<1>3. I => RowsAreFetches
  BY RowsLiveHolds
<1> QED
  BY <1>1, <1>2, <1>3, PTL DEF Spec

\* What an event makes of the list of peers.
LEMMA KnownPeers ==
  ASSUME Typed, NEW e \in Event, \A i, j \in DOMAIN panel : panel[i][1] = panel[j][1] => i = j,
         panel' = Known(e)
  PROVE  /\ \A i, j \in DOMAIN panel' : panel'[i][1] = panel'[j][1] => i = j
         /\ \A p \in Peer : PanelKind(p)' = IF e[1] \in PeerKinds /\ e[2] = p
                                            THEN e[1] ELSE PanelKind(p)
<1>1. panel \in Seq(Peer \X BOOLEAN) /\ DOMAIN panel = 1 .. Len(panel) /\ Len(panel) \in Nat
  BY DEF Typed, TypeOK
<1>2. CASE e[1] = "connected" /\ ~Listed(e[2])
  <2> DEFINE q == e[2]
             new == <<q, TRUE>>
  <2>0. e[1] = "connected" => e[2] \in Peer
    BY DEF Event
  <2>1. new \in Peer \X BOOLEAN /\ new[1] = q /\ new[2] = TRUE
    BY <1>2, <2>0
  <2>2. panel' = Append(panel, new)
    BY <1>2 DEF Known
  <2> HIDE DEF new
  <2>3. /\ DOMAIN panel' = 1 .. Len(panel) + 1
        /\ \A i \in 1 .. Len(panel) : panel'[i] = panel[i]
        /\ panel'[Len(panel) + 1] = new
    BY <1>1, <2>1, <2>2, Queueing
  <2>4. \A i \in DOMAIN panel : panel[i][1] # q
    BY <1>2 DEF Listed
  <2>5. \A i, j \in DOMAIN panel' : panel'[i][1] = panel'[j][1] => i = j
    BY <1>1, <2>1, <2>3, <2>4
  <2>6. ASSUME NEW p \in Peer
        PROVE  PanelKind(p)' = IF e[1] \in PeerKinds /\ e[2] = p THEN e[1] ELSE PanelKind(p)
    <3>1. CASE p = q
      <4>1. Len(panel) + 1 \in DOMAIN panel' /\ panel'[Len(panel) + 1] = new
        BY <1>1, <2>3
      <4>2. \E i \in DOMAIN panel' : panel'[i][1] = p /\ panel'[i][2] = TRUE
        BY <2>1, <3>1, <4>1
      <4> QED
        BY <1>2, <3>1, <4>2 DEF PanelKind, PeerKinds
    <3>2. CASE p # q
      <4>1. (\E i \in DOMAIN panel' : panel'[i][1] = p /\ panel'[i][2] = TRUE)
              <=> \E i \in DOMAIN panel : panel[i][1] = p /\ panel[i][2] = TRUE
        BY <1>1, <2>1, <2>3, <3>2
      <4> QED
        BY <3>2, <4>1 DEF PanelKind
    <3> QED
      BY <3>1, <3>2
  <2> QED
    BY <2>5, <2>6
<1>3. CASE e[1] \in PeerKinds /\ ~(e[1] = "connected" /\ ~Listed(e[2]))
  <2> DEFINE q == e[2]
             up == e[1] = "connected"
  <2>1. panel' = [i \in DOMAIN panel |-> IF panel[i][1] = q THEN <<q, up>> ELSE panel[i]]
    BY <1>3 DEF Known, PeerKinds
  <2>2. up = TRUE \/ up = FALSE
    OBVIOUS
  <2>3. (up = FALSE => e[1] = "disconnected") /\ (up = TRUE => e[1] = "connected")
    BY <1>3 DEF PeerKinds
  <2> HIDE DEF up
  <2>4. /\ DOMAIN panel' = DOMAIN panel
        /\ \A i \in DOMAIN panel :
             /\ panel'[i][1] = panel[i][1]
             /\ panel'[i][2] = IF panel[i][1] = q THEN up ELSE panel[i][2]
    BY <2>1
  <2>5. \A i, j \in DOMAIN panel' : panel'[i][1] = panel'[j][1] => i = j
    BY <2>4
  <2>6. ASSUME NEW p \in Peer
        PROVE  PanelKind(p)' = IF e[1] \in PeerKinds /\ e[2] = p THEN e[1] ELSE PanelKind(p)
    <3>1. CASE p = q /\ up = TRUE
      <4>1. PICK i \in DOMAIN panel : panel[i][1] = q
        BY <1>3, <2>3, <3>1 DEF Listed
      <4> QED
        BY <1>3, <2>3, <2>4, <3>1, <4>1 DEF PanelKind
    <3>2. CASE p = q /\ up = FALSE
      BY <1>3, <2>3, <2>4, <3>2 DEF PanelKind
    <3>3. CASE p # q
      <4>1. \A i \in DOMAIN panel :
              panel'[i][1] = p /\ panel'[i][2] = TRUE <=> panel[i][1] = p /\ panel[i][2] = TRUE
        BY <2>4, <3>3
      <4> QED
        BY <2>4, <3>3, <4>1 DEF PanelKind
    <3> QED
      BY <2>2, <3>1, <3>2, <3>3
  <2> QED
    BY <2>5, <2>6
<1>4. CASE e[1] \notin PeerKinds
  <2>1. panel' = panel
    BY <1>4 DEF Known, PeerKinds
  <2> QED
    BY <1>4, <2>1 DEF PanelKind
<1> QED
  BY <1>2, <1>3, <1>4 DEF PeerKinds

LEMMA PeersToldStep ==
  ASSUME Typed, PeersTold, [Next]_vars
  PROVE  PeersTold'
<1>0. ui \in Seq(Event)
  BY DEF Typed, TypeOK, EngineTypeOK
<1>1. \A p \in Peer : /\ Connected(p)[1] = "connected" /\ Connected(p)[2] = p
                      /\ Disconnected(p)[1] = "disconnected" /\ Disconnected(p)[2] = p
  BY DEF Connected, Disconnected
\* An event that is not about a connection is added.
<1>2. ASSUME NEW e \in Event, ui' = Append(ui, e), e[1] \notin PeerKinds,
             UNCHANGED <<loopOut, near, panel, command>>
      PROVE  PeersTold'
  <2>1. \A p \in Peer : Newest(ui, PeerKinds, p, NearKind(p), PanelKind(p))
                          => Newest(ui', PeerKinds, p, NearKind(p), PanelKind(p))
    BY <1>0, <1>2, NewestAppend
  <2>2. \A p \in Peer : PeerTold(p) => PeerTold(p)'
    BY <1>2, <2>1 DEF PeerTold, Newest, NearKind, PanelKind
  <2> QED
    BY <1>2, <2>2 DEF PeersTold
<1>3. ASSUME UNCHANGED <<ui, loopOut, near, panel, command>>
      PROVE  PeersTold'
  BY <1>3 DEF PeersTold, PeerTold, Newest, NearKind, PanelKind
<1>4. CASE LoopSends /\ UNCHANGED frontVars
  <2> DEFINE e == Head(loopOut)
  <2>1. /\ e \in Event /\ e = loopOut[1] /\ ui' = Append(ui, e) /\ loopOut # <<>>
        /\ loopOut' \in Seq(Event)
        /\ \A i \in DOMAIN loopOut' : loopOut'[i][1] \notin PeerKinds
    BY <1>4, LoopSendsMoves DEF PeerKinds
  <2>2. UNCHANGED <<near, panel, command>>
    BY <1>4 DEF LoopSends, frontVars
  <2> HIDE DEF e
  <2>3. ASSUME NEW p \in Peer
        PROVE  ~(loopOut' # <<>> /\ loopOut'[1] \in {Connected(p), Disconnected(p)})
    <3>1. loopOut' # <<>> => 1 \in DOMAIN loopOut'
      BY <2>1, Unqueueing
    <3> QED
      BY <1>1, <2>1, <3>1 DEF PeerKinds
  <2>4. ASSUME NEW p \in Peer, PeerTold(p)
        PROVE  PeerTold(p)'
    <3>1. CASE e \in {Connected(p), Disconnected(p)}
      <4>1. e[1] = NearKind(p) /\ e[1] \in PeerKinds /\ e[2] = p
        BY <1>1, <2>1, <2>4, <3>1 DEF PeerTold, PeerKinds
      <4>2. Newest(ui', PeerKinds, p, e[1], PanelKind(p))
        BY <1>0, <2>1, <4>1, NewestAppend
      <4> QED
        BY <2>2, <2>3, <4>1, <4>2 DEF PeerTold, Newest, NearKind, PanelKind
    <3>2. CASE e \notin {Connected(p), Disconnected(p)}
      <4>1. e[1] \notin PeerKinds \/ e[2] # p
        BY <2>1, <3>2 DEF Event, LogText, PeerKinds, Connected, Disconnected
      <4>2. Newest(ui, PeerKinds, p, NearKind(p), PanelKind(p))
        BY <2>1, <2>4, <3>2 DEF PeerTold
      <4>3. Newest(ui', PeerKinds, p, NearKind(p), PanelKind(p))
        BY <1>0, <2>1, <4>1, <4>2, NewestAppend
      <4> QED
        BY <2>2, <2>3, <4>3 DEF PeerTold, Newest, NearKind, PanelKind
    <3> QED
      BY <3>1, <3>2
  <2> QED
    BY <2>2, <2>4 DEF PeersTold
<1>5. ASSUME NEW p \in Peer, PeerDiscovered(p) \/ PeerDisconnected(p), UNCHANGED frontVars
      PROVE  PeersTold'
  <2>1. PICK e : /\ loopOut' = <<e, Log("other")>> /\ loopOut = <<>> /\ ui' = ui
                 /\ \/ e = Connected(p) /\ near' = near \cup {p}
                    \/ e = Disconnected(p) /\ near' = near \ {p}
    BY <1>5 DEF PeerDiscovered, PeerDisconnected, AtSelect
  <2>2. loopOut' # <<>> /\ loopOut'[1] = e
    BY <2>1
  <2>3. ASSUME NEW q \in Peer, PeerTold(q)
        PROVE  PeerTold(q)'
    <3>1. CASE q = p
      <4>1. e[1] = NearKind(p)'
        BY <1>1, <2>1 DEF NearKind
      <4>2. e \in {Connected(p), Disconnected(p)}
        BY <2>1
      <4> QED
        BY <2>2, <3>1, <4>1, <4>2 DEF PeerTold, Connected, Disconnected
    <3>2. CASE q # p
      <4>1. e \notin {Connected(q), Disconnected(q)}
        BY <2>1, <3>2 DEF Connected, Disconnected
      <4>2. Newest(ui, PeerKinds, q, NearKind(q), PanelKind(q))
        BY <2>1, <2>3 DEF PeerTold
      <4>3. NearKind(q)' = NearKind(q) /\ PanelKind(q)' = PanelKind(q)
        BY <1>5, <2>1, <3>2 DEF NearKind, PanelKind, frontVars
      <4>4. Newest(ui, PeerKinds, q, NearKind(q), PanelKind(q))'
        BY <2>1, <4>2, <4>3 DEF Newest
      <4> QED
        BY <2>2, <4>1, <4>4 DEF PeerTold, Connected, Disconnected
    <3> QED
      BY <3>1, <3>2
  <2> QED
    BY <1>5, <2>3 DEF PeersTold, frontVars
<1>6. CASE (EngineStarts \/ SpawnReconcile \/ Happening) /\ UNCHANGED frontVars
  <2>1. CASE EngineStarts
    BY <1>3, <1>6, <2>1 DEF EngineStarts, frontVars
  <2>2. CASE SpawnReconcile
    BY <1>3, <1>6, <2>2 DEF SpawnReconcile, frontVars
  <2>3. CASE EngineDies
    BY <1>3, <1>6, <2>3 DEF EngineDies, frontVars
  <2>4. ASSUME NEW note \in Notifiable, Notification(note)
        PROVE  PeersTold'
    BY <1>3, <1>6, <2>4 DEF Notification, frontVars
  <2> QED
    BY <1>5, <1>6, <2>1, <2>2, <2>3, <2>4 DEF Happening
<1>7. ASSUME NEW t \in DOMAIN tasks, TaskSends(t), UNCHANGED frontVars
      PROVE  PeersTold'
  <2> DEFINE e == Head(tasks[t].out)
  <2>1. /\ e \in Event /\ ui' = Append(ui, e) /\ Sends(tasks[t], e, tasks'[t].out)
        /\ UNCHANGED <<loopOut, near, panel, command>>
    BY <1>7, TaskSendsMoves DEF frontVars
  <2>2. e[1] \notin PeerKinds
    BY <2>1 DEF Sends, PeerKinds, OnFile, Log, Synced, Reconciled
  <2> HIDE DEF e
  <2> QED
    BY <1>2, <2>1, <2>2
<1>8. ASSUME NEW t \in DOMAIN tasks, TaskStep(t), ~TaskSends(t), UNCHANGED frontVars
      PROVE  PeersTold'
  BY <1>3, <1>8, TaskStepMoves DEF Moved, frontVars
<1>9. CASE ui # <<>> /\ FetchEvent(Head(ui))
  <2>1. UNCHANGED <<panel, command>> /\ command # "share"
    BY <1>9 DEF FetchEvent, Receive
  <2> QED
    BY <2>1 DEF PeersTold
<1>10. CASE ui # <<>> /\ TerminalEvent(Head(ui))
  <2> DEFINE e == Head(ui)
  <2>1. Receive(e) /\ panel' = Known(e)
    BY <1>10 DEF TerminalEvent
  <2>2. e \in Event /\ ui' = Tail(ui) /\ UNCHANGED <<loopOut, near, command>>
    BY <1>10, <2>1, ReceiveMoves
  <2>3. /\ \A i, j \in DOMAIN panel' : panel'[i][1] = panel'[j][1] => i = j
        /\ \A p \in Peer : PanelKind(p)' = IF e[1] \in PeerKinds /\ e[2] = p
                                           THEN e[1] ELSE PanelKind(p)
    BY <2>1, <2>2, KnownPeers DEF PeersTold
  <2>4. ASSUME NEW p \in Peer, PeerTold(p)
        PROVE  PeerTold(p)'
    <3>1. CASE loopOut # <<>> /\ loopOut[1] \in {Connected(p), Disconnected(p)}
      BY <2>2, <2>4, <3>1 DEF PeerTold, NearKind, Connected, Disconnected
    <3>2. CASE ~(loopOut # <<>> /\ loopOut[1] \in {Connected(p), Disconnected(p)})
      <4>1. Newest(ui, PeerKinds, p, NearKind(p), PanelKind(p))
        BY <2>4, <3>2 DEF PeerTold
      <4>2. Newest(Tail(ui), PeerKinds, p, NearKind(p),
                   IF e[1] \in PeerKinds /\ e[2] = p THEN e[1] ELSE PanelKind(p))
        BY <1>0, <1>10, <4>1, NewestTail
      <4>3. NearKind(p)' = NearKind(p)
        BY <2>2 DEF NearKind
      <4>4. Newest(ui, PeerKinds, p, NearKind(p), PanelKind(p))'
        BY <2>2, <2>3, <4>2, <4>3 DEF Newest
      <4> QED
        BY <2>2, <3>2, <4>4 DEF PeerTold, Connected, Disconnected
    <3> QED
      BY <3>1, <3>2
  <2> QED
    BY <2>2, <2>3, <2>4 DEF PeersTold
<1>11. CASE Rests
  BY <1>3, <1>11 DEF Rests, engineVars
<1> QED
  BY <1>4, <1>6, <1>7, <1>8, <1>9, <1>10, <1>11, Steps

LEMMA PeersToldHolds ==
  /\ Init => PeersTold
  /\ Typed /\ PeersTold => PanelIsNear
<1>1. ASSUME Init
      PROVE  PeersTold
  <2>1. /\ DOMAIN panel = {} /\ near = {} /\ DOMAIN ui = {}
        /\ loopOut = <<Log("other"), <<"index", "ready">>, Log("other")>>
    BY <1>1 DEF Init, EngineInit
  <2>2. loopOut[1] = Log("other")
    BY <2>1
  <2>3. \A p \in Peer : loopOut[1] \notin {Connected(p), Disconnected(p)}
    BY <2>2 DEF Connected, Disconnected, Log
  <2> QED
    BY <2>1, <2>3 DEF PeersTold, PeerTold, Newest, NearKind, PanelKind
<1>2. ASSUME Typed, PeersTold, command = "share", ui = <<>>, loopOut = <<>>
      PROVE  near = {panel[i][1] : i \in {j \in DOMAIN panel : panel[j][2]}}
  <2>0. DOMAIN ui = {}
    BY <1>2
  <2>1. ASSUME NEW p \in Peer
        PROVE  NearKind(p) = PanelKind(p)
    <3>1. Newest(ui, PeerKinds, p, NearKind(p), PanelKind(p))
      BY <1>2 DEF PeersTold, PeerTold
    <3> QED
      BY <2>0, <3>1 DEF Newest
  <2>2. \A i \in DOMAIN panel : panel[i][1] \in Peer /\ panel[i][2] \in BOOLEAN
    <3> SUFFICES ASSUME NEW i \in DOMAIN panel
                 PROVE  panel[i][1] \in Peer /\ panel[i][2] \in BOOLEAN
      OBVIOUS
    <3>1. panel[i] \in Peer \X BOOLEAN
      BY <1>2, ElementOfSeq DEF Typed, TypeOK
    <3> QED
      BY <3>1
  <2>3. near \subseteq Peer
    BY <1>2 DEF Typed, TypeOK, EngineTypeOK
  <2>4. \A p \in Peer : p \in near <=> \E i \in DOMAIN panel : panel[i][1] = p /\ panel[i][2] = TRUE
    BY <2>1 DEF NearKind, PanelKind
  <2> QED
    BY <2>2, <2>3, <2>4
<1> QED
  BY <1>1, <1>2 DEF PanelIsNear, PeersTold

\* When the channel and the loop have nothing more to tell, the list of peers is the set
\* of connections, each peer named once (PanelIsNear), however often they come and go.
THEOREM PanelShowsConnections == Spec => []PanelIsNear
<1> DEFINE I == Typed /\ PeersTold
<1>1. Init => I
  BY InitTyped, PeersToldHolds
<1>2. I /\ [Next]_vars => I'
  BY StepTyped, PeersToldStep
<1>3. I => PanelIsNear
  BY PeersToldHolds
<1> QED
  BY <1>1, <1>2, <1>3, PTL DEF Spec

=============================================================================
