------------------------- MODULE NetworkLoopProofs -------------------------
(***************************************************************************)
(* The network loop: every request under way has exactly one reply to      *)
(* come, and with no more commands and events than the two channels and    *)
(* one loop can hold the loops never wait for each other.                  *)
(***************************************************************************)
EXTENDS NetworkLoop, FiniteSetTheorems, FunctionTheorems, SequenceTheorems, TLAPS

-----------------------------------------------------------------------------
(* Counting in a queue *)

Places(q, m) == {i \in DOMAIN q : q[i] = m}

LEMMA PlacesFinite ==
  ASSUME NEW S, NEW q \in Seq(S), NEW m
  PROVE  /\ IsFiniteSet(Places(q, m))
         /\ Queued(q, m) \in Nat
         /\ Queued(q, m) = Cardinality(Places(q, m))
<1>1. DOMAIN q = 1 .. Len(q) /\ Len(q) \in Nat
  BY LenProperties
<1>2. IsFiniteSet(1 .. Len(q))
  BY <1>1, FS_Interval
<1>3. IsFiniteSet(Places(q, m))
  BY <1>1, <1>2, FS_Subset DEF Places
<1> QED
  BY <1>3, FS_CardinalityType DEF Queued, Places

LEMMA QueuedEmpty ==
  ASSUME NEW m
  PROVE  Queued(<<>>, m) = 0
<1>1. {i \in DOMAIN <<>> : <<>>[i] = m} = {}
  OBVIOUS
<1> QED
  BY <1>1, FS_EmptySet DEF Queued

LEMMA QueuedAppend ==
  ASSUME NEW S, NEW q \in Seq(S), NEW x \in S, NEW m
  PROVE  Queued(Append(q, x), m) = Queued(q, m) + (IF x = m THEN 1 ELSE 0)
<1> DEFINE n == Len(q) + 1
<1>1. /\ Append(q, x) \in Seq(S) /\ Len(Append(q, x)) = n
      /\ \A i \in 1 .. Len(q) : Append(q, x)[i] = q[i]
      /\ Append(q, x)[n] = x
  BY AppendProperties
<1>2. DOMAIN q = 1 .. Len(q) /\ DOMAIN Append(q, x) = 1 .. n /\ Len(q) \in Nat
  BY <1>1, LenProperties
<1>3. n \notin Places(q, m)
  BY <1>2 DEF Places
<1>4. Places(Append(q, x), m) = IF x = m THEN Places(q, m) \cup {n} ELSE Places(q, m)
  BY <1>1, <1>2 DEF Places
<1>5. IsFiniteSet(Places(q, m)) /\ Queued(q, m) \in Nat
  BY PlacesFinite
<1>6. /\ Queued(q, m) = Cardinality(Places(q, m))
      /\ Queued(Append(q, x), m) = Cardinality(Places(Append(q, x), m))
  BY <1>1, PlacesFinite
<1> HIDE DEF n
<1>7. Cardinality(Places(q, m) \cup {n}) = Cardinality(Places(q, m)) + 1
  BY <1>3, <1>5, FS_AddElement
<1> QED
  BY <1>1, <1>4, <1>5, <1>6, <1>7

\* Taking the first message shifts the places of the others.
LEMMA QueuedTail ==
  ASSUME NEW S, NEW q \in Seq(S), q # <<>>, NEW m
  PROVE  /\ Head(q) \in S /\ Tail(q) \in Seq(S) /\ Len(Tail(q)) = Len(q) - 1
         /\ Queued(q, m) = Queued(Tail(q), m) + (IF Head(q) = m THEN 1 ELSE 0)
<1> DEFINE rest == Places(q, m) \ {1}
           shift == [i \in Places(Tail(q), m) |-> i + 1]
<1>1. /\ Head(q) \in S /\ Tail(q) \in Seq(S) /\ Len(Tail(q)) = Len(q) - 1
      /\ \A i \in 1 .. Len(Tail(q)) : Tail(q)[i] = q[i + 1]
  BY HeadTailProperties
<1>2. /\ DOMAIN q = 1 .. Len(q) /\ DOMAIN Tail(q) = 1 .. Len(q) - 1
      /\ Len(q) \in Nat /\ Len(q) > 0
  BY <1>1, LenProperties, EmptySeq
<1>3. /\ IsFiniteSet(Places(q, m)) /\ IsFiniteSet(Places(Tail(q), m))
      /\ Queued(Tail(q), m) \in Nat
  BY <1>1, PlacesFinite
<1>4. shift \in Bijection(Places(Tail(q), m), rest)
  <2>1. \A i \in Places(Tail(q), m) : shift[i] \in rest
    BY <1>1, <1>2 DEF Places
  <2>2. \A i, j \in Places(Tail(q), m) : shift[i] = shift[j] => i = j
    BY <1>2 DEF Places
  <2>3. \A j \in rest : \E i \in Places(Tail(q), m) : shift[i] = j
    <3> SUFFICES ASSUME NEW j \in rest
                 PROVE  \E i \in Places(Tail(q), m) : shift[i] = j
      OBVIOUS
    <3>1. j \in Nat /\ j - 1 \in 1 .. Len(q) - 1 /\ q[j] = m
      BY <1>2 DEF Places
    <3>2. j - 1 \in Places(Tail(q), m)
      BY <1>1, <1>2, <3>1 DEF Places
    <3>3. shift[j - 1] = j
      BY <1>2, <3>1, <3>2
    <3> HIDE DEF shift
    <3> QED
      BY <3>2, <3>3
  <2>4. shift \in [Places(Tail(q), m) -> rest]
    BY <2>1
  <2> HIDE DEF shift, rest
  <2> QED
    BY <2>2, <2>3, <2>4, Fun_IsBij
<1>5. Cardinality(rest) = Cardinality(Places(Tail(q), m))
  BY <1>3, <1>4, FS_Bijection DEF ExistsBijection
<1>6. Head(q) = q[1] /\ 1 \in DOMAIN q
  BY <1>2
<1>7. Cardinality(rest) =
        IF 1 \in Places(q, m) THEN Cardinality(Places(q, m)) - 1 ELSE Cardinality(Places(q, m))
  BY <1>3, FS_RemoveElement
<1>8. 1 \in Places(q, m) <=> Head(q) = m
  BY <1>6 DEF Places
<1>9. /\ Queued(q, m) = Cardinality(Places(q, m)) /\ Queued(q, m) \in Nat
      /\ Queued(Tail(q), m) = Cardinality(Places(Tail(q), m))
  BY <1>1, PlacesFinite
<1> HIDE DEF rest
<1> QED
  BY <1>1, <1>3, <1>5, <1>7, <1>8, <1>9

-----------------------------------------------------------------------------
(* Types *)

LEMMA QueueStep ==
  ASSUME NEW S, NEW q \in Seq(S), NEW x \in S
  PROVE  q \o <<x>> = Append(q, x) /\ Append(q, x) \in Seq(S) /\ Len(Append(q, x)) = Len(q) + 1
BY AppendProperties, AppendIsConcat

LEMMA InitType == Init => TypeOK
BY LoadAssumption DEF Init, TypeOK

LEMMA NextType ==
  ASSUME TypeOK, [Next]_vars
  PROVE  TypeOK'
<1> USE DEF TypeOK
<1>1. CASE UNCHANGED vars
  BY <1>1 DEF vars
<1>2. ASSUME NEW m \in Task \cup Call, SwarmEvent(m)
      PROVE  TypeOK'
  BY <1>2 DEF SwarmEvent
<1>3. CASE EventSent
  <2>1. PICK m \in Task \cup Call : sending = <<m>>
    BY <1>3 DEF EventSent
  <2>2. events \o sending \in Seq(Task \cup Call)
    BY <2>1, QueueStep
  <2> QED
    BY <1>3, <2>2 DEF EventSent
<1>4. CASE HandleCommand
  <2>1. Tail(commands) \in Seq(Message)
    BY <1>4, HeadTailProperties DEF HandleCommand
  <2> QED
    BY <1>4, <2>1 DEF HandleCommand
<1>5. ASSUME NEW t \in Task, NEW outcome \in {"ok", "failed"}, Outcome(t, outcome)
      PROVE  TypeOK'
  BY <1>5 DEF Outcome
<1>6. CASE HandleEvent
  <2>1. Head(events) \in Task \cup Call /\ Tail(events) \in Seq(Task \cup Call)
    BY <1>6, HeadTailProperties DEF HandleEvent
  <2>2. CASE Head(events) \in Task
    BY <1>6, <2>1, <2>2 DEF HandleEvent
  <2>3. CASE Head(events) \notin Task
    BY <1>6, <2>1, <2>3 DEF HandleEvent
  <2> QED
    BY <2>2, <2>3
<1>7. CASE HandleFsEvent
  BY <1>7, LoadAssumption DEF HandleFsEvent
<1>8. CASE CommandSent
  <2>1. PICK m \in Message : command = <<m>>
    BY <1>8 DEF CommandSent, Message
  <2>2. commands \o command \in Seq(Message)
    BY <2>1, QueueStep
  <2> QED
    BY <1>8, <2>2 DEF CommandSent
<1>9. ASSUME NEW t \in Task, Request(t)
      PROVE  TypeOK'
  <2>1. Append(commands, t) \in Seq(Message)
    BY AppendProperties DEF Message
  <2> QED
    BY <1>9, <2>1 DEF Request
<1>10. CASE Done
  BY <1>10 DEF Done, vars
<1> QED
  BY <1>1, <1>2, <1>3, <1>4, <1>5, <1>6, <1>7, <1>8, <1>9, <1>10 DEF Next, Network, Engine

\* The channels, the requests and the calls hold what they are for, in any state that
\* the two loops and the tasks reach.
THEOREM NetworkTypeCorrect == Spec => []TypeOK
<1>1. Init => TypeOK
  BY InitType
<1>2. TypeOK /\ [Next]_vars => TypeOK'
  BY NextType
<1> QED
  BY <1>1, <1>2, PTL DEF Spec

-----------------------------------------------------------------------------
(* One notification starts one task, one task makes one request *)

One(condition) == IF condition THEN 1 ELSE 0

\* A task that was not started has its notification somewhere between the swarm and
\* the engine, once; a started one has none, so no task is started twice.
OneNotice ==
  \A t \in Task :
    One(t \in arriving) + One(sending = <<t>>) + Queued(events, t) = One(task[t] = "none")

\* OneReplyEach, with the entry of pending_requests as a number.
OneRequest ==
  \A t \in Task : Queued(commands, t) + One(t \in pending) = One(task[t] = "waiting")

LEMMA RequestIsReply == ASSUME TypeOK PROVE OneRequest <=> OneReplyEach
<1> SUFFICES ASSUME NEW t \in Task
             PROVE  Cardinality(pending \cap {t}) = One(t \in pending)
  BY DEF OneRequest, OneReplyEach, One
<1>1. CASE t \in pending
  <2>1. pending \cap {t} = {t}
    BY <1>1
  <2> QED
    BY <1>1, <2>1, FS_Singleton DEF One
<1>2. CASE t \notin pending
  <2>1. pending \cap {t} = {}
    BY <1>2
  <2> QED
    BY <1>2, <2>1, FS_EmptySet DEF One
<1> QED
  BY <1>1, <1>2

LEMMA Counts ==
  ASSUME TypeOK, NEW t \in Task
  PROVE  Queued(events, t) \in Nat /\ Queued(commands, t) \in Nat
BY PlacesFinite DEF TypeOK

LEMMA InitOnce == Init => OneNotice /\ OneRequest
BY QueuedEmpty DEF Init, OneNotice, OneRequest, One

LEMMA NextOnce ==
  ASSUME TypeOK, OneNotice, OneRequest, [Next]_vars
  PROVE  OneNotice' /\ OneRequest'
<1> SUFFICES ASSUME NEW t \in Task
             PROVE  /\ One(t \in arriving') + One(sending' = <<t>>) + Queued(events', t)
                         = One(task'[t] = "none")
                    /\ Queued(commands', t) + One(t \in pending') = One(task'[t] = "waiting")
  BY DEF OneNotice, OneRequest
<1> DEFINE NoticeOf(a, s, q, k) == One(t \in a) + One(s = <<t>>) + Queued(q, t) = One(k[t] = "none")
           RequestOf(q, d, k) == Queued(q, t) + One(t \in d) = One(k[t] = "waiting")
<1>a. NoticeOf(arriving, sending, events, task) /\ RequestOf(commands, pending, task)
  BY DEF OneNotice, OneRequest
<1>b. Queued(events, t) \in Nat /\ Queued(commands, t) \in Nat
  BY Counts
<1>c. t # Notify /\ t \notin Call
  BY LoadAssumption
<1>1. CASE UNCHANGED vars
  BY <1>1, <1>a DEF vars
<1>2. ASSUME NEW m \in Task \cup Call, SwarmEvent(m)
      PROVE  NoticeOf(arriving', sending', events', task') /\ RequestOf(commands', pending', task')
  BY <1>2, <1>a, <1>b DEF SwarmEvent, AtSelect, One
<1>3. CASE EventSent
  <2>1. PICK m \in Task \cup Call : sending = <<m>>
    BY <1>3 DEF EventSent, TypeOK
  <2>2. events' = Append(events, m)
    BY <1>3, <2>1, QueueStep DEF EventSent, TypeOK
  <2>3. Queued(events', t) = Queued(events, t) + One(m = t)
    BY <2>2, QueuedAppend DEF TypeOK, One
  <2>4. sending' = <<>> /\ UNCHANGED <<arriving, commands, task, pending>>
    BY <1>3 DEF EventSent
  <2> QED
    BY <2>1, <2>3, <2>4, <1>a, <1>b DEF One
<1>4. CASE HandleCommand
  <2> DEFINE m == Head(commands)
  <2>1. commands' = Tail(commands) /\ pending' = pending \cup ({m} \cap Task)
    BY <1>4 DEF HandleCommand
  <2>a. commands # <<>> /\ commands \in Seq(Message)
    BY <1>4 DEF HandleCommand, TypeOK
  <2>b. /\ Queued(commands, t) = Queued(Tail(commands), t) + One(Head(commands) = t)
        /\ Tail(commands) \in Seq(Message)
    BY <2>a, QueuedTail DEF One
  <2>2. /\ Queued(commands, t) = Queued(commands', t) + One(m = t)
        /\ Queued(commands', t) \in Nat
    BY <2>1, <2>b, PlacesFinite
  <2>3. UNCHANGED <<arriving, sending, events, task>>
    BY <1>4 DEF HandleCommand
  <2> HIDE DEF m
  <2> QED
    BY <2>1, <2>2, <2>3, <1>a, <1>b DEF One
<1>5. ASSUME NEW u \in Task, NEW outcome \in {"ok", "failed"}, Outcome(u, outcome)
      PROVE  NoticeOf(arriving', sending', events', task') /\ RequestOf(commands', pending', task')
  <2>1. u \in pending /\ UNCHANGED <<arriving, sending, events, commands>>
    BY <1>5 DEF Outcome
  <2>2. pending' = pending \ {u} /\ task' = [task EXCEPT ![u] = outcome]
    BY <1>5 DEF Outcome
  <2>3. task'[t] = IF t = u THEN outcome ELSE task[t]
    BY <2>2 DEF TypeOK
  <2> QED
    BY <2>1, <2>2, <2>3, <1>a, <1>b DEF One
<1>6. CASE HandleEvent
  <2> DEFINE m == Head(events)
  <2>1. events' = Tail(events) /\ UNCHANGED <<arriving, sending, commands, pending>>
    BY <1>6 DEF HandleEvent
  <2>a. events # <<>> /\ events \in Seq(Task \cup Call)
    BY <1>6 DEF HandleEvent, TypeOK
  <2>b. /\ Queued(events, t) = Queued(Tail(events), t) + One(Head(events) = t)
        /\ Tail(events) \in Seq(Task \cup Call)
    BY <2>a, QueuedTail DEF One
  <2>2. /\ Queued(events, t) = Queued(events', t) + One(m = t)
        /\ Queued(events', t) \in Nat
    BY <2>1, <2>b, PlacesFinite
  <2>3. CASE m = t
    <3>1. task'[t] = "calling"
      BY <1>6, <2>3 DEF HandleEvent, TypeOK
    <3>2. One(m = t) = 1
      BY <2>3 DEF One
    <3> HIDE DEF m
    <3>3. task[t] = "none"
      BY <2>2, <3>2, <1>a, <1>b DEF One
    <3> QED
      BY <2>1, <2>2, <3>1, <3>2, <3>3, <1>a, <1>b DEF One
  <2>4. CASE m # t
    <3>1. task'[t] = task[t]
      BY <1>6, <2>4 DEF HandleEvent, TypeOK
    <3>2. One(m = t) = 0
      BY <2>4 DEF One
    <3> HIDE DEF m
    <3> QED
      BY <2>1, <2>2, <3>1, <3>2, <1>a
  <2> QED
    BY <2>3, <2>4
<1>7. CASE HandleFsEvent
  BY <1>7, <1>a DEF HandleFsEvent
<1>8. CASE CommandSent
  <2>1. PICK m \in Call \cup {Notify} : command = <<m>>
    BY <1>8 DEF CommandSent, TypeOK
  <2>2. commands' = Append(commands, m)
    BY <1>8, <2>1, QueueStep DEF CommandSent, TypeOK, Message
  <2>3. Queued(commands', t) = Queued(commands, t)
    BY <2>2, <1>b, <1>c, QueuedAppend DEF TypeOK, Message
  <2>4. UNCHANGED <<arriving, sending, events, task, pending>>
    BY <1>8 DEF CommandSent
  <2> QED
    BY <2>3, <2>4, <1>a
<1>9. ASSUME NEW u \in Task, Request(u)
      PROVE  NoticeOf(arriving', sending', events', task') /\ RequestOf(commands', pending', task')
  <2>a. commands' = Append(commands, u) /\ commands \in Seq(Message) /\ u \in Message
    BY <1>9 DEF Request, TypeOK, Message
  <2>1. Queued(commands', t) = Queued(commands, t) + One(u = t)
    BY <2>a, QueuedAppend DEF One
  <2>2. task'[t] = IF t = u THEN "waiting" ELSE task[t]
    BY <1>9 DEF Request, TypeOK
  <2>3. task[u] = "calling" /\ UNCHANGED <<arriving, sending, events, pending>>
    BY <1>9 DEF Request
  <2> QED
    BY <2>1, <2>2, <2>3, <1>a, <1>b DEF One
<1>10. CASE Done
  BY <1>10, <1>a DEF Done, vars
<1> QED
  BY <1>1, <1>2, <1>3, <1>4, <1>5, <1>6, <1>7, <1>8, <1>9, <1>10 DEF Next, Network, Engine

\* OneReplyEach: a request of a task is queued or in pending_requests exactly while the
\* task waits, so each reply or failure finds its caller and none is left without.
THEOREM EveryRequestHasItsReply == Spec => []OneReplyEach
<1> DEFINE IInv == TypeOK /\ OneNotice /\ OneRequest
<1>1. Init => IInv
  BY InitType, InitOnce
<1>2. IInv /\ [Next]_vars => IInv'
  BY NextType, NextOnce
<1>3. IInv => OneReplyEach
  BY RequestIsReply
<1> QED
  BY <1>1, <1>2, <1>3, PTL DEF Spec

-----------------------------------------------------------------------------
(* Room in the channels *)

Calling == {t \in Task : task[t] = "calling"}

\* What still has to go through a channel, and what is in one: on the network's side
\* and on the engine's.
Inbound == Cardinality(arriving) + Len(sending) + Len(events)

Outbound == Cardinality(Calling) + local + Len(command) + Len(commands)

UnderWay == Inbound + Outbound

InitialLoad == Cardinality(Task \cup Call) + MaxLocal

LoadKept == UnderWay <= InitialLoad

LEMMA NumbersUnderWay ==
  ASSUME TypeOK, IsFiniteSet(Task), IsFiniteSet(Call)
  PROVE  /\ Cardinality(arriving) \in Nat /\ Cardinality(Calling) \in Nat /\ local \in Nat
         /\ Len(sending) \in Nat /\ Len(events) \in Nat
         /\ Len(command) \in Nat /\ Len(commands) \in Nat
         /\ IsFiniteSet(arriving) /\ IsFiniteSet(Calling)
         /\ InitialLoad \in Nat /\ Inbound \in Nat /\ Outbound \in Nat
<1>1. IsFiniteSet(Task \cup Call)
  BY FS_Union
<1>2. IsFiniteSet(arriving) /\ IsFiniteSet(Calling)
  BY <1>1, FS_Subset DEF TypeOK, Calling
<1>3. Cardinality(arriving) \in Nat /\ Cardinality(Calling) \in Nat /\ Cardinality(Task \cup Call) \in Nat
  BY <1>1, <1>2, FS_CardinalityType
<1>4. local \in Nat /\ InitialLoad \in Nat
  BY <1>3, LoadAssumption DEF TypeOK, InitialLoad
<1>5. Len(events) \in Nat /\ Len(commands) \in Nat
  BY LenProperties DEF TypeOK
<1>6. Len(sending) \in Nat /\ Len(command) \in Nat
  BY DEF TypeOK
<1>7. Inbound \in Nat
  BY <1>3, <1>5, <1>6 DEF Inbound
<1>8. Outbound \in Nat
  BY <1>3, <1>4, <1>5, <1>6 DEF Outbound
<1> QED
  BY <1>2, <1>3, <1>4, <1>5, <1>6, <1>7, <1>8

LEMMA InitLoad ==
  ASSUME Init, IsFiniteSet(Task), IsFiniteSet(Call)
  PROVE  LoadKept
<1>1. Calling = {}
  BY DEF Init, Calling
<1>2. Cardinality(Calling) = 0
  BY <1>1, FS_EmptySet
<1>3. InitialLoad \in Nat /\ Cardinality(arriving) \in Nat
  BY InitType, NumbersUnderWay
<1> QED
  BY <1>2, <1>3, LoadAssumption DEF Init, LoadKept, UnderWay, Inbound, Outbound, InitialLoad

\* No step adds to what is under way: a request replaces the event that caused it.
LEMMA NextLoad ==
  ASSUME TypeOK, LoadKept, [Next]_vars, IsFiniteSet(Task), IsFiniteSet(Call)
  PROVE  LoadKept'
<1>a. TypeOK'
  BY NextType
<1>g. Inbound \in Nat /\ Outbound \in Nat /\ InitialLoad \in Nat
  BY NumbersUnderWay
<1>n. /\ Cardinality(Calling) \in Nat /\ local \in Nat
      /\ Len(command) \in Nat /\ Len(commands) \in Nat
  BY NumbersUnderWay
<1>b. /\ Cardinality(arriving) \in Nat /\ Cardinality(Calling) \in Nat /\ local \in Nat
      /\ Len(sending) \in Nat /\ Len(events) \in Nat
      /\ Len(command) \in Nat /\ Len(commands) \in Nat
      /\ IsFiniteSet(arriving) /\ IsFiniteSet(Calling) /\ InitialLoad \in Nat
      /\ Inbound \in Nat /\ Outbound \in Nat
  BY NumbersUnderWay
<1>c. Inbound' \in Nat /\ Outbound' \in Nat
  <2>1. IsFiniteSet(Task \cup Call)
    BY FS_Union
  <2>2. IsFiniteSet(arriving') /\ IsFiniteSet(Calling')
    BY <2>1, <1>a, FS_Subset DEF TypeOK, Calling
  <2>3. Cardinality(arriving') \in Nat /\ Cardinality(Calling') \in Nat
    BY <2>2, FS_CardinalityType
  <2>4. local' \in Nat /\ Len(sending') \in Nat /\ Len(command') \in Nat
    BY <1>a DEF TypeOK
  <2>5. Len(events') \in Nat /\ Len(commands') \in Nat
    BY <1>a, LenProperties DEF TypeOK
  <2>6. Inbound' \in Nat
    BY <2>3, <2>4, <2>5 DEF Inbound
  <2>7. Outbound' \in Nat
    BY <2>3, <2>4, <2>5 DEF Outbound
  <2> QED
    BY <2>6, <2>7
<1>h. PICK i \in Nat, o \in Nat : i = Inbound' /\ o = Outbound'
  BY <1>c
<1>i. PICK i0 \in Nat, o0 \in Nat : i0 = Inbound /\ o0 = Outbound
  BY <1>g
<1>j. UnderWay' = i + o /\ UnderWay = i0 + o0
  BY <1>h, <1>i DEF UnderWay
<1>e. SUFFICES UnderWay' <= UnderWay
  <2>1. UnderWay \in Nat /\ UnderWay' \in Nat
    BY <1>j
  <2>2. InitialLoad' = InitialLoad
    BY DEF InitialLoad
  <2> QED
    BY <2>1, <2>2, <1>g DEF LoadKept
<1>f. ASSUME Inbound' = Inbound, Outbound' = Outbound
      PROVE  UnderWay' <= UnderWay
  BY <1>f, <1>h, <1>i, <1>j
<1>d. ASSUME UNCHANGED task
      PROVE  Calling' = Calling
  BY <1>d DEF Calling
<1>1. CASE UNCHANGED vars
  <2>1. Calling' = Calling
    BY <1>1, <1>d DEF vars
  <2>2. Inbound' = Inbound /\ Outbound' = Outbound
    BY <1>1, <2>1 DEF vars, Inbound, Outbound
  <2> QED
    BY <2>2, <1>f
<1>2. ASSUME NEW m \in Task \cup Call, SwarmEvent(m)
      PROVE  UnderWay' <= UnderWay
  <2>1. /\ sending = <<>> /\ sending' = <<m>> /\ m \in arriving /\ arriving' = arriving \ {m}
        /\ UNCHANGED <<events, command, commands, local>>
    BY <1>2 DEF SwarmEvent, AtSelect
  <2>2. Calling' = Calling
    BY <1>2, <1>d DEF SwarmEvent
  <2>3. Cardinality(arriving') = Cardinality(arriving) - 1
    BY <2>1, <1>b, FS_RemoveElement
  <2>4. Len(sending) = 0 /\ Len(sending') = 1 /\ Len(events') = Len(events)
    BY <2>1
  <2>5. Inbound' = Inbound
    BY <2>3, <2>4, <1>b DEF Inbound
  <2>6. Outbound' = Outbound
    BY <2>1, <2>2 DEF Outbound
  <2> QED
    BY <2>5, <2>6, <1>f
<1>3. CASE EventSent
  <2>1. PICK m \in Task \cup Call : sending = <<m>>
    BY <1>3 DEF EventSent, TypeOK
  <2>2. /\ events' = events \o <<m>> /\ sending' = <<>>
        /\ UNCHANGED <<arriving, command, commands, local>>
    BY <1>3, <2>1 DEF EventSent
  <2>3. Calling' = Calling
    BY <1>3, <1>d DEF EventSent
  <2>4. Len(events') = Len(events) + 1 /\ Len(sending) = 1 /\ Len(sending') = 0
    BY <2>1, <2>2, QueueStep DEF TypeOK
  <2>5. Inbound' = Inbound
    BY <2>2, <2>4, <1>b DEF Inbound
  <2>6. Outbound' = Outbound
    BY <2>2, <2>3 DEF Outbound
  <2> QED
    BY <2>5, <2>6, <1>f
<1>4. CASE HandleCommand
  <2>1. /\ commands # <<>> /\ commands' = Tail(commands)
        /\ UNCHANGED <<arriving, sending, events, command, local>>
    BY <1>4 DEF HandleCommand
  <2>2. Calling' = Calling
    BY <1>4, <1>d DEF HandleCommand
  <2>3. Len(commands') = Len(commands) - 1
    BY <2>1, HeadTailProperties DEF TypeOK
  <2>4. Inbound' = Inbound
    BY <2>1 DEF Inbound
  <2>5. Outbound' = Outbound - 1
    BY <2>1, <2>2, <2>3, <1>b DEF Outbound
  <2>7. i = i0
    BY <2>4, <1>h, <1>i
  <2>8. o <= o0
    BY <2>5, <1>h, <1>i
  <2>9. i + o <= i0 + o0
    BY <2>7, <2>8
  <2> QED
    BY <2>9, <1>j
<1>5. ASSUME NEW t \in Task, NEW outcome \in {"ok", "failed"}, Outcome(t, outcome)
      PROVE  UnderWay' <= UnderWay
  <2>1. UNCHANGED <<arriving, sending, events, command, commands, local>>
    BY <1>5 DEF Outcome
  <2>2. Calling' \subseteq Calling
    BY <1>5 DEF Outcome, Calling, TypeOK
  <2>3. Cardinality(Calling') <= Cardinality(Calling) /\ Cardinality(Calling') \in Nat
    BY <2>2, <1>b, FS_Subset, FS_CardinalityType
  <2>4. Inbound' = Inbound
    BY <2>1 DEF Inbound
  <2>5. Outbound' <= Outbound
    <3>1. Outbound' = Cardinality(Calling') + local + Len(command) + Len(commands)
      BY <2>1 DEF Outbound
    <3>2. Cardinality(Calling') + local + Len(command) + Len(commands)
            <= Cardinality(Calling) + local + Len(command) + Len(commands)
      BY <2>3, <1>n
    <3> QED
      BY <3>1, <3>2 DEF Outbound
  <2>7. i = i0
    BY <2>4, <1>h, <1>i
  <2>8. o <= o0
    BY <2>5, <1>h, <1>i
  <2>9. i + o <= i0 + o0
    BY <2>7, <2>8
  <2> QED
    BY <2>9, <1>j
<1>6. CASE HandleEvent
  <2>1. /\ events # <<>> /\ events' = Tail(events) /\ command = <<>>
        /\ UNCHANGED <<arriving, sending, commands, local>>
    BY <1>6 DEF HandleEvent, EngineFree
  <2>2. Len(events') = Len(events) - 1
    BY <2>1, HeadTailProperties DEF TypeOK
  <2>3. Inbound' = Inbound - 1
    BY <2>1, <2>2, <1>b DEF Inbound
  <2>4. Outbound' <= Outbound + 1
    <3>1. CASE Head(events) \in Task
      <4>1. command' = command /\ Calling' \subseteq Calling \cup {Head(events)}
        BY <1>6, <3>1 DEF HandleEvent, Calling, TypeOK
      <4>2. Cardinality(Calling') <= Cardinality(Calling) + 1 /\ Cardinality(Calling') \in Nat
        <5>1. /\ IsFiniteSet(Calling \cup {Head(events)})
              /\ Cardinality(Calling \cup {Head(events)})
                   = IF Head(events) \in Calling THEN Cardinality(Calling) ELSE Cardinality(Calling) + 1
          BY <1>b, FS_AddElement
        <5>2. /\ IsFiniteSet(Calling')
              /\ Cardinality(Calling') <= Cardinality(Calling \cup {Head(events)})
          BY <4>1, <5>1, FS_Subset
        <5>3. Cardinality(Calling') \in Nat
          BY <5>2, FS_CardinalityType
        <5> QED
          BY <5>1, <5>2, <5>3, <1>b
      <4> QED
        BY <2>1, <4>1, <4>2, <1>b DEF Outbound
    <3>2. CASE Head(events) \notin Task
      <4>1. command' = <<Head(events)>> /\ UNCHANGED task
        BY <1>6, <3>2 DEF HandleEvent
      <4>2. Calling' = Calling
        BY <4>1, <1>d
      <4>3. Len(command) = 0 /\ Len(command') = 1
        BY <2>1, <4>1
      <4> QED
        BY <2>1, <4>2, <4>3, <1>b DEF Outbound
    <3> QED
      BY <3>1, <3>2
  <2>7. i = i0 - 1
    BY <2>3, <1>h, <1>i
  <2>8. o <= o0 + 1
    BY <2>4, <1>h, <1>i
  <2>9. i + o <= i0 + o0
    BY <2>7, <2>8
  <2> QED
    BY <2>9, <1>j
<1>7. CASE HandleFsEvent
  <2>1. /\ command = <<>> /\ command' = <<Notify>> /\ local > 0 /\ local' = local - 1
        /\ UNCHANGED <<arriving, sending, events, commands>>
    BY <1>7 DEF HandleFsEvent, EngineFree
  <2>2. Calling' = Calling
    BY <1>7, <1>d DEF HandleFsEvent
  <2>3. Len(command) = 0 /\ Len(command') = 1
    BY <2>1
  <2>4. Inbound' = Inbound
    BY <2>1 DEF Inbound
  <2>5. Outbound' = Outbound
    BY <2>1, <2>2, <2>3, <1>b DEF Outbound
  <2> QED
    BY <2>4, <2>5, <1>f
<1>8. CASE CommandSent
  <2>1. PICK m \in Message : command = <<m>>
    BY <1>8 DEF CommandSent, TypeOK, Message
  <2>2. /\ commands' = commands \o <<m>> /\ command' = <<>>
        /\ UNCHANGED <<arriving, sending, events, local>>
    BY <1>8, <2>1 DEF CommandSent
  <2>3. Calling' = Calling
    BY <1>8, <1>d DEF CommandSent
  <2>4. Len(commands') = Len(commands) + 1 /\ Len(command) = 1 /\ Len(command') = 0
    BY <2>1, <2>2, QueueStep DEF TypeOK
  <2>5. Inbound' = Inbound
    BY <2>2 DEF Inbound
  <2>6. Outbound' = Outbound
    BY <2>2, <2>3, <2>4, <1>b DEF Outbound
  <2> QED
    BY <2>5, <2>6, <1>f
<1>9. ASSUME NEW t \in Task, Request(t)
      PROVE  UnderWay' <= UnderWay
  <2>1. /\ commands' = Append(commands, t) /\ t \in Message
        /\ UNCHANGED <<arriving, sending, events, command, local>>
    BY <1>9 DEF Request, Message
  <2>2. t \in Calling /\ Calling' = Calling \ {t}
    BY <1>9 DEF Request, Calling, TypeOK
  <2>3. Cardinality(Calling') = Cardinality(Calling) - 1
    BY <2>2, <1>b, FS_RemoveElement
  <2>4. Len(commands') = Len(commands) + 1
    BY <2>1, QueueStep DEF TypeOK
  <2>5. Inbound' = Inbound
    BY <2>1 DEF Inbound
  <2>6. Outbound' = Outbound
    <3>1. Outbound' = (Cardinality(Calling) - 1) + local + Len(command) + (Len(commands) + 1)
      BY <2>1, <2>3, <2>4 DEF Outbound
    <3>2. (Cardinality(Calling) - 1) + local + Len(command) + (Len(commands) + 1)
            = Cardinality(Calling) + local + Len(command) + Len(commands)
      BY <1>n
    <3> QED
      BY <3>1, <3>2 DEF Outbound
  <2> QED
    BY <2>5, <2>6, <1>f
<1>10. CASE Done
  <2>1. UNCHANGED vars
    BY <1>10 DEF Done
  <2> QED
    BY <1>1, <2>1
<1> QED
  BY <1>1, <1>2, <1>3, <1>4, <1>5, <1>6, <1>7, <1>8, <1>9, <1>10 DEF Next, Network, Engine

\* LoopsNotBlocked, for a load that fits into the two channels and one of the two loops:
\* then never the network waits for the engine while the engine waits for the network.
\* With one message more they can.
THEOREM RoomyLoopsNeverBlock ==
  ASSUME IsFiniteSet(Task), IsFiniteSet(Call), InitialLoad <= 2 * ChannelCapacity + 1
  PROVE  Spec => []LoopsNotBlocked
<1> DEFINE IInv == TypeOK /\ LoadKept
<1>1. Init => IInv
  BY InitType, InitLoad
<1>2. IInv /\ [Next]_vars => IInv'
  BY NextType, NextLoad
<1>3. IInv => LoopsNotBlocked
  <2> SUFFICES ASSUME IInv, ~LoopsNotBlocked
               PROVE  FALSE
    OBVIOUS
  <2>1. /\ Len(sending) = 1 /\ Len(command) = 1
        /\ Len(events) = ChannelCapacity /\ Len(commands) = ChannelCapacity
    BY DEF LoopsNotBlocked, TypeOK
  <2>2. /\ Cardinality(arriving) \in Nat /\ Cardinality(Calling) \in Nat
        /\ local \in Nat /\ InitialLoad \in Nat
    BY NumbersUnderWay
  <2>3. Inbound >= ChannelCapacity + 1 /\ Inbound \in Nat
    BY <2>1, <2>2, CapacityAssumption DEF Inbound
  <2>4. Outbound >= ChannelCapacity + 1 /\ Outbound \in Nat
    BY <2>1, <2>2, CapacityAssumption DEF Outbound
  <2>5. UnderWay <= 2 * ChannelCapacity + 1
    BY <2>2, <2>3, <2>4, CapacityAssumption DEF LoadKept, UnderWay
  <2> QED
    BY <2>3, <2>4, <2>5, CapacityAssumption DEF UnderWay
<1> QED
  BY <1>1, <1>2, <1>3, PTL DEF Spec
=============================================================================
