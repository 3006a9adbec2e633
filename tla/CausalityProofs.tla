--------------------------- MODULE CausalityProofs ---------------------------
(***************************************************************************)
(* For any peers, timestamps and number of edits: clocks that only tick    *)
(* and merge are exactly the histories they stand for.                     *)
(***************************************************************************)
EXTENDS Causality, ConflictProofs

\* The edits a clock counts.
History(c) == {e \in Edit : e[2] <= c[e[1]]}

\* The strengthening: every replica's and every version's history is what its
\* clock counts, so that comparing clocks is comparing histories.
HistoryInv ==
  /\ \A p \in Peer : seen[p] = History(clock[p])
  /\ \A v \in versions : v.seen = History(v.clock)

LEMMA HistoryInEdit == \A c : History(c) \subseteq Edit
BY DEF History

LEMMA HistoryOfNew == History(NewClock) = {}
BY DEF History, NewClock, Edit

LEMMA HistoryOfTick ==
  ASSUME NEW c \in VectorClock, NEW p \in Peer
  PROVE  History(Tick(c, p)) = History(c) \cup {<<p, c[p] + 1>>}
<1>1. ASSUME NEW q \in Peer, NEW k \in Nat \ {0}
      PROVE  k <= Tick(c, p)[q] <=> k <= c[q] \/ (q = p /\ k = c[p] + 1)
  BY DEF Tick, VectorClock
<1>2. <<p, c[p] + 1>> \in Edit
  BY DEF Edit, VectorClock
<1> QED
  BY <1>1, <1>2 DEF History, Edit

LEMMA HistoryOfMerge ==
  ASSUME NEW c \in VectorClock, NEW d \in VectorClock
  PROVE  History(Merge(c, d)) = History(c) \cup History(d)
<1>1. ASSUME NEW q \in Peer, NEW k \in Nat
      PROVE  k <= Merge(c, d)[q] <=> k <= c[q] \/ k <= d[q]
  BY DEF Merge, Max2, VectorClock
<1> QED
  BY <1>1 DEF History, Edit

\* One history contains another exactly when its clock dominates the other's.
LEMMA HistoryOrder ==
  ASSUME NEW c \in VectorClock, NEW d \in VectorClock
  PROVE  History(c) \subseteq History(d) <=> Dominates(d, c)
<1>1. ASSUME Dominates(d, c), NEW e \in History(c)
      PROVE  e \in History(d)
  <2>1. e \in Edit /\ e[1] \in Peer /\ e[2] \in Nat /\ e[2] <= c[e[1]]
    BY DEF History, Edit
  <2>2. c[e[1]] \in Nat /\ d[e[1]] \in Nat /\ c[e[1]] <= d[e[1]]
    BY <1>1, <2>1 DEF Dominates, VectorClock
  <2>3. e[2] <= d[e[1]]
    BY <2>1, <2>2
  <2> QED
    BY <2>1, <2>3 DEF History
<1>2. ASSUME History(c) \subseteq History(d), NEW q \in Peer
      PROVE  c[q] <= d[q]
  <2>1. c[q] \in Nat /\ d[q] \in Nat
    BY DEF VectorClock
  <2>2. CASE c[q] = 0
    BY <2>1, <2>2
  <2>3. CASE c[q] # 0
    <3>1. <<q, c[q]>> \in History(c)
      BY <2>1, <2>3 DEF History, Edit
    <3>2. <<q, c[q]>> \in History(d)
      BY <1>2, <3>1
    <3> QED
      BY <3>2 DEF History
  <2> QED
    BY <2>2, <2>3
<1> QED
  BY <1>1, <1>2 DEF Dominates

\* Replicas keep their types.
THEOREM CausalityTypeCorrect == Spec => []TypeOK
<1>1. Init => TypeOK
  BY ClockTypes DEF Init, TypeOK, Version
<1>2. TypeOK /\ [Next]_vars => TypeOK'
  <2> SUFFICES ASSUME TypeOK, [Next]_vars
               PROVE  TypeOK'
    OBVIOUS
  <2> USE DEF TypeOK
  <2>1. ASSUME NEW p \in Peer, NEW ts \in Timestamp, LocalChange(p, ts)
        PROVE  TypeOK'
    <3>1. clock' \in [Peer -> VectorClock] /\ modified' \in [Peer -> Nat]
      BY <2>1, ClockTypes, TimestampAssumption DEF LocalChange
    <3>2. <<p, clock[p][p] + 1>> \in Edit
      BY DEF Edit, VectorClock
    <3>3. seen' \in [Peer -> SUBSET Edit]
      BY <2>1, <3>2 DEF LocalChange
    <3>4. [clock |-> clock'[p], ts |-> ts, peer |-> p, seen |-> seen'[p]] \in Version
      BY <3>1, <3>3, TimestampAssumption DEF Version
    <3> QED
      BY <2>1, <3>1, <3>3, <3>4 DEF LocalChange
  <2>2. ASSUME NEW p \in Peer, NEW v \in versions, Apply(p, v)
        PROVE  TypeOK'
    <3>1. v.clock \in VectorClock /\ v.ts \in Nat /\ v.seen \in SUBSET Edit
      BY DEF Version
    <3> QED
      BY <2>2, <3>1, ClockTypes DEF Apply
  <2>3. CASE UNCHANGED vars
    BY <2>3 DEF vars
  <2> QED
    BY <2>1, <2>2, <2>3 DEF Next
<1> QED
  BY <1>1, <1>2, PTL DEF Spec

THEOREM HistoryInvariant == Spec => []HistoryInv
<1>1. Init => HistoryInv
  BY HistoryOfNew DEF Init, HistoryInv
<1>2. TypeOK /\ HistoryInv /\ [Next]_vars => HistoryInv'
  <2> SUFFICES ASSUME TypeOK, HistoryInv, [Next]_vars
               PROVE  HistoryInv'
    OBVIOUS
  <2> USE DEF TypeOK, HistoryInv
  <2>1. ASSUME NEW p \in Peer, NEW ts \in Timestamp, LocalChange(p, ts)
        PROVE  HistoryInv'
    <3>1. clock'[p] = Tick(clock[p], p) /\ seen'[p] = History(clock'[p])
      BY <2>1, HistoryOfTick DEF LocalChange
    <3>2. \A q \in Peer : seen'[q] = History(clock'[q])
      BY <2>1, <3>1 DEF LocalChange
    <3> DEFINE w == [clock |-> clock'[p], ts |-> ts, peer |-> p, seen |-> seen'[p]]
    <3>3. versions' = versions \cup {w}
      BY <2>1 DEF LocalChange
    <3>4. w.seen = History(w.clock)
      BY <3>1
    <3>5. \A v \in versions' : v.seen = History(v.clock)
      BY <3>3, <3>4
    <3> QED
      BY <3>2, <3>5
  <2>2. ASSUME NEW p \in Peer, NEW v \in versions, Apply(p, v)
        PROVE  HistoryInv'
    <3>1. v.clock \in VectorClock
      BY DEF Version
    <3>2. seen'[p] = History(clock'[p])
      BY <2>2, <3>1, HistoryOfMerge DEF Apply
    <3> QED
      BY <2>2, <3>2 DEF Apply
  <2>3. CASE UNCHANGED vars
    BY <2>3 DEF vars
  <2> QED
    BY <2>1, <2>2, <2>3 DEF Next
<1> QED
  BY <1>1, <1>2, CausalityTypeCorrect, PTL DEF Spec

\* compare reports the order of the real histories, for every replica and every
\* version it may be told of.
THEOREM ComparisonIsCausality == Spec => []ClockIsHistory
<1>1. TypeOK /\ HistoryInv => ClockIsHistory
  <2> SUFFICES ASSUME TypeOK, HistoryInv, NEW p \in Peer, NEW v \in versions
               PROVE  Compare(clock[p], v.clock) =
                 CASE seen[p] = v.seen                                  -> "Equal"
                   [] seen[p] # v.seen /\ seen[p] \subseteq v.seen      -> "Before"
                   [] seen[p] # v.seen /\ v.seen \subseteq seen[p]      -> "After"
                   [] ~(seen[p] \subseteq v.seen) /\ ~(v.seen \subseteq seen[p]) -> "Concurrent"
    BY DEF ClockIsHistory
  <2> DEFINE c == clock[p]
             d == v.clock
  <2>1. c \in VectorClock /\ d \in VectorClock
    BY DEF TypeOK, Version
  <2>2. seen[p] = History(c) /\ v.seen = History(d)
    BY DEF HistoryInv
  <2>3. /\ seen[p] \subseteq v.seen <=> Dominates(d, c)
        /\ v.seen \subseteq seen[p] <=> Dominates(c, d)
    BY <2>1, <2>2, HistoryOrder
  <2>4. seen[p] = v.seen <=> Dominates(d, c) /\ Dominates(c, d)
    BY <2>3
  <2>5. /\ Compare(c, d) = "Equal"      <=> Dominates(d, c) /\ Dominates(c, d)
        /\ Compare(c, d) = "Before"     <=> Dominates(d, c) /\ ~Dominates(c, d)
        /\ Compare(c, d) = "After"      <=> ~Dominates(d, c) /\ Dominates(c, d)
        /\ Compare(c, d) = "Concurrent" <=> ~Dominates(d, c) /\ ~Dominates(c, d)
    BY <2>1, CompareIsOrder
  <2> QED
    BY <2>3, <2>4, <2>5
<1> QED
  BY <1>1, CausalityTypeCorrect, HistoryInvariant, PTL

\* Whatever two versions were announced by different peers, their two ends agree
\* on which of them survives.
THEOREM EndsAgree == Spec => []BothEndsAgree
<1>1. TypeOK /\ HistoryInv => BothEndsAgree
  <2> SUFFICES ASSUME TypeOK, HistoryInv, NEW v \in versions, NEW w \in versions,
                      v.peer # w.peer
               PROVE  LET atV == Resolve(v.clock, w.clock, v.ts, w.ts, w.peer, v.peer)
                          atW == Resolve(w.clock, v.clock, w.ts, v.ts, v.peer, w.peer)
                      IN  /\ (atV = "LocalLoses") <=> (atW = "RemoteLoses")
                          /\ (atV = "Accept") => (atW = "Reject")
                          /\ (atV = "Reject" /\ v.seen # w.seen) => (atW = "Accept")
    BY DEF BothEndsAgree
  <2>1. /\ v.clock \in VectorClock /\ w.clock \in VectorClock
        /\ v.ts \in Nat /\ w.ts \in Nat
        /\ v.peer \in Peer /\ w.peer \in Peer
    BY DEF TypeOK, Version
  <2>2. v.seen # w.seen => v.clock # w.clock
    BY DEF HistoryInv
  <2> QED
    BY <2>1, <2>2, ResolveAgreement
<1> QED
  BY <1>1, CausalityTypeCorrect, HistoryInvariant, PTL

=============================================================================
