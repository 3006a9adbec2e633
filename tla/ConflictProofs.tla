--------------------------- MODULE ConflictProofs ---------------------------
(***************************************************************************)
(* Facts about the operators of Conflict, for any set of peers.            *)
(***************************************************************************)
EXTENDS Conflict, TLAPS

\* Clocks stay clocks.
LEMMA ClockTypes ==
  /\ NewClock \in VectorClock
  /\ \A c \in VectorClock, p \in Peer : Tick(c, p) \in VectorClock
  /\ \A c, d \in VectorClock : Merge(c, d) \in VectorClock
BY DEF NewClock, VectorClock, Tick, Merge, Max2

\* A local change moves a clock strictly forward.
LEMMA TickDominates ==
  ASSUME NEW c \in VectorClock, NEW p \in Peer
  PROVE  Dominates(Tick(c, p), c) /\ ~Dominates(c, Tick(c, p))
BY DEF VectorClock, Tick, Dominates

\* merge is the least upper bound of its arguments in the causal order.
LEMMA MergeIsLub ==
  ASSUME NEW c \in VectorClock, NEW d \in VectorClock, NEW e \in VectorClock
  PROVE  /\ Dominates(Merge(c, d), c)
         /\ Dominates(Merge(c, d), d)
         /\ Dominates(e, c) /\ Dominates(e, d) => Dominates(e, Merge(c, d))
BY DEF VectorClock, Merge, Max2, Dominates

\* compare tells the four cases of the causal order apart.
LEMMA CompareIsOrder ==
  ASSUME NEW c \in VectorClock, NEW d \in VectorClock
  PROVE  /\ Compare(c, d) = "Equal"      <=> Dominates(d, c) /\ Dominates(c, d)
         /\ Compare(c, d) = "Before"     <=> Dominates(d, c) /\ ~Dominates(c, d)
         /\ Compare(c, d) = "After"      <=> ~Dominates(d, c) /\ Dominates(c, d)
         /\ Compare(c, d) = "Concurrent" <=> ~Dominates(d, c) /\ ~Dominates(c, d)
<1>1. Dominates(d, c) <=> ~HasGreater(c, d)
  BY DEF Dominates, HasGreater, VectorClock
<1>2. Dominates(c, d) <=> ~HasLess(c, d)
  BY DEF Dominates, HasLess, VectorClock
<1> QED
  BY <1>1, <1>2 DEF Compare

\* Two clocks that dominate each other are the same clock.
LEMMA DominatesAntisymmetric ==
  ASSUME NEW c \in VectorClock, NEW d \in VectorClock,
         Dominates(c, d), Dominates(d, c)
  PROVE  c = d
<1>1. ASSUME NEW q \in Peer
      PROVE  c[q] = d[q]
  <2>1. c[q] \in Nat /\ d[q] \in Nat
    BY DEF VectorClock
  <2>2. c[q] <= d[q] /\ d[q] <= c[q]
    BY DEF Dominates
  <2> QED
    BY <2>1, <2>2
<1> QED
  BY <1>1 DEF VectorClock

\* The two ends of a comparison see it from opposite sides.
LEMMA CompareDual ==
  ASSUME NEW c \in VectorClock, NEW d \in VectorClock
  PROVE  /\ Compare(c, d) = "Before" <=> Compare(d, c) = "After"
         /\ Compare(c, d) = "Equal" <=> Compare(d, c) = "Equal"
         /\ Compare(c, d) = "Concurrent" <=> Compare(d, c) = "Concurrent"
BY CompareIsOrder

LEMMA CompareCases ==
  ASSUME NEW c \in VectorClock, NEW d \in VectorClock
  PROVE  Compare(c, d) \in {"Before", "After", "Equal", "Concurrent"}
BY DEF Compare

\* Exactly one of two different peers wins a conflict, whichever end decides.
LEMMA OneWinner ==
  ASSUME NEW p \in Peer, NEW q \in Peer, p # q, NEW s \in Nat, NEW t \in Nat
  PROVE  RemoteWins(s, t, q, p) <=> ~RemoteWins(t, s, p, q)
BY PeerAssumption DEF RemoteWins

\* resolve is decided alike at both ends: two peers that compare the same two
\* versions never both give way and never both insist, and if one accepts, or
\* rejects a different clock, the other does the opposite.
THEOREM ResolveAgreement ==
  ASSUME NEW c \in VectorClock, NEW d \in VectorClock,
         NEW s \in Nat, NEW t \in Nat,
         NEW p \in Peer, NEW q \in Peer, p # q
  PROVE  LET here  == Resolve(c, d, s, t, q, p)
             there == Resolve(d, c, t, s, p, q)
         IN  /\ here = "LocalLoses" <=> there = "RemoteLoses"
             /\ here = "Accept" => there = "Reject"
             /\ here = "Reject" /\ c # d => there = "Accept"
<1>1. RemoteWins(s, t, q, p) <=> ~RemoteWins(t, s, p, q)
  BY OneWinner
<1>2. /\ Compare(c, d) = "Before" <=> Compare(d, c) = "After"
      /\ Compare(d, c) = "Before" <=> Compare(c, d) = "After"
      /\ Compare(c, d) = "Equal" <=> Compare(d, c) = "Equal"
      /\ Compare(c, d) = "Concurrent" <=> Compare(d, c) = "Concurrent"
  BY CompareDual
<1>3. Compare(c, d) = "Equal" => c = d
  BY CompareIsOrder, DominatesAntisymmetric
<1>4. /\ Compare(c, d) \in {"Before", "After", "Equal", "Concurrent"}
      /\ Compare(d, c) \in {"Before", "After", "Equal", "Concurrent"}
  BY CompareCases
<1>5. CASE Compare(c, d) = "Before"
  BY <1>2, <1>4, <1>5 DEF Resolve
<1>6. CASE Compare(c, d) = "After"
  BY <1>2, <1>4, <1>6 DEF Resolve
<1>7. CASE Compare(c, d) = "Equal"
  BY <1>2, <1>3, <1>4, <1>7 DEF Resolve
<1>8. CASE Compare(c, d) = "Concurrent"
  BY <1>1, <1>2, <1>4, <1>8 DEF Resolve
<1> QED
  BY <1>4, <1>5, <1>6, <1>7, <1>8

=============================================================================
