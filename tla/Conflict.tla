------------------------------ MODULE Conflict ------------------------------
(***************************************************************************)
(* Vector clocks and conflict resolution of p2sync-core (conflict.rs).     *)
(*                                                                         *)
(* A peer id is eight bytes compared lexicographically: here a number.  A  *)
(* clock is a map from peer ids to u64 counters in which an absent entry   *)
(* reads as zero (compare, unwrap_or(0)), so it is a total function.  The  *)
(* counters are not given a width: 2^64 edits of one file are out of reach.*)
(***************************************************************************)
EXTENDS Integers

CONSTANT Peer    \* the PeerIds of conflict.rs: the first bytes of a libp2p id

ASSUME PeerAssumption == Peer \subseteq Nat

VectorClock == [Peer -> Nat]

NewClock == [q \in Peer |-> 0]

Max2(a, b) == IF a >= b THEN a ELSE b

\* Mutant: the counter goes down.
TickDown(c, p) == [c EXCEPT ![p] = @ - 1]

\* tick: a local modification by p.
Tick(c, p) == [c EXCEPT ![p] = @ + 1]

\* merge: the component-wise maximum.
Merge(c, d) == [q \in Peer |-> Max2(c[q], d[q])]

\* The two flags that the loop of compare computes.
HasLess(c, d)    == \E q \in Peer : c[q] < d[q]
HasGreater(c, d) == \E q \in Peer : c[q] > d[q]

\* compare is wrong here in the way a scan that stops at its first difference
\* would be: two concurrent clocks are reported as ordered.
CompareFirstDifference(c, d) ==
  CASE HasLess(c, d)                         -> "Before"
    [] ~HasLess(c, d) /\ HasGreater(c, d)    -> "After"
    [] ~HasLess(c, d) /\ ~HasGreater(c, d)   -> "Equal"

Compare(c, d) ==
  CASE HasLess(c, d) /\ HasGreater(c, d)     -> "Concurrent"
    [] HasLess(c, d) /\ ~HasGreater(c, d)    -> "Before"
    [] ~HasLess(c, d) /\ HasGreater(c, d)    -> "After"
    [] ~HasLess(c, d) /\ ~HasGreater(c, d)   -> "Equal"

\* c <= d in the causal order, the reading of Before or Equal.
Dominates(d, c) == \A q \in Peer : c[q] <= d[q]

\* Mutant: the tie break is missing, each side of a tie keeps its own version.
RemoteWinsNoTieBreak(localTs, remoteTs, remotePeer, localPeer) ==
  remoteTs > localTs

(***************************************************************************)
(* Last writer wins by timestamp, ties broken by peer id.                  *)
(***************************************************************************)
RemoteWins(localTs, remoteTs, remotePeer, localPeer) ==
  \/ remoteTs > localTs
  \/ remoteTs = localTs /\ remotePeer > localPeer

(***************************************************************************)
(* resolve.  Resolution::Conflict carries the losing peer; as the loser is *)
(* one of the two peers involved it is "LocalLoses" or "RemoteLoses".      *)
(***************************************************************************)
Resolution == {"Accept", "Reject", "LocalLoses", "RemoteLoses"}

Resolve(localClock, remoteClock, localTs, remoteTs, remotePeer, localPeer) ==
  LET order == Compare(localClock, remoteClock)
      wins  == RemoteWins(localTs, remoteTs, remotePeer, localPeer)
  IN  CASE order = "Before"                        -> "Accept"
        [] order \in {"After", "Equal"}            -> "Reject"
        [] order = "Concurrent" /\ wins            -> "LocalLoses"
        [] order = "Concurrent" /\ ~wins           -> "RemoteLoses"

=============================================================================
