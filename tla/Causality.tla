------------------------------ MODULE Causality ------------------------------
(***************************************************************************)
(* What the clocks of conflict.rs are worth as the index uses them: every  *)
(* replica of one file keeps a FileMeta clock, ticks it on a local change  *)
(* (index.rs, local_file_changed) and merges the clock of the version it   *)
(* applies (sync_engine.rs, fetch_and_apply).  Beside each clock the model *)
(* keeps the set of edits the replica has really seen, the reference the   *)
(* clock is meant to stand for.                                            *)
(***************************************************************************)
EXTENDS Conflict, FiniteSets

CONSTANT MaxEdits    \* bound on the edits of all peers together

ASSUME MaxEditsAssumption == MaxEdits \in Nat

VARIABLES
  clock,       \* clock[p]: the clock in p's FileMeta
  modified,    \* modified[p]: last_modified of that FileMeta
  seen,        \* seen[p]: the edits <<author, k>> in the history of p's version
  versions     \* every version announced: its clock, timestamp, author, history

vars == <<clock, modified, seen, versions>>

CONSTANT Timestamp   \* what now_secs() may return; the peers' clocks are not synchronised

ASSUME TimestampAssumption == Timestamp \subseteq Nat

Edit == Peer \X (Nat \ {0})

Version == [clock : VectorClock, ts : Nat, peer : Peer, seen : SUBSET Edit]

Init ==
  /\ clock = [p \in Peer |-> NewClock]
  /\ modified = [p \in Peer |-> 0]
  /\ seen = [p \in Peer |-> {}]
  /\ versions = {}

\* Mutant: the change is announced without a tick of the local counter.
LocalChangeNoTick(p, ts) ==
  /\ Cardinality(versions) < MaxEdits
  /\ modified' = [modified EXCEPT ![p] = ts]
  /\ seen' = [seen EXCEPT ![p] = @ \cup {<<p, clock[p][p] + 1>>}]
  /\ versions' = versions \cup
       {[clock |-> clock[p], ts |-> ts, peer |-> p, seen |-> seen'[p]]}
  /\ UNCHANGED clock

\* local_file_changed at p, and the FileChanged notification it leads to.
LocalChange(p, ts) ==
  /\ Cardinality(versions) < MaxEdits
  /\ clock' = [clock EXCEPT ![p] = Tick(@, p)]
  /\ modified' = [modified EXCEPT ![p] = ts]
  /\ seen' = [seen EXCEPT ![p] = @ \cup {<<p, clock[p][p] + 1>>}]
  /\ versions' = versions \cup
       {[clock |-> clock'[p], ts |-> ts, peer |-> p, seen |-> seen'[p]]}

\* Mutant: the applied version's clock replaces the local one.
ApplyReplacesClock(p, v) ==
  /\ p # v.peer
  /\ Resolve(clock[p], v.clock, modified[p], v.ts, v.peer, p) \in {"Accept", "LocalLoses"}
  /\ clock' = [clock EXCEPT ![p] = v.clock]
  /\ modified' = [modified EXCEPT ![p] = v.ts]
  /\ seen' = [seen EXCEPT ![p] = @ \cup v.seen]
  /\ UNCHANGED versions

\* A FileChanged notification that p accepts, or that wins a conflict at p, is
\* applied: its clock is merged and its timestamp becomes last_modified.
Apply(p, v) ==
  /\ p # v.peer
  /\ Resolve(clock[p], v.clock, modified[p], v.ts, v.peer, p) \in {"Accept", "LocalLoses"}
  /\ clock' = [clock EXCEPT ![p] = Merge(@, v.clock)]
  /\ modified' = [modified EXCEPT ![p] = v.ts]
  /\ seen' = [seen EXCEPT ![p] = @ \cup v.seen]
  /\ UNCHANGED versions

Next ==
  \/ \E p \in Peer, ts \in Timestamp : LocalChange(p, ts)
  \/ \E p \in Peer, v \in versions : Apply(p, v)

Spec == Init /\ [][Next]_vars

-----------------------------------------------------------------------------
(* Correctness *)

\* Type invariant of the replicas.
TypeOK ==
  /\ clock \in [Peer -> VectorClock]
  /\ modified \in [Peer -> Nat]
  /\ seen \in [Peer -> SUBSET Edit]
  /\ versions \subseteq Version

\* The order that compare reports between a replica and any version it may be
\* told of is the order of their real histories: Before, After and Equal exactly
\* when one contains the other, Concurrent exactly when each has an edit the
\* other has not seen.  An edit is never taken for a conflict, nor a conflict
\* for an edit, as long as clocks only tick and merge.
ClockIsHistory ==
  \A p \in Peer, v \in versions :
    Compare(clock[p], v.clock) =
      CASE seen[p] = v.seen                                  -> "Equal"
        [] seen[p] # v.seen /\ seen[p] \subseteq v.seen      -> "Before"
        [] seen[p] # v.seen /\ v.seen \subseteq seen[p]      -> "After"
        [] ~(seen[p] \subseteq v.seen) /\ ~(v.seen \subseteq seen[p]) -> "Concurrent"

\* Any two announced versions by different peers are judged the same way at both
\* ends: if the holder of one would give way to the other, the holder of the
\* other keeps its own, and never do both give way or both insist.
BothEndsAgree ==
  \A v, w \in versions :
    v.peer # w.peer =>
      LET atV == Resolve(v.clock, w.clock, v.ts, w.ts, w.peer, v.peer)
          atW == Resolve(w.clock, v.clock, w.ts, v.ts, v.peer, w.peer)
      IN  /\ (atV = "LocalLoses") <=> (atW = "RemoteLoses")
          /\ (atV = "Accept") => (atW = "Reject")
          /\ (atV = "Reject" /\ v.seen # w.seen) => (atW = "Accept")

=============================================================================
