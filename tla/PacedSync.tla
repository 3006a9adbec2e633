------------------------------ MODULE PacedSync ------------------------------
(***************************************************************************)
(* SyncEngine in a group whose users and machines behave: what it takes    *)
(* for the folders to converge and for no edit to be lost.  Work proceeds  *)
(* in rounds: users edit, every edit is announced, and only then do the    *)
(* notifications travel; the next round starts once all is quiet.  Edits   *)
(* of one round are concurrent, edits of two rounds are not.               *)
(*                                                                         *)
(* Each assumption has a name and can be dropped on its own.  Nothing is   *)
(* lost and no request fails.  Clocks need not agree: each runs ahead of   *)
(* the true time by a constant.                                            *)
(***************************************************************************)
EXTENDS SyncEngine

CONSTANTS
  Assumed,     \* the assumptions this instance makes
  MaxRounds,   \* bound on the rounds of edits
  MaxSkew      \* bound on how far a clock runs ahead

(***************************************************************************)
(* prompt: the watcher and the engine announce an edit before any          *)
(*         notification of the round arrives                               *)
(* quiet:  users do not edit while the group is synchronising              *)
(* once:   a user edits a file at most once in a round                     *)
(* patient: a user does not edit a file again within the debounce window   *)
(* single: a file that is deleted in a round is not edited in that round   *)
(***************************************************************************)
Assumptions == {"prompt", "quiet", "once", "patient", "single"}

ASSUME AssumedAssumption == Assumed \subseteq Assumptions

ASSUME RoundAssumption == MaxRounds \in Nat /\ MaxSkew \in Nat

VARIABLES
  round,   \* the rounds begun
  phase,   \* "edit": users work; "sync": the group synchronises
  skew,    \* skew[p]: how far the clock of p is ahead
  edits    \* the edits of this round: who left what in which file

pacedVars == <<round, phase, skew, edits>>

Edit == [peer : Peer, file : File, left : Content \cup {None}]

Now(p) == round + skew[p]

\* Only the differences between clocks matter: the slowest one is right.
PacedInit ==
  /\ Init
  /\ round = 0
  /\ phase = "sync"
  /\ skew \in [Peer -> 0 .. MaxSkew]
  /\ \E p \in Peer : skew[p] = 0
  /\ edits = {}

\* Every edit has been announced and every event of the engine's own has passed.
Drained == \A p \in Peer : raw[p] = <<>> /\ chan[p] = <<>>

Quiet ==
  /\ Drained /\ gossip = {}
  /\ \A p \in Peer : inbox[p] \cup fetches[p] \cup unindex[p] \cup recon[p] = {}

Acquainted == \A e \in Link : Running(e[1]) /\ Running(e[2]) => e \in met

(***************************************************************************)
(* Users                                                                   *)
(***************************************************************************)
Record(p, f, c) ==
  edits' = {e \in edits : e.peer # p \/ e.file # f}
             \cup {[peer |-> p, file |-> f, left |-> c]}

MayEdit(p, f) ==
  /\ "quiet" \in Assumed => phase = "edit"
  /\ "once" \in Assumed => \A e \in edits : e.peer # p \/ e.file # f
  /\ "patient" \in Assumed => f \notin debounce[p]

PacedWrite(p, f, v) ==
  /\ MayEdit(p, f)
  /\ "single" \in Assumed => \A e \in edits : e.file = f => e.left # None
  /\ UserWrite(p, f, v)
  /\ Record(p, f, v)
  /\ UNCHANGED <<round, phase, skew>>

PacedRemove(p, f) ==
  /\ MayEdit(p, f)
  /\ "single" \in Assumed => \A e \in edits : e.file # f
  /\ UserRemove(p, f)
  /\ Record(p, f, None)
  /\ UNCHANGED <<round, phase, skew>>

StartRound ==
  /\ phase = "sync" /\ Quiet /\ Acquainted /\ round < MaxRounds
  /\ \A p \in Peer : guard[p] = {} /\ debounce[p] = {}
  /\ round' = round + 1
  /\ phase' = "edit"
  /\ edits' = {}
  /\ UNCHANGED <<vars, skew>>

EndEdits ==
  /\ phase = "edit" /\ edits # {}
  /\ "prompt" \in Assumed => Drained
  /\ phase' = "sync"
  /\ UNCHANGED <<vars, round, skew, edits>>

\* Between rounds nobody works for longer than both windows last.
PacedPause(p) == phase = "sync" /\ Quiet /\ Pause(p) /\ UNCHANGED pacedVars

\* The debounce window is short: it may be over at any time.
DebounceEnds(p) ==
  /\ debounce[p] # {}
  /\ debounce' = [debounce EXCEPT ![p] = {}]
  /\ UNCHANGED <<status, folderVars, indexVars, guard, chan, netVars, taskVars,
                 ops, issued, pacedVars>>

(***************************************************************************)
(* The system.  A window is never over before the event it is there for.   *)
(***************************************************************************)
Within(p, q) == q # <<>> /\ Head(q).path \in guard[p]

PacedWatch(p) ==
  /\ \/ BridgeDrops(p)
     \/ ~Within(p, raw[p]) /\ BridgeForwards(p)
     \/ SuppressFsEvent(p)
     \/ /\ ~Within(p, chan[p])
        /\ chan[p] # <<>> => Head(chan[p]).path \notin debounce[p]
        /\ IgnoreFsEvent(p) \/ AnnounceChange(p, Now(p))
     \/ AnnounceRemoval(p, Now(p))
  /\ UNCHANGED pacedVars

PacedArrival(p) ==
  phase = "sync" /\ ArrivalStep(p) /\ UNCHANGED pacedVars

PacedTask(p) == TaskStep(p, Now(p)) /\ UNCHANGED pacedVars

PacedNext ==
  \/ StartRound
  \/ EndEdits
  \/ \E p \in Peer : \/ \E f \in File : \/ \E v \in Version : PacedWrite(p, f, v)
                                        \/ PacedRemove(p, f)
                     \/ PacedPause(p)
                     \/ DebounceEnds(p)
                     \/ PacedWatch(p)
                     \/ PacedArrival(p)
                     \/ PacedTask(p)

\* The operating system runs every thread and tokio every ready task; requests
\* are answered because nothing fails here.  Users and rounds owe nothing.
PacedFairness ==
  \A p \in Peer : /\ WF_<<vars, pacedVars>>(PacedWatch(p))
                  /\ WF_<<vars, pacedVars>>(PacedArrival(p))
                  /\ WF_<<vars, pacedVars>>(PacedTask(p))

PacedSpec ==
  PacedInit /\ [][PacedNext]_<<vars, pacedVars>> /\ PacedFairness

-----------------------------------------------------------------------------
(* Correctness *)

\* Type invariant of the engine and of the rounds.
PacedTypeOK ==
  /\ TypeOK
  /\ round \in 0 .. MaxRounds
  /\ phase \in {"edit", "sync"}
  /\ skew \in [Peer -> 0 .. MaxSkew]
  /\ edits \subseteq Edit

Settled == phase = "sync" /\ Quiet /\ Acquainted

\* Once a round has settled every peer holds the same files: what any peer
\* changed has reached every other.
FoldersAgree ==
  Settled => \A p, q \in Peer, f \in File : disk[p][f] = disk[q][f]

\* Once a round has settled every index knows the files of its folder.
IndexAgrees ==
  Settled => \A p \in Peer, f \in File : tree[p][f] = disk[p][f]

\* As resolve decides between the authors of two edits of one round.
GivesWayTo(d, e) == RemoteWins(Now(d.peer), Now(e.peer), e.peer, d.peer)

\* Of the edits of a round to one file the latest, by its author's clock, is in every
\* folder when the round has settled.
LatestWins ==
  Settled =>
    \A e \in edits :
      (\A d \in edits : d.file = e.file /\ d # e => GivesWayTo(d, e)) =>
        \A p \in Peer : disk[p][e.file] = e.left

\* A round leaves the group with one folder, that of the latest edits, and every index
\* with that folder.
Convergence == FoldersAgree /\ LatestWins /\ IndexAgrees

\* What a user left in a file is, when the round has settled, still on the user's
\* machine: as the file, or as its conflict copy.
EditKept ==
  phase = "sync" /\ Quiet =>
    \A e \in edits :
      e.left # None =>
        e.left \in {disk[e.peer][e.file], disk[e.peer][ConflictName[<<e.file, e.peer>>]]}

\* A round always settles: no edit makes two engines answer each other for ever,
\* no task waits for ever.
RoundsSettle == phase = "sync" ~> Quiet

\* A conflict copy, once made, is there until its user takes it away.
ConflictCopyKept ==
  [][\A p \in Peer, x \in Backup :
       disk[p][x] # None /\ disk'[p][x] # disk[p][x] => ops' # ops]_<<vars, pacedVars>>

\* Only edits that are concurrent are taken for a conflict: a conflict copy is
\* written only in a round in which two peers edited.
ConflictsAreConcurrent ==
  [][\A p \in Peer, x \in Backup :
       disk'[p][x] # disk[p][x] => Cardinality({e.peer : e \in edits}) > 1]_<<vars, pacedVars>>

=============================================================================
