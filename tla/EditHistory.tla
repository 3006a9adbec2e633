---------------------------- MODULE EditHistory ----------------------------
(***************************************************************************)
(* What the indexes of a group promise about the edits of its files, with  *)
(* no clocks, messages, transfers or conflicts.  An index holds files, and *)
(* knows of each a set of edits.  While it holds the file the set only     *)
(* grows: by an edit of its own, which everyone may then learn of, or by   *)
(* edits that were announced.  SyncEngine implements this module with      *)
(* vector clocks.                                                          *)
(***************************************************************************)
EXTENDS Naturals

CONSTANTS Peer, File

VARIABLES
  held,       \* held[p]: the files in the index of p
  known,      \* known[p][f]: the edits of f that p has in its history
  announced   \* announced[p][f]: how many edits of f by p were announced

vars == <<held, known, announced>>

\* The edits of f that somebody may have heard of; <<q, k>> is the k-th of q.
Announced(f) == UNION {{q} \X (1 .. announced[q][f]) : q \in Peer}

Init ==
  /\ held \in [Peer -> SUBSET File]
  /\ known = [p \in Peer |-> [f \in File |-> {}]]
  /\ announced = [p \in Peer |-> [f \in File |-> 0]]

\* A folder is indexed: its files are held, and no edit is known of them.
Open(p, files) ==
  /\ held[p] = {}
  /\ held' = [held EXCEPT ![p] = files]
  /\ UNCHANGED <<known, announced>>

\* p announces an edit of f, the next one of its own that its history lacks.
Edit(p, f) ==
  \E k \in 1 .. announced[p][f] + 1 :
    /\ \A i \in 1 .. announced[p][f] + 1 : <<p, i>> \in known[p][f] <=> i < k
    /\ held' = [held EXCEPT ![p] = @ \cup {f}]
    /\ known' = [known EXCEPT ![p][f] = @ \cup {<<p, k>>}]
    /\ announced' = [announced EXCEPT ![p][f] = @ + 1]

\* p takes over somebody's version of f, and with it the edits it includes.
Learn(p, f) ==
  \E edits \in SUBSET Announced(f) :
    /\ held' = [held EXCEPT ![p] = @ \cup {f}]
    /\ known' = [known EXCEPT ![p][f] = @ \cup edits]
    /\ UNCHANGED announced

\* A deletion: the file and its history leave the index together.
Drop(p, f) ==
  /\ held' = [held EXCEPT ![p] = @ \ {f}]
  /\ known' = [known EXCEPT ![p][f] = {}]
  /\ UNCHANGED announced

\* The process stops, and its index is gone.
Close(p) ==
  /\ held' = [held EXCEPT ![p] = {}]
  /\ known' = [known EXCEPT ![p] = [f \in File |-> {}]]
  /\ UNCHANGED announced

Next ==
  \E p \in Peer :
    \/ \E files \in SUBSET File : Open(p, files)
    \/ \E f \in File : Edit(p, f) \/ Learn(p, f) \/ Drop(p, f)
    \/ Close(p)

Spec == Init /\ [][Next]_vars

=============================================================================
