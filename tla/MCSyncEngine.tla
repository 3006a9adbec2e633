---------------------------- MODULE MCSyncEngine ----------------------------
(***************************************************************************)
(* Instances of SyncEngine under every interleaving and failure.  The      *)
(* conflict name does not depend on the peer: every ed25519 peer id starts *)
(* with the same bytes, and those are the ones conflict_filename uses.     *)
(***************************************************************************)
EXTENDS SyncEngine

CONSTANTS f1, b1, ca, cb

SameName == [k \in {f1} \X Peer |-> b1]

Pairs == {e \in Peer \X Peer : e[1] # e[2]}

\* Peers 1 and 3 know each other through peer 2 only.
ThroughSecond == {e \in Pairs : 2 \in {e[1], e[2]}}

\* Only peer 2 has still to reconcile.
OneMet == {<<1, 2>>}

\* Peers 1 and 3 have still to reconcile, with peer 2.
BothUnmet == {<<2, 1>>, <<2, 3>>}

NothingExcluded == [p \in Peer |-> {}]

\* Peer 3 excludes the file that the others share.
Peer3Excludes == [p \in Peer |-> IF p = 3 THEN {f1} ELSE {}]

Peer2Excludes == [p \in Peer |-> IF p = 2 THEN {f1} ELSE {}]

AllUp == [p \in Peer |-> "up"]

\* Peer 3 is the id that a restarted machine will get.
SpareId == [p \in Peer |-> IF p = 3 THEN "unused" ELSE "up"]

\* Peer 2 has still to be started.
SecondOff == [p \in Peer |-> IF p = 2 THEN "off" ELSE "up"]

Holding(c) == [x \in {f1, b1} |-> IF x = f1 THEN c ELSE None]

\* Every peer holds the same file.
Shared == {[p \in Peer |-> Holding(<<ca, cb>>)]}

\* Only peer 1 holds the file.
OneHolder == {[p \in Peer |-> IF p = 1 THEN Holding(<<ca, cb>>) ELSE Holding(None)]}

\* Only peer 2 holds the file.
SecondHolder == {[p \in Peer |-> IF p = 2 THEN Holding(<<ca, cb>>) ELSE Holding(None)]}

\* Peer 1 and the others hold different versions of the file.
TwoVersions == {[p \in Peer |-> IF p = 1 THEN Holding(<<ca, cb>>) ELSE Holding(<<cb>>)]}

\* Three versions of the file, and an old conflict copy at peer 3.
VersionsAndCopy ==
  {[p \in Peer |->
      CASE p = 1 -> Holding(<<ca, cb>>)
        [] p = 3 -> [x \in {f1, b1} |-> <<ca>>]
        [] OTHER -> Holding(<<cb>>)]}

\* The first chunk of the file of peer 1 is all the others have of it.
CommonChunk == {[p \in Peer |-> IF p = 1 THEN Holding(<<ca, cb>>) ELSE Holding(<<ca>>)]}

ShortAndLong == {<<cb>>, <<cb, cb>>}

One == {<<cb>>}

=============================================================================
