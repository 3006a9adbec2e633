---------------------------- MODULE MCPacedSync ----------------------------
(* Instances of PacedSync. *)
EXTENDS PacedSync

CONSTANTS f1, b1, ca, cb, cc

SameName == [k \in {f1} \X Peer |-> b1]

Pairs == {e \in Peer \X Peer : e[1] # e[2]}

\* Peer 2 stands between 1 and 3.
Line == {e \in Pairs : 2 \in {e[1], e[2]}}

NothingExcluded == [p \in Peer |-> {}]

AllUp == [p \in Peer |-> "up"]

Holding(v) == [x \in {f1, b1} |-> IF x = f1 THEN v ELSE None]

\* Every peer holds the same file.
Shared == {[p \in Peer |-> Holding(<<ca, ca>>)]}

\* Only peer 1 holds the file.
OneHolder == {[p \in Peer |-> IF p = 1 THEN Holding(<<ca, ca>>) ELSE Holding(None)]}

HolderOrAll == Shared \cup OneHolder

\* Peers 1 and 2 hold different versions of the file.
TwoVersions == {[p \in Peer |-> IF p = 1 THEN Holding(<<ca, ca>>) ELSE Holding(<<cb, cb>>)]}

\* Versions of the length of the shared file, each recognisable in every chunk.
SameLength == {<<cb, cb>>, <<cc, cc>>}

Shorter == {<<cb>>}

=============================================================================
