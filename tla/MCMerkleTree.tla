---------------------------- MODULE MCMerkleTree ----------------------------
(* An instance of MerkleTree: a file, or a directory that holds a file and    *)
(* something hidden, or nothing.                                              *)
EXTENDS MerkleTree

CONSTANTS doc, tmp, copy, text

Place(x) ==
  CASE x = <<doc>>      -> Dir
    [] x = <<doc, doc>> -> text
    [] x = <<doc, tmp>> -> text
    [] OTHER            -> None

Nested == [x \in Path |-> Place(x)]

Single == [x \in Path |-> IF x = <<doc>> THEN text ELSE None]

Bare == [x \in Path |-> None]

Start == {Nested, Single, Bare}

\* The copy lies beside the file.
Beside == [x \in Path |-> [x EXCEPT ![Len(x)] = copy]]

\* Users move aside what no index is to follow: conflict copies and what is hidden.
MovedAside == {x \in Path : Hidden(x) \/ Backup(x)}

\* They also move other files.
MovedAnything == Path

Write(x, v) == [kind |-> "write", path |-> x, data |-> v]

Delete(x) == [kind |-> "delete", path |-> x]

\* A file in the directory comes and goes, and one comes in the directory's place.
FewChanges == {Write(<<doc, doc>>, Empty), Write(<<doc>>, text), Delete(<<doc, doc>>)}

\* What a peer announces that removed the directory.
DirectoryDeleted == {Delete(<<doc>>)}

=============================================================================
