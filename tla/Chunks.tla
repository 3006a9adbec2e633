------------------------------- MODULE Chunks -------------------------------
(***************************************************************************)
(* One file on its way from a peer to another, byte by byte: how chunk.rs  *)
(* splits it, which chunks a request is answered with, and how             *)
(* fetch_and_apply lays them over the file on disk (sync_engine.rs).       *)
(* SyncEngine takes a content for a sequence of chunks; here is what a     *)
(* chunk is, and when that may be done.                                    *)
(***************************************************************************)
EXTENDS Integers, Sequences

CONSTANTS
  Byte, Zero,          \* what users write, and what a gap is filled with
  MaxLength,           \* bound on the length of a file a user writes
  SourceChunkSize, TargetChunkSize,   \* storage.chunk_size of the two peers
  MaxIndexes,                         \* what storage.max_chunk_index may be
  MaxFileSize                         \* storage.max_file_size of the receiver

ASSUME ChunkAssumption ==
  /\ SourceChunkSize \in Nat \ {0} /\ TargetChunkSize \in Nat \ {0}
  /\ MaxIndexes \subseteq Nat
  /\ MaxLength \in Nat /\ MaxFileSize \in Nat
  /\ Zero \notin Byte

VARIABLES
  maxIndex, \* storage.max_chunk_index of the two peers
  source,   \* the file on the disk of the peer that is asked
  target,   \* the file on the disk of the peer that asks
  phase,    \* how far the transfer is
  asked,    \* the number of chunks asked for
  chunks,   \* the chunks of the answer that are still to be laid
  buffer,   \* file_data
  served,   \* history: the content the answer was taken from
  base      \* history: the content the answer is laid over

vars == <<maxIndex, source, target, phase, asked, chunks, buffer, served, base>>

Least(a, b) == IF a <= b THEN a ELSE b
Most(a, b) == IF a <= b THEN b ELSE a

-----------------------------------------------------------------------------
(* chunk.rs *)

ChunkCount(data, size) == (Len(data) + size - 1) \div size

\* Mutant: only whole chunks are taken.
SplitExact(data, size) ==
  [i \in 1 .. (Len(data) \div size) |-> SubSeq(data, (i - 1) * size + 1, i * size)]

\* split and metadata: data.chunks(chunk_size), of which the last may be shorter.
Split(data, size) ==
  [i \in 1 .. ChunkCount(data, size) |->
     SubSeq(data, (i - 1) * size + 1, Least(i * size, Len(data)))]

\* file_hash: the hash of the hashes of the chunks.
FileHash(data, size) == Split(data, size)

-----------------------------------------------------------------------------
(* The transfer *)

Content == UNION {[1 .. n -> Byte] : n \in 0 .. MaxLength}

Init ==
  /\ maxIndex \in [{"source", "target"} -> MaxIndexes]
  /\ source \in Content /\ target \in Content
  /\ phase = "idle" /\ asked = 0 /\ chunks = <<>>
  /\ buffer = <<>> /\ served = <<>> /\ base = <<>>

\* Users write on both sides while the transfer runs.
EditSource(content) ==
  /\ phase = "asked"
  /\ source' = content
  /\ UNCHANGED <<maxIndex, target, phase, asked, chunks, buffer, served, base>>

EditTarget(content) ==
  /\ phase \in {"asked", "laying"}
  /\ target' = content
  /\ UNCHANGED <<maxIndex, source, phase, asked, chunks, buffer, served, base>>

\* The indices are those of a notification or of the source's tree.
Ask ==
  /\ phase \in {"idle", "ended"}
  /\ asked' = Len(Split(source, SourceChunkSize))
  /\ phase' = "asked"
  /\ chunks' = <<>> /\ buffer' = <<>> /\ served' = <<>> /\ base' = <<>>
  /\ UNCHANGED <<maxIndex, source, target>>

Answer(count) ==
  [i \in 1 .. count |-> [index |-> i - 1, data |-> Split(source, SourceChunkSize)[i]]]

\* Mutant: the index at the limit is served.
ServeOneMore ==
  /\ phase = "asked"
  /\ chunks' = Answer(Least(Least(asked, maxIndex.source + 1), Len(Split(source, SourceChunkSize))))
  /\ served' = source /\ base' = target /\ buffer' = target
  /\ phase' = "laying"
  /\ UNCHANGED <<maxIndex, source, target, asked>>

\* GetChunks is answered from the disk, with the chunks that exist of those asked for;
\* the answer finds the file that it is laid over.
Serve ==
  /\ phase = "asked"
  /\ chunks' = Answer(Least(Least(asked, maxIndex.source), Len(Split(source, SourceChunkSize))))
  /\ served' = source /\ base' = target /\ buffer' = target
  /\ phase' = "laying"
  /\ UNCHANGED <<maxIndex, source, target, asked>>

\* Mutant: file_data is resized to the end of each chunk.
LaidResized(file, offset, data) ==
  [i \in 1 .. offset + Len(data) |->
     IF i > offset THEN data[i - offset]
     ELSE IF i <= Len(file) THEN file[i] ELSE Zero]

\* file_data with the chunk at its offset, grown by zeroes if it is too short.
Laid(file, offset, data) ==
  [i \in 1 .. Most(Len(file), offset + Len(data)) |->
     IF i > offset /\ i <= offset + Len(data) THEN data[i - offset]
     ELSE IF i <= Len(file) THEN file[i] ELSE Zero]

\* Mutant: the offset counts the bytes of this chunk.
OffsetByLength(chunk) == chunk.index * Len(chunk.data)

Offset(chunk) == chunk.index * TargetChunkSize

\* Mutant: the size is compared before the chunk is added.
FitsBefore(chunk) == Offset(chunk) <= MaxFileSize

Fits(chunk) == Offset(chunk) + Len(chunk.data) <= MaxFileSize

SkipChunk ==
  /\ phase = "laying" /\ chunks # <<>> /\ Head(chunks).index >= maxIndex.target
  /\ chunks' = Tail(chunks)
  /\ UNCHANGED <<maxIndex, source, target, phase, asked, buffer, served, base>>

LayChunk ==
  LET chunk == Head(chunks) IN
  /\ phase = "laying" /\ chunks # <<>> /\ chunk.index < maxIndex.target /\ Fits(chunk)
  /\ chunks' = Tail(chunks)
  /\ buffer' = Laid(buffer, Offset(chunk), chunk.data)
  /\ UNCHANGED <<maxIndex, source, target, phase, asked, served, base>>

\* A chunk past max_file_size ends the transfer, and nothing is written.
GiveUp ==
  /\ phase = "laying" /\ chunks # <<>>
  /\ Head(chunks).index < maxIndex.target /\ ~Fits(Head(chunks))
  /\ phase' = "ended"
  /\ UNCHANGED <<maxIndex, source, target, asked, chunks, buffer, served, base>>

Write ==
  /\ phase = "laying" /\ chunks = <<>>
  /\ target' = buffer
  /\ phase' = "ended"
  /\ UNCHANGED <<maxIndex, source, asked, chunks, buffer, served, base>>

Transfer == Ask \/ Serve \/ SkipChunk \/ LayChunk \/ GiveUp \/ Write

Next ==
  \/ Transfer
  \/ \E content \in Content : EditSource(content) \/ EditTarget(content)

Spec == Init /\ [][Next]_vars

-----------------------------------------------------------------------------
(* Correctness *)

TypeOK ==
  /\ maxIndex \in [{"source", "target"} -> Nat]
  /\ source \in Seq(Byte)
  /\ target \in Seq(Byte \cup {Zero}) /\ buffer \in Seq(Byte \cup {Zero})
  /\ served \in Seq(Byte) /\ base \in Seq(Byte \cup {Zero})
  /\ phase \in {"idle", "asked", "laying", "ended"}
  /\ asked \in Nat
  /\ chunks \in Seq([index : 0 .. maxIndex.source - 1, data : Seq(Byte)])

Written == phase = "ended" /\ chunks = <<>>

\* What a transfer is to leave: the bytes of the chunks that were asked for and that
\* neither limit excludes, and behind them what the file held before.
Arrived == Least(Len(served), Least(asked, Least(maxIndex.source, maxIndex.target)) * SourceChunkSize)

Expected ==
  [i \in 1 .. Most(Len(base), Arrived) |-> IF i <= Arrived THEN served[i] ELSE base[i]]

\* However the files are cut into chunks and whatever limits apply, the bytes that
\* arrive stand where they stood at the source, without a gap, an overlap or a byte
\* more.
BytesInPlace == Written => buffer = Expected

\* SyncEngine's Overlay is what the bytes do, as long as the last chunk that arrives is
\* a whole one or reaches as far as the file: chunks may stand for contents then.
OverlayByChunk ==
  LET new == Split(SubSeq(served, 1, Arrived), TargetChunkSize)
      old == Split(base, TargetChunkSize) IN
  Written /\ (Arrived % TargetChunkSize = 0 \/ Arrived >= Len(base))
    => Split(buffer, TargetChunkSize) =
         [i \in 1 .. Most(Len(old), Len(new)) |-> IF i <= Len(new) THEN new[i] ELSE old[i]]

\* Two peers hold the same bytes exactly if their trees show the same hash: a
\* reconciliation ends, and only where nothing differs.
HashIsContent ==
  FileHash(source, SourceChunkSize) = FileHash(target, TargetChunkSize) <=> source = target

\* A transfer never makes a file longer than max_file_size.
SizeRespected == Len(buffer) <= Most(MaxFileSize, Len(base))

=============================================================================
