---------------------------- MODULE ChunksProofs ----------------------------
(***************************************************************************)
(* What arrives of a file, byte for byte, and what its hash tells: theorems *)
(* of Chunks, for files, chunks and limits of any size.                     *)
(***************************************************************************)
EXTENDS Chunks, SequenceTheorems, TLAPS

\* The two peers use one storage.chunk_size, which no message checks.
SameSize == SourceChunkSize = TargetChunkSize

-----------------------------------------------------------------------------
(* Arithmetic of chunks *)

\* n bytes are c chunks of s bytes, of which only the last may be shorter.
LEMMA Counting ==
  ASSUME NEW n \in Nat, NEW s \in Nat \ {0}
  PROVE  LET c == (n + s - 1) \div s IN
         /\ c \in Nat /\ n <= c * s /\ c * s < n + s
         /\ \A q \in Nat : n <= q * s => c <= q
         /\ \A q \in Nat : q * s < n + s => q <= c
<1> DEFINE m == n + s - 1
           c == m \div s
<1>1. m \in Nat
  OBVIOUS
<1> HIDE DEF m
<1>2. c \in Nat /\ c * s <= m /\ m < c * s + s
  BY <1>1
<1> HIDE DEF c
<1>3. n <= c * s /\ c * s < n + s
  <2>1. c * s \in Nat
    BY <1>2
  <2> QED
    BY <1>2, <2>1 DEF m
<1>4. ASSUME NEW q \in Nat, n <= q * s
      PROVE  c <= q
  <2>1. c * s < q * s + s
    <3>1. c * s \in Nat /\ q * s \in Nat
      BY <1>2
    <3> QED
      BY <1>3, <1>4, <3>1
  <2> QED
    BY <1>2, <2>1
<1>5. ASSUME NEW q \in Nat, q * s < n + s
      PROVE  q <= c
  <2>1. q * s < c * s + s
    <3>1. c * s \in Nat /\ q * s \in Nat
      BY <1>2
    <3> QED
      BY <1>3, <1>5, <3>1
  <2> QED
    BY <1>2, <2>1
<1> QED
  BY <1>2, <1>3, <1>4, <1>5 DEF c, m

LEMMA Multiples ==
  ASSUME NEW s \in Nat \ {0}
  PROVE  /\ \A a \in Nat : a * s \in Nat /\ (a + 1) * s = a * s + s
         /\ \A a, b \in Nat : a <= b => a * s <= b * s
         /\ \A a, b \in Nat : a < b => a * s + s <= b * s
         /\ \A a \in Nat : a \in 1 .. a => (a - 1) * s = a * s - s /\ (a - 1) * s \in Nat
OBVIOUS

LEMMA FunctionIsSeq ==
  ASSUME NEW S, NEW n \in Nat, NEW f \in [1 .. n -> S]
  PROVE  f \in Seq(S) /\ Len(f) = n /\ DOMAIN f = 1 .. n
OBVIOUS

LEMMA Lengths ==
  ASSUME NEW S, NEW q \in Seq(S)
  PROVE  Len(q) \in Nat /\ DOMAIN q = 1 .. Len(q) /\ \A i \in 1 .. Len(q) : q[i] \in S
BY LenProperties, ElementOfSeq

\* Where the ith chunk of n bytes begins and ends.
First(i, s) == (i - 1) * s
Last(i, s, n) == Least(i * s, n)

\* How long it is, and where its jth byte stands in the file.
Width(i, s, n) == Last(i, s, n) - First(i, s)
At(i, s, j) == First(i, s) + j

LEMMA Between ==
  ASSUME NEW n \in Nat, NEW s \in Nat \ {0}, NEW lo \in Nat, NEW p \in Nat, lo + s = p, lo < n
  PROVE  /\ Least(p, n) \in Nat /\ lo < Least(p, n) /\ Least(p, n) <= n
         /\ p < n => Least(p, n) = p
         /\ p >= n => Least(p, n) = n
BY DEF Least

LEMMA ChunkPlaces ==
  ASSUME NEW n \in Nat, NEW s \in Nat \ {0}, NEW c \in Nat, n <= c * s, c * s < n + s,
         NEW i \in 1 .. c
  PROVE  /\ First(i, s) \in Nat /\ Last(i, s, n) \in Nat
         /\ First(i, s) < Last(i, s, n) /\ Last(i, s, n) <= n
         /\ Last(i, s, n) = i * s \/ (i = c /\ Last(i, s, n) = n)
         /\ First(i, s) + s = i * s /\ i * s \in Nat
<1>1. i * s <= c * s /\ i * s \in Nat /\ c * s \in Nat
  BY Multiples
<1>2. First(i, s) \in Nat /\ First(i, s) + s = i * s
  <2>1. i - 1 \in Nat /\ (i - 1) + 1 = i
    OBVIOUS
  <2> QED
    BY <2>1, Multiples DEF First
<1>3. i < c => i * s + s <= c * s
  BY Multiples
<1>4. i < c => i * s < n
  BY <1>1, <1>3
<1>5. First(i, s) < n
  BY <1>1, <1>2
<1>6. i = c => i * s >= n
  OBVIOUS
<1>7. i < c \/ i = c
  OBVIOUS
<1>8. /\ Least(i * s, n) \in Nat /\ First(i, s) < Least(i * s, n) /\ Least(i * s, n) <= n
      /\ i * s < n => Least(i * s, n) = i * s
      /\ i * s >= n => Least(i * s, n) = n
  BY <1>1, <1>2, <1>5, Between
<1>9. Last(i, s, n) = Least(i * s, n)
  BY DEF Last
<1>10. Last(i, s, n) = i * s \/ (i = c /\ Last(i, s, n) = n)
  <2>1. CASE i < c
    BY <1>4, <1>8, <1>9, <2>1
  <2>2. CASE i = c
    BY <1>6, <1>8, <1>9, <2>2
  <2> QED
    BY <1>7, <2>1, <2>2
<1> QED
  BY <1>1, <1>2, <1>8, <1>9, <1>10

\* Every byte of a file stands in one of its chunks.
LEMMA Located ==
  ASSUME NEW n \in Nat, NEW s \in Nat \ {0}, NEW c \in Nat, n <= c * s, c * s < n + s,
         NEW i \in 1 .. n
  PROVE  \E q \in 1 .. c : \E j \in 1 .. Width(q, s, n) : i = At(q, s, j)
<1> DEFINE q == (i + s - 1) \div s
<1>1. /\ q \in Nat /\ i <= q * s /\ q * s < i + s
      /\ \A r \in Nat : r * s < i + s => r <= q
  BY Counting
<1> HIDE DEF q
<1>2. q # 0
  BY <1>1
<1>3. q <= c
  <2>1. q * s < n + s
    <3>1. q * s \in Nat
      BY <1>1, Multiples
    <3> QED
      BY <1>1, <3>1
  <2>2. c < q => c * s + s <= q * s
    BY <1>1, Multiples
  <2>3. c * s \in Nat /\ q * s \in Nat
    BY <1>1, Multiples
  <2>4. c < q => (n + s <= c * s + s /\ c * s + s <= q * s)
    BY <2>2, <2>3
  <2> QED
    BY <1>1, <2>1, <2>3, <2>4
<1>4. q \in 1 .. c
  BY <1>1, <1>2, <1>3
<1>5. /\ First(q, s) \in Nat /\ Last(q, s, n) \in Nat /\ q * s \in Nat
      /\ First(q, s) + s = q * s
      /\ Last(q, s, n) = q * s \/ Last(q, s, n) = n
  <2>1. Last(q, s, n) = q * s \/ Last(q, s, n) = n
    BY DEF Last, Least
  <2> QED
    BY <1>4, <2>1, ChunkPlaces
<1>6. First(q, s) < i /\ i <= Last(q, s, n)
  BY <1>1, <1>5
<1>7. i - First(q, s) \in 1 .. Width(q, s, n) /\ i = At(q, s, i - First(q, s))
  BY <1>5, <1>6 DEF Width, At
<1> QED
  BY <1>4, <1>7

\* What split returns: how many chunks, and what stands in the ith of them.
LEMMA Counted ==
  ASSUME NEW S, NEW data \in Seq(S), NEW s \in Nat \ {0}
  PROVE  /\ ChunkCount(data, s) \in Nat /\ Len(data) \in Nat
         /\ Len(data) <= ChunkCount(data, s) * s /\ ChunkCount(data, s) * s < Len(data) + s
<1>1. Len(data) \in Nat
  BY Lengths
<1> QED
  BY <1>1, Counting DEF ChunkCount

LEMMA SplitAt ==
  ASSUME NEW S, NEW data \in Seq(S), NEW s \in Nat \ {0}, NEW i \in 1 .. ChunkCount(data, s)
  PROVE  /\ Split(data, s)[i] \in Seq(S)
         /\ Len(Split(data, s)[i]) = Width(i, s, Len(data))
         /\ \A j \in 1 .. Width(i, s, Len(data)) :
              /\ At(i, s, j) \in 1 .. Len(data)
              /\ Split(data, s)[i][j] = data[At(i, s, j)]
<1> DEFINE n == Len(data)
           lo == First(i, s)
           hi == Last(i, s, n)
           d == SubSeq(data, lo + 1, hi)
<1>1. n \in Nat /\ \A j \in 1 .. n : data[j] \in S
  BY Lengths
<1>2. lo \in Nat /\ hi \in Nat /\ lo < hi /\ hi <= n
  BY Counted, ChunkPlaces
<1>3. Split(data, s)[i] = d
  BY DEF Split, First, Last
<1> HIDE DEF lo, hi
<1>4. lo + 1 \in Int /\ hi \in Int /\ lo + 1 <= hi /\ \A k \in lo + 1 .. hi : data[k] \in S
  BY <1>1, <1>2
<1>5. /\ d \in Seq(S) /\ Len(d) = hi - (lo + 1) + 1
      /\ \A j \in 1 .. hi - (lo + 1) + 1 : d[j] = data[lo + 1 + j - 1]
  BY <1>4, SubSeqProperties
<1>6. hi - (lo + 1) + 1 = hi - lo
  BY <1>2
<1>7. \A j \in 1 .. hi - lo : lo + 1 + j - 1 = lo + j /\ lo + j \in 1 .. n
  BY <1>1, <1>2
<1>8. \A j \in 1 .. hi - lo : lo + j \in 1 .. n /\ d[j] = data[lo + j]
  BY <1>5, <1>6, <1>7
<1> HIDE DEF d, n
<1>9. d \in Seq(S) /\ Len(d) = hi - lo
  BY <1>5, <1>6
<1>10. /\ Split(data, s)[i] \in Seq(S)
       /\ Len(Split(data, s)[i]) = hi - lo
       /\ \A j \in 1 .. hi - lo : lo + j \in 1 .. n /\ Split(data, s)[i][j] = data[lo + j]
  BY <1>3, <1>8, <1>9
<1> QED
  BY <1>10 DEF lo, hi, n, Width, At

LEMMA SplitSize ==
  ASSUME NEW S, NEW data \in Seq(S), NEW s \in Nat \ {0}
  PROVE  /\ Split(data, s) \in Seq(Seq(S)) /\ Len(Split(data, s)) = ChunkCount(data, s)
         /\ DOMAIN Split(data, s) = 1 .. ChunkCount(data, s)
<1> DEFINE c == ChunkCount(data, s)
<1>1. \A i \in 1 .. c : Split(data, s)[i] \in Seq(S)
  BY SplitAt
<1>2. Split(data, s) = [i \in 1 .. c |-> Split(data, s)[i]]
  BY DEF Split
<1>3. c \in Nat
  BY Counted
<1> HIDE DEF c
<1>4. Split(data, s) \in [1 .. c -> Seq(S)]
  BY <1>1, <1>2
<1>5. Split(data, s) \in Seq(Seq(S)) /\ Len(Split(data, s)) = c /\ DOMAIN Split(data, s) = 1 .. c
  BY <1>3, <1>4, FunctionIsSeq
<1> QED
  BY <1>5 DEF c

\* The chunks cut of data, as one fact.
Cuts(data, s) ==
  /\ ChunkCount(data, s) \in Nat /\ Len(data) \in Nat
  /\ Len(data) <= ChunkCount(data, s) * s /\ ChunkCount(data, s) * s < Len(data) + s
  /\ Len(Split(data, s)) = ChunkCount(data, s)
  /\ \A i \in 1 .. ChunkCount(data, s) :
       /\ Len(Split(data, s)[i]) = Width(i, s, Len(data))
       /\ \A j \in 1 .. Width(i, s, Len(data)) :
            Split(data, s)[i][j] = data[At(i, s, j)]
  /\ \A k \in 1 .. Len(data) : \E i \in 1 .. ChunkCount(data, s) :
       \E j \in 1 .. Width(i, s, Len(data)) : k = At(i, s, j)

Covered(n, s, c) ==
  \A k \in 1 .. n : \E i \in 1 .. c : \E j \in 1 .. Width(i, s, n) : k = At(i, s, j)

LEMMA SplitCuts ==
  ASSUME NEW S, NEW data \in Seq(S), NEW s \in Nat \ {0}
  PROVE  Cuts(data, s)
<1>1. /\ ChunkCount(data, s) \in Nat /\ Len(data) \in Nat
      /\ Len(data) <= ChunkCount(data, s) * s /\ ChunkCount(data, s) * s < Len(data) + s
  BY Counted
<1>2. Len(Split(data, s)) = ChunkCount(data, s)
  BY SplitSize
<1>3. ASSUME NEW i \in 1 .. ChunkCount(data, s)
      PROVE  /\ Len(Split(data, s)[i]) = Width(i, s, Len(data))
             /\ \A j \in 1 .. Width(i, s, Len(data)) :
                  Split(data, s)[i][j] = data[At(i, s, j)]
  BY SplitAt
<1>4. \A n, c \in Nat : n <= c * s /\ c * s < n + s => Covered(n, s, c)
  BY Located DEF Covered
<1>5. Covered(Len(data), s, ChunkCount(data, s))
  BY <1>1, <1>4
<1> QED
  BY <1>1, <1>2, <1>3, <1>5 DEF Cuts, Covered

-----------------------------------------------------------------------------
(* Contents and their hashes *)

LEMMA SameSeq ==
  ASSUME NEW S, NEW d \in Seq(S), NEW e \in Seq(S), Len(d) = Len(e),
         \A i \in 1 .. Len(d) : d[i] = e[i]
  PROVE  d = e
<1>1. d \in [1 .. Len(d) -> S] /\ e \in [1 .. Len(e) -> S]
  BY Lengths
<1> QED
  BY <1>1

\* The chunks of a file are those of no other.
LEMMA SplitTells ==
  ASSUME NEW S, NEW x \in Seq(S), NEW y \in Seq(S), NEW s \in Nat \ {0}
  PROVE  Split(x, s) = Split(y, s) => x = y
<1>1. Cuts(x, s) /\ Cuts(y, s)
  BY SplitCuts
<1> DEFINE c == ChunkCount(x, s)
<1>2. ASSUME Split(x, s) = Split(y, s)
      PROVE  c = ChunkCount(y, s)
  BY <1>1, <1>2 DEF Cuts
<1>3. /\ c \in Nat /\ Len(x) \in Nat /\ Len(x) <= c * s /\ c * s < Len(x) + s
      /\ \A i \in 1 .. c : Len(Split(x, s)[i]) = Width(i, s, Len(x))
      /\ \A i \in 1 .. c : \A j \in 1 .. Width(i, s, Len(x)) :
           Split(x, s)[i][j] = x[At(i, s, j)]
      /\ \A k \in 1 .. Len(x) : \E i \in 1 .. c :
           \E j \in 1 .. Width(i, s, Len(x)) : k = At(i, s, j)
  BY <1>1 DEF Cuts
<1>4. ASSUME Split(x, s) = Split(y, s)
      PROVE  /\ Len(y) \in Nat /\ Len(y) <= c * s /\ c * s < Len(y) + s
             /\ \A i \in 1 .. c : Len(Split(x, s)[i]) = Width(i, s, Len(y))
             /\ \A i \in 1 .. c : \A j \in 1 .. Width(i, s, Len(y)) :
                  Split(x, s)[i][j] = y[At(i, s, j)]
  BY <1>1, <1>2, <1>4 DEF Cuts
<1> SUFFICES ASSUME Split(x, s) = Split(y, s)
             PROVE  x = y
  OBVIOUS
<1> HIDE DEF c
<1>5. Len(x) = Len(y)
  <2>1. CASE c = 0
    BY <1>3, <1>4, <2>1
  <2>2. CASE c # 0
    <3>1. c \in 1 .. c
      BY <1>3, <2>2
    <3>2. Width(c, s, Len(x)) = Width(c, s, Len(y))
      BY <1>3, <1>4, <3>1
    <3>3. First(c, s) \in Nat /\ Last(c, s, Len(x)) \in Nat /\ Last(c, s, Len(y)) \in Nat
      BY <1>3, <1>4, <3>1, ChunkPlaces
    <3>4. Last(c, s, Len(x)) = Len(x) /\ Last(c, s, Len(y)) = Len(y)
      BY <1>3, <1>4, Multiples DEF Last, Least
    <3> QED
      BY <1>3, <1>4, <3>2, <3>3, <3>4 DEF Width
  <2> QED
    BY <2>1, <2>2
<1>6. ASSUME NEW k \in 1 .. Len(x)
      PROVE  x[k] = y[k]
  <2>1. PICK i \in 1 .. c : \E j \in 1 .. Width(i, s, Len(x)) : k = At(i, s, j)
    BY <1>3
  <2>2. PICK j \in 1 .. Width(i, s, Len(x)) : k = At(i, s, j)
    BY <2>1
  <2> QED
    BY <1>3, <1>4, <1>5, <2>2
<1> QED
  BY <1>5, <1>6, SameSeq

-----------------------------------------------------------------------------
(* Types *)

Bytes == Byte \cup {Zero}

LEMMA Contents == Content \subseteq Seq(Byte)
BY DEF Content

LEMMA Narrow ==
  ASSUME NEW q \in Seq(Byte)
  PROVE  q \in Seq(Bytes) /\ Len(q) \in Nat /\ \A i \in 1 .. Len(q) : q[i] \in Byte
<1>1. q \in [1 .. Len(q) -> Byte] /\ Len(q) \in Nat
  BY Lengths
<1> QED
  BY <1>1 DEF Bytes

LEMMA Bounds ==
  ASSUME NEW a \in Nat, NEW b \in Nat
  PROVE  /\ Least(a, b) \in Nat /\ Least(a, b) <= a /\ Least(a, b) <= b
         /\ Least(a, b) = a \/ Least(a, b) = b
         /\ Most(a, b) \in Nat /\ a <= Most(a, b) /\ b <= Most(a, b)
         /\ Most(a, b) = a \/ Most(a, b) = b
BY DEF Least, Most

\* How many chunks the answer has.
Served == Least(Least(asked, maxIndex.source), Len(Split(source, SourceChunkSize)))

LEMMA Answers ==
  ASSUME TypeOK
  PROVE  /\ Served \in Nat /\ Served <= ChunkCount(source, SourceChunkSize)
         /\ maxIndex.source \in Nat /\ maxIndex.target \in Nat
         /\ Len(Answer(Served)) = Served /\ DOMAIN Answer(Served) = 1 .. Served
         /\ \A i \in 1 .. Served :
              Answer(Served)[i] = [index |-> i - 1, data |-> Split(source, SourceChunkSize)[i]]
         /\ Answer(Served) \in Seq([index : 0 .. maxIndex.source - 1, data : Seq(Byte)])
<1> DEFINE c == ChunkCount(source, SourceChunkSize)
           split == Split(source, SourceChunkSize)
           Chunk == [index : 0 .. maxIndex.source - 1, data : Seq(Byte)]
<1>1. source \in Seq(Byte) /\ asked \in Nat /\ maxIndex.source \in Nat /\ maxIndex.target \in Nat
  BY DEF TypeOK
<1>2. SourceChunkSize \in Nat \ {0}
  BY ChunkAssumption
<1>3. c \in Nat /\ Len(split) = c
  BY <1>1, <1>2, Counted, SplitSize
<1>4. Served \in Nat /\ Served <= c /\ Served <= maxIndex.source
  <2>1. Least(asked, maxIndex.source) \in Nat /\ Least(asked, maxIndex.source) <= maxIndex.source
    BY <1>1, Bounds
  <2> DEFINE l == Least(asked, maxIndex.source)
  <2>2. Served = Least(l, c)
    BY <1>3 DEF Served
  <2> HIDE DEF l, c
  <2>3. Least(l, c) \in Nat /\ Least(l, c) <= c /\ Least(l, c) <= l
    BY <1>3, <2>1, Bounds DEF l
  <2> QED
    BY <1>1, <2>1, <2>2, <2>3 DEF l
<1>5. \A i \in 1 .. c : split[i] \in Seq(Byte)
  BY <1>1, <1>2, SplitAt
<1> DEFINE n == Served
<1>6. Answer(n) = [i \in 1 .. n |-> [index |-> i - 1, data |-> split[i]]]
  BY DEF Answer
<1> HIDE DEF n, c, split
<1>7. \A i \in 1 .. n : i \in 1 .. c /\ i - 1 \in 0 .. maxIndex.source - 1
  BY <1>1, <1>3, <1>4 DEF n
<1>8. \A i \in 1 .. n : [index |-> i - 1, data |-> split[i]] \in Chunk
  BY <1>5, <1>7
<1> HIDE DEF Chunk
<1>9. Answer(n) \in [1 .. n -> Chunk]
  BY <1>6, <1>8
<1>10. n \in Nat
  BY <1>4 DEF n
<1>11. Answer(n) \in Seq(Chunk) /\ Len(Answer(n)) = n /\ DOMAIN Answer(n) = 1 .. n
  BY <1>9, <1>10, FunctionIsSeq
<1>12. \A i \in 1 .. n : Answer(n)[i] = [index |-> i - 1, data |-> split[i]]
  BY <1>6
<1> QED
  BY <1>1, <1>4, <1>11, <1>12 DEF n, c, split, Chunk

\* Laying a chunk down: how long the file is then, and what stands in it.
LEMMA LaidIs ==
  ASSUME NEW file \in Seq(Bytes), NEW offset \in Nat, NEW data \in Seq(Byte)
  PROVE  /\ Laid(file, offset, data) \in Seq(Bytes)
         /\ Len(Laid(file, offset, data)) = Most(Len(file), offset + Len(data))
         /\ DOMAIN Laid(file, offset, data) = 1 .. Most(Len(file), offset + Len(data))
<1>1. /\ Len(file) \in Nat /\ \A i \in 1 .. Len(file) : file[i] \in Bytes
      /\ Len(data) \in Nat /\ \A i \in 1 .. Len(data) : data[i] \in Byte
  BY Lengths
<1> DEFINE n == Most(Len(file), offset + Len(data))
<1>2. n \in Nat
  BY <1>1 DEF Most
<1> HIDE DEF n
<1>3. Laid(file, offset, data) =
        [i \in 1 .. n |-> IF i > offset /\ i <= offset + Len(data) THEN data[i - offset]
                          ELSE IF i <= Len(file) THEN file[i] ELSE Zero]
  BY DEF Laid, n
<1>4. ASSUME NEW i \in 1 .. n
      PROVE  (IF i > offset /\ i <= offset + Len(data) THEN data[i - offset]
              ELSE IF i <= Len(file) THEN file[i] ELSE Zero) \in Bytes
  <2>1. CASE i > offset /\ i <= offset + Len(data)
    <3>1. i - offset \in 1 .. Len(data)
      BY <1>1, <1>2, <2>1
    <3> QED
      BY <1>1, <2>1, <3>1 DEF Bytes
  <2>2. CASE ~(i > offset /\ i <= offset + Len(data))
    BY <1>1, <1>2, <2>2 DEF Bytes
  <2> QED
    BY <2>1, <2>2
<1>5. Laid(file, offset, data) \in [1 .. n -> Bytes]
  BY <1>3, <1>4
<1> QED
  BY <1>2, <1>5, FunctionIsSeq DEF n

\* The first of the chunks still to be laid.
LEMMA NextChunk ==
  ASSUME TypeOK, chunks # <<>>
  PROVE  /\ Len(chunks) \in Nat \ {0} /\ Head(chunks) = chunks[1]
         /\ Head(chunks).index \in Nat /\ Head(chunks).data \in Seq(Byte)
         /\ Offset(Head(chunks)) \in Nat /\ Len(Head(chunks).data) \in Nat
         /\ Tail(chunks) \in Seq([index : 0 .. maxIndex.source - 1, data : Seq(Byte)])
         /\ Len(Tail(chunks)) = Len(chunks) - 1
         /\ \A i \in 1 .. Len(Tail(chunks)) : Tail(chunks)[i] = chunks[i + 1]
<1> DEFINE Chunk == [index : 0 .. maxIndex.source - 1, data : Seq(Byte)]
<1>1. chunks \in Seq(Chunk)
  BY DEF TypeOK
<1> HIDE DEF Chunk
<1>2. /\ Len(chunks) \in Nat /\ Len(chunks) # 0 /\ Head(chunks) = chunks[1]
      /\ Head(chunks) \in Chunk
      /\ Tail(chunks) \in Seq(Chunk) /\ Len(Tail(chunks)) = Len(chunks) - 1
      /\ \A i \in 1 .. Len(Tail(chunks)) : Tail(chunks)[i] = chunks[i + 1]
  BY <1>1, HeadTailProperties, EmptySeq, LenProperties
<1>3. Head(chunks).index \in Nat /\ Head(chunks).data \in Seq(Byte)
  BY <1>2 DEF Chunk
<1>4. Offset(Head(chunks)) \in Nat
  BY <1>3, ChunkAssumption, Multiples DEF Offset
<1>5. Len(Head(chunks).data) \in Nat
  BY <1>3, Lengths
<1> QED
  BY <1>2, <1>3, <1>4, <1>5 DEF Chunk

LEMMA InitTypes == Init => TypeOK /\ SizeRespected
<1> SUFFICES ASSUME Init
             PROVE  TypeOK /\ SizeRespected
  OBVIOUS
<1>1. source \in Seq(Byte) /\ target \in Seq(Bytes)
  BY Contents, Narrow DEF Init
<1>2. maxIndex \in [{"source", "target"} -> Nat]
  BY ChunkAssumption DEF Init
<1>3. TypeOK
  BY <1>1, <1>2 DEF Init, TypeOK, Bytes
<1>4. Len(buffer) = 0 /\ Len(base) = 0
  BY DEF Init
<1>5. SizeRespected
  BY <1>4, ChunkAssumption DEF SizeRespected, Most
<1> QED
  BY <1>3, <1>5

LEMMA LayingFits ==
  ASSUME TypeOK, SizeRespected, LayChunk
  PROVE  SizeRespected'
<1> DEFINE chunk == Head(chunks)
           e == Offset(chunk) + Len(chunk.data)
<1>1. Offset(chunk) \in Nat /\ Len(chunk.data) \in Nat /\ chunk.data \in Seq(Byte)
  BY NextChunk DEF LayChunk
<1>2. buffer \in Seq(Bytes) /\ base \in Seq(Bytes)
  BY DEF TypeOK, Bytes
<1>3. buffer' = Laid(buffer, Offset(chunk), chunk.data) /\ e <= MaxFileSize /\ base' = base
  BY DEF LayChunk, Fits
<1>4. Len(Laid(buffer, Offset(chunk), chunk.data)) = Most(Len(buffer), e)
  BY <1>1, <1>2, LaidIs
<1>5. Len(buffer) \in Nat /\ Len(base) \in Nat /\ e \in Nat
  BY <1>1, <1>2, Lengths
<1> HIDE DEF e, chunk
<1>6. Len(buffer') = Most(Len(buffer), e)
  BY <1>3, <1>4
<1> QED
  BY <1>3, <1>5, <1>6, ChunkAssumption DEF SizeRespected, Most

LEMMA StepTypes == TypeOK /\ SizeRespected /\ [Next]_vars => TypeOK' /\ SizeRespected'
<1> SUFFICES ASSUME TypeOK, SizeRespected, [Next]_vars
             PROVE  TypeOK' /\ SizeRespected'
  OBVIOUS
<1> USE DEF Bytes
<1>1. ASSUME NEW content \in Content, EditSource(content)
      PROVE  TypeOK' /\ SizeRespected'
  BY <1>1, Contents DEF EditSource, TypeOK, SizeRespected
<1>2. ASSUME NEW content \in Content, EditTarget(content)
      PROVE  TypeOK' /\ SizeRespected'
  <2>1. content \in Seq(Bytes)
    BY Contents, Narrow
  <2> QED
    BY <1>2, <2>1 DEF EditTarget, TypeOK, SizeRespected
<1>3. CASE Ask
  <2>1. Len(Split(source, SourceChunkSize)) \in Nat
    BY ChunkAssumption, SplitSize, Counted DEF TypeOK
  <2>2. TypeOK'
    BY <1>3, <2>1 DEF Ask, TypeOK
  <2>3. Len(buffer') = 0 /\ Len(base') = 0
    BY <1>3 DEF Ask
  <2>4. SizeRespected'
    BY <2>3, ChunkAssumption DEF SizeRespected, Most
  <2> QED
    BY <2>2, <2>4
<1>4. CASE Serve
  <2>1. chunks' \in Seq([index : 0 .. maxIndex.source - 1, data : Seq(Byte)])
    BY <1>4, Answers DEF Serve, Served
  <2>2. source \in Seq(Bytes)
    BY Narrow DEF TypeOK
  <2>3. TypeOK'
    BY <1>4, <2>1, <2>2 DEF Serve, TypeOK
  <2>4. buffer' = base' /\ Len(base') \in Nat
    BY <1>4, <2>3, Lengths DEF Serve, TypeOK
  <2>5. SizeRespected'
    BY <2>4, ChunkAssumption DEF SizeRespected, Most
  <2> QED
    BY <2>3, <2>5
<1>5. CASE SkipChunk
  <2>1. Tail(chunks) \in Seq([index : 0 .. maxIndex.source - 1, data : Seq(Byte)])
    BY <1>5, NextChunk DEF SkipChunk
  <2> QED
    BY <1>5, <2>1 DEF SkipChunk, TypeOK, SizeRespected
<1>6. CASE LayChunk
  <2>1. /\ Tail(chunks) \in Seq([index : 0 .. maxIndex.source - 1, data : Seq(Byte)])
        /\ Offset(Head(chunks)) \in Nat /\ Head(chunks).data \in Seq(Byte)
    BY <1>6, NextChunk DEF LayChunk
  <2>2. Laid(buffer, Offset(Head(chunks)), Head(chunks).data) \in Seq(Bytes)
    BY <2>1, LaidIs DEF TypeOK
  <2>3. TypeOK'
    BY <1>6, <2>1, <2>2 DEF LayChunk, TypeOK
  <2> QED
    BY <1>6, <2>3, LayingFits
<1>7. CASE GiveUp
  BY <1>7 DEF GiveUp, TypeOK, SizeRespected
<1>8. CASE Write
  BY <1>8 DEF Write, TypeOK, SizeRespected
<1>9. CASE UNCHANGED vars
  BY <1>9 DEF vars, TypeOK, SizeRespected
<1> QED
  BY <1>1, <1>2, <1>3, <1>4, <1>5, <1>6, <1>7, <1>8, <1>9 DEF Next, Transfer

\* Every variable holds what the code's types say, and an answer numbers its chunks below
\* the limit of the peer that gives it.
THEOREM ChunksTypeCorrect == Spec => []TypeOK
<1> QED
  BY InitTypes, StepTypes, PTL DEF Spec

\* Whatever the chunk sizes and the limits of the two peers, a transfer grows no file past
\* storage.max_file_size: only a file that was longer before stays so.
THEOREM SizeIsRespected == Spec => []SizeRespected
<1> QED
  BY InitTypes, StepTypes, PTL DEF Spec

\* With one chunk size, the hash of a file tells its content: two peers see the same hash
\* exactly if they hold the same bytes.
THEOREM HashesTell == ASSUME SameSize PROVE Spec => []HashIsContent
<1>1. TypeOK => HashIsContent
  <2> SUFFICES ASSUME TypeOK
               PROVE  HashIsContent
    OBVIOUS
  <2>1. source \in Seq(Bytes) /\ target \in Seq(Bytes) /\ SourceChunkSize \in Nat \ {0}
    BY Narrow, ChunkAssumption DEF TypeOK, Bytes
  <2>2. Split(source, SourceChunkSize) = Split(target, SourceChunkSize) => source = target
    BY <2>1, SplitTells
  <2> QED
    BY <2>2 DEF HashIsContent, FileHash, SameSize
<1> QED
  BY <1>1, ChunksTypeCorrect, PTL

-----------------------------------------------------------------------------
(* Where the bytes of a transfer stand *)

\* The first l bytes of new over old.
Over(old, new, l) == [i \in 1 .. Most(Len(old), l) |-> IF i <= l THEN new[i] ELSE old[i]]

\* How far the first k chunks reach, of which those past the target's limit are skipped.
Reach(k) == Least(Len(served), Least(k, maxIndex.target) * SourceChunkSize)

\* How many chunks the answer had.
Total == Least(Least(asked, maxIndex.source), Len(Split(served, SourceChunkSize)))

\* The chunks that are left are the last of the answer, and the file is as far as those
\* before them reach.
Progress(k) ==
  /\ k \in 0 .. Total /\ Len(chunks) = Total - k
  /\ \A j \in 1 .. Len(chunks) :
       chunks[j] = [index |-> k + j - 1, data |-> Split(served, SourceChunkSize)[k + j]]
  /\ buffer = Over(base, served, Reach(k))

InPlace == phase \in {"laying", "ended"} => \E k \in Nat : Progress(k)

\* What the bounds of the transfer are.
LEMMA Sizes ==
  ASSUME TypeOK
  PROVE  /\ SourceChunkSize \in Nat \ {0} /\ asked \in Nat
         /\ maxIndex.source \in Nat /\ maxIndex.target \in Nat
         /\ Len(served) \in Nat /\ Len(base) \in Nat
         /\ ChunkCount(served, SourceChunkSize) \in Nat
         /\ Len(served) <= ChunkCount(served, SourceChunkSize) * SourceChunkSize
         /\ ChunkCount(served, SourceChunkSize) * SourceChunkSize < Len(served) + SourceChunkSize
         /\ Len(Split(served, SourceChunkSize)) = ChunkCount(served, SourceChunkSize)
         /\ Total \in Nat /\ Total <= ChunkCount(served, SourceChunkSize)
<1>1. /\ served \in Seq(Byte) /\ base \in Seq(Bytes) /\ asked \in Nat
      /\ maxIndex.source \in Nat /\ maxIndex.target \in Nat
  BY DEF TypeOK, Bytes
<1>2. SourceChunkSize \in Nat \ {0}
  BY ChunkAssumption
<1> DEFINE c == ChunkCount(served, SourceChunkSize)
           l == Least(asked, maxIndex.source)
<1>3. /\ c \in Nat /\ Len(served) \in Nat /\ Len(base) \in Nat
      /\ Len(served) <= c * SourceChunkSize /\ c * SourceChunkSize < Len(served) + SourceChunkSize
      /\ Len(Split(served, SourceChunkSize)) = c
  BY <1>1, <1>2, Counted, SplitSize, Lengths
<1>4. l \in Nat
  BY <1>1, Bounds
<1>5. Total = Least(l, c)
  BY <1>3 DEF Total
<1> HIDE DEF c, l
<1>6. Total \in Nat /\ Total <= c
  BY <1>3, <1>4, <1>5, Bounds
<1> QED
  BY <1>1, <1>2, <1>3, <1>6 DEF c

\* The first k chunks with k below both limits: where they end, and where the next does.
Reaching(n, s, k) ==
  /\ Least(n, k * s) = k * s /\ k * s \in Nat
  /\ Least(n, (k + 1) * s) = Last(k + 1, s, n)
  /\ First(k + 1, s) = k * s
  /\ Last(k + 1, s, n) = k * s + Width(k + 1, s, n)
  /\ Width(k + 1, s, n) \in Nat
  /\ k * s + Width(k + 1, s, n) <= n

LEMMA Reaches ==
  ASSUME NEW n \in Nat, NEW s \in Nat \ {0}, NEW c \in Nat, n <= c * s, c * s < n + s,
         NEW k \in Nat, k < c
  PROVE  Reaching(n, s, k)
<1> DEFINE i == k + 1
           a == k * s
           b == i * s
           l == Last(i, s, n)
           w == Width(i, s, n)
<1>1. i \in 1 .. c /\ i - 1 = k
  OBVIOUS
<1> HIDE DEF i
<1>2. /\ First(i, s) \in Nat /\ l \in Nat /\ First(i, s) < l /\ l <= n
      /\ First(i, s) + s = b /\ b \in Nat
  BY <1>1, ChunkPlaces
<1>3. First(i, s) = a
  BY <1>1 DEF First
<1>4. l = Least(b, n)
  BY DEF Last
<1>5. w = l - a
  BY <1>3 DEF Width
<1> HIDE DEF a, b, l, w
<1>6. a \in Nat /\ a < l
  BY <1>2, <1>3
<1>7. Least(n, a) = a /\ Least(n, b) = l
  BY <1>2, <1>4, <1>6 DEF Least
<1>8. l = a + w /\ w \in Nat /\ a + w <= n
  BY <1>2, <1>5, <1>6
<1> QED
  BY <1>3, <1>6, <1>7, <1>8 DEF i, a, b, l, w, Reaching

LEMMA OverIs ==
  ASSUME NEW old \in Seq(Bytes), NEW new \in Seq(Byte), NEW l \in Nat, l <= Len(new)
  PROVE  /\ Over(old, new, l) \in Seq(Bytes) /\ Len(Over(old, new, l)) = Most(Len(old), l)
         /\ \A i \in 1 .. Most(Len(old), l) :
              Over(old, new, l)[i] = IF i <= l THEN new[i] ELSE old[i]
<1>1. /\ Len(old) \in Nat /\ \A i \in 1 .. Len(old) : old[i] \in Bytes
      /\ Len(new) \in Nat /\ \A i \in 1 .. Len(new) : new[i] \in Bytes
  BY Lengths, Narrow DEF Bytes
<1> DEFINE n == Most(Len(old), l)
<1>2. n \in Nat /\ \A i \in 1 .. n : i <= l \/ i <= Len(old)
  BY <1>1 DEF Most
<1>3. Over(old, new, l) = [i \in 1 .. n |-> IF i <= l THEN new[i] ELSE old[i]]
  BY DEF Over
<1> HIDE DEF n
<1>4. \A i \in 1 .. n : (IF i <= l THEN new[i] ELSE old[i]) \in Bytes
  BY <1>1, <1>2
<1>5. Over(old, new, l) \in [1 .. n -> Bytes]
  BY <1>3, <1>4
<1>6. Over(old, new, l) \in Seq(Bytes) /\ Len(Over(old, new, l)) = n
  BY <1>2, <1>5, FunctionIsSeq
<1> QED
  BY <1>3, <1>6 DEF n

\* A chunk laid where the bytes before it end moves that end by its length.
LEMMA LayOver ==
  ASSUME NEW old \in Seq(Bytes), NEW new \in Seq(Byte), NEW a \in Nat, NEW data \in Seq(Byte),
         a + Len(data) <= Len(new), \A i \in 1 .. Len(data) : data[i] = new[a + i]
  PROVE  Laid(Over(old, new, a), a, data) = Over(old, new, a + Len(data))
<1>1. Len(old) \in Nat /\ Len(new) \in Nat /\ Len(data) \in Nat
  BY Lengths
<1> DEFINE e == a + Len(data)
           file == Over(old, new, a)
<1>2. e \in Nat /\ a <= e /\ a <= Len(new) /\ e <= Len(new)
  BY <1>1
<1>3. /\ file \in Seq(Bytes) /\ Len(file) = Most(Len(old), a)
      /\ \A i \in 1 .. Most(Len(old), a) : file[i] = IF i <= a THEN new[i] ELSE old[i]
  BY <1>2, OverIs
<1>4. Laid(file, a, data) =
        [i \in 1 .. Most(Len(file), e) |->
           IF i > a /\ i <= e THEN data[i - a] ELSE IF i <= Len(file) THEN file[i] ELSE Zero]
  BY DEF Laid
<1>5. Over(old, new, e) = [i \in 1 .. Most(Len(old), e) |-> IF i <= e THEN new[i] ELSE old[i]]
  BY DEF Over
<1>6. \A i \in 1 .. Len(data) : data[i] = new[a + i]
  OBVIOUS
<1>7. \A i \in Nat : i > a /\ i <= e => i - a \in 1 .. Len(data) /\ a + (i - a) = i
  BY <1>1
<1> HIDE DEF e, file
<1>8. Most(Len(file), e) = Most(Len(old), e)
  BY <1>1, <1>2, <1>3 DEF Most
<1>9. ASSUME NEW i \in 1 .. Most(Len(old), e)
      PROVE  (IF i > a /\ i <= e THEN data[i - a] ELSE IF i <= Len(file) THEN file[i] ELSE Zero)
               = IF i <= e THEN new[i] ELSE old[i]
  <2>0. i \in Nat \ {0} /\ (i <= e \/ i <= Len(old))
    BY <1>1, <1>2 DEF Most
  <2>1. CASE i > a /\ i <= e
    <3>1. i - a \in 1 .. Len(data) /\ a + (i - a) = i
      BY <1>7, <2>0, <2>1
    <3>2. data[i - a] = new[a + (i - a)]
      BY <1>6, <3>1
    <3> QED
      BY <2>1, <3>1, <3>2
  <2>2. CASE i <= a
    <3>1. i \in 1 .. Most(Len(old), a)
      BY <1>1, <2>0, <2>2 DEF Most
    <3>2. i <= Len(file) /\ i <= e
      BY <1>1, <1>2, <1>3, <2>0, <2>2, <3>1 DEF Most
    <3> QED
      BY <1>3, <2>0, <2>2, <3>1, <3>2
  <2>3. CASE i > e
    <3>1. i \in 1 .. Most(Len(old), a) /\ i > a
      BY <1>1, <1>2, <2>0, <2>3 DEF Most
    <3>2. i <= Len(file)
      BY <1>3, <2>0, <3>1 DEF Most
    <3> QED
      BY <1>2, <1>3, <2>0, <2>3, <3>1, <3>2
  <2> QED
    BY <1>2, <2>0, <2>1, <2>2, <2>3
<1>10. Laid(file, a, data) = Over(old, new, e)
  BY <1>4, <1>5, <1>8, <1>9
<1> QED
  BY <1>10 DEF e, file

\* The chunk at the head of those that are left, of which k were taken before.
LEMMA HeadIs ==
  ASSUME TypeOK, chunks # <<>>, NEW k \in Nat, Progress(k)
  PROVE  /\ k < Total /\ k < ChunkCount(served, SourceChunkSize)
         /\ Head(chunks) = [index |-> k, data |-> Split(served, SourceChunkSize)[k + 1]]
         /\ k + 1 \in 0 .. Total /\ Len(Tail(chunks)) = Total - (k + 1)
         /\ \A j \in 1 .. Len(Tail(chunks)) :
              Tail(chunks)[j] = [index |-> (k + 1) + j - 1,
                                 data |-> Split(served, SourceChunkSize)[(k + 1) + j]]
<1>1. /\ Len(chunks) \in Nat \ {0} /\ Head(chunks) = chunks[1]
      /\ Len(Tail(chunks)) = Len(chunks) - 1
      /\ \A i \in 1 .. Len(Tail(chunks)) : Tail(chunks)[i] = chunks[i + 1]
  BY NextChunk
<1>2. Total \in Nat /\ Total <= ChunkCount(served, SourceChunkSize)
      /\ ChunkCount(served, SourceChunkSize) \in Nat
  BY Sizes
<1>3. /\ Len(chunks) = Total - k
      /\ \A j \in 1 .. Len(chunks) :
           chunks[j] = [index |-> k + j - 1, data |-> Split(served, SourceChunkSize)[k + j]]
  BY DEF Progress
<1>4. 1 \in 1 .. Len(chunks) /\ k + 1 - 1 = k
  BY <1>1
<1>5. Head(chunks) = [index |-> k, data |-> Split(served, SourceChunkSize)[k + 1]]
  BY <1>1, <1>3, <1>4
<1>6. ASSUME NEW j \in 1 .. Len(Tail(chunks))
      PROVE  Tail(chunks)[j] = [index |-> (k + 1) + j - 1,
                                data |-> Split(served, SourceChunkSize)[(k + 1) + j]]
  <2>1. j + 1 \in 1 .. Len(chunks) /\ k + (j + 1) - 1 = (k + 1) + j - 1 /\ k + (j + 1) = (k + 1) + j
    BY <1>1
  <2> QED
    BY <1>1, <1>3, <2>1
<1>7. k < Total /\ k + 1 \in 0 .. Total /\ Len(Tail(chunks)) = Total - (k + 1)
  BY <1>1, <1>2, <1>3
<1> QED
  BY <1>2, <1>5, <1>6, <1>7

LEMMA ServeStarts ==
  ASSUME TypeOK, TypeOK', Serve
  PROVE  Progress(0)'
<1>1. /\ Served \in Nat /\ Len(chunks') = Served
      /\ \A j \in 1 .. Served :
           chunks'[j] = [index |-> j - 1, data |-> Split(source, SourceChunkSize)[j]]
  BY Answers DEF Serve, Served
<1>2. Total' = Served
  BY DEF Serve, Total, Served
<1>3. \A j \in 1 .. Served : j - 1 = 0 + j - 1 /\ j = 0 + j
  BY <1>1
<1>4. \A j \in 1 .. Len(chunks') :
        chunks'[j] = [index |-> 0 + j - 1, data |-> Split(served', SourceChunkSize)[0 + j]]
  BY <1>1, <1>3 DEF Serve
<1>5. buffer' = Over(base', served', 0)
  <2>1. target \in [1 .. Len(target) -> Bytes] /\ Len(target) \in Nat
    BY Lengths DEF TypeOK, Bytes
  <2>2. Over(target, source, 0) = [i \in 1 .. Len(target) |-> target[i]]
    BY <2>1 DEF Over, Most
  <2>3. Over(target, source, 0) = target
    BY <2>1, <2>2
  <2> QED
    BY <2>3 DEF Serve
<1>6. Reach(0)' = 0
  <2>1. Len(served') \in Nat /\ maxIndex' = maxIndex /\ maxIndex.target \in Nat
    BY Lengths DEF TypeOK, Serve
  <2>2. Least(0, maxIndex.target) = 0 /\ 0 * SourceChunkSize = 0
    BY <2>1, ChunkAssumption DEF Least
  <2> QED
    BY <2>1, <2>2 DEF Reach, Least
<1> QED
  BY <1>1, <1>2, <1>4, <1>5, <1>6 DEF Progress

LEMMA SkipProgress ==
  ASSUME TypeOK, SkipChunk, NEW k \in Nat, Progress(k)
  PROVE  Progress(k + 1)'
<1>1. /\ Head(chunks) = [index |-> k, data |-> Split(served, SourceChunkSize)[k + 1]]
      /\ k + 1 \in 0 .. Total /\ Len(Tail(chunks)) = Total - (k + 1)
      /\ \A j \in 1 .. Len(Tail(chunks)) :
           Tail(chunks)[j] = [index |-> (k + 1) + j - 1,
                              data |-> Split(served, SourceChunkSize)[(k + 1) + j]]
  BY HeadIs DEF SkipChunk
<1>2. Total' = Total /\ chunks' = Tail(chunks) /\ served' = served /\ base' = base
      /\ buffer' = buffer /\ maxIndex' = maxIndex
  BY DEF SkipChunk, Total
<1>3. maxIndex.target \in Nat /\ k >= maxIndex.target
  BY <1>1 DEF SkipChunk, TypeOK
<1>4. Least(k + 1, maxIndex.target) = Least(k, maxIndex.target)
  BY <1>3 DEF Least
<1>5. Reach(k + 1)' = Reach(k)
  BY <1>2, <1>4 DEF Reach
<1> QED
  BY <1>1, <1>2, <1>5 DEF Progress

LEMMA LayProgress ==
  ASSUME SameSize, TypeOK, LayChunk, NEW k \in Nat, Progress(k)
  PROVE  Progress(k + 1)'
<1> DEFINE s == SourceChunkSize
           n == Len(served)
           c == ChunkCount(served, s)
           data == Split(served, s)[k + 1]
<1>1. /\ k < Total /\ k < c
      /\ Head(chunks) = [index |-> k, data |-> data]
      /\ k + 1 \in 0 .. Total /\ Len(Tail(chunks)) = Total - (k + 1)
      /\ \A j \in 1 .. Len(Tail(chunks)) :
           Tail(chunks)[j] = [index |-> (k + 1) + j - 1, data |-> Split(served, s)[(k + 1) + j]]
  BY HeadIs DEF LayChunk
<1>2. /\ s \in Nat \ {0} /\ n \in Nat /\ c \in Nat /\ n <= c * s /\ c * s < n + s
      /\ maxIndex.target \in Nat
  BY Sizes
<1>3. served \in Seq(Byte) /\ base \in Seq(Bytes)
  BY DEF TypeOK, Bytes
<1>4. /\ Total' = Total /\ chunks' = Tail(chunks) /\ served' = served /\ base' = base
      /\ maxIndex' = maxIndex /\ buffer' = Laid(buffer, k * s, data)
      /\ k < maxIndex.target
  BY <1>1 DEF LayChunk, Total, Offset, SameSize
<1>5. k + 1 \in 1 .. c
  BY <1>1, <1>2
<1>6. data \in Seq(Byte) /\ Len(data) = Width(k + 1, s, n)
      /\ \A j \in 1 .. Width(k + 1, s, n) : data[j] = served[At(k + 1, s, j)]
  <2> DEFINE i == k + 1
  <2>1. i \in 1 .. c
    BY <1>5
  <2> HIDE DEF i
  <2>2. /\ Split(served, s)[i] \in Seq(Byte)
        /\ Len(Split(served, s)[i]) = Width(i, s, n)
        /\ \A j \in 1 .. Width(i, s, n) : Split(served, s)[i][j] = served[At(i, s, j)]
    BY <1>2, <1>3, <2>1, SplitAt
  <2> QED
    BY <2>2 DEF i
<1> HIDE DEF s, n, c, data
<1>a. Reaching(n, s, k)
  BY <1>1, <1>2, Reaches
<1>7. /\ Least(n, k * s) = k * s /\ k * s \in Nat
      /\ Least(n, (k + 1) * s) = Last(k + 1, s, n)
      /\ First(k + 1, s) = k * s
      /\ Last(k + 1, s, n) = k * s + Width(k + 1, s, n)
      /\ k * s + Width(k + 1, s, n) <= n
  BY <1>a DEF Reaching
<1>8. Reach(k) = k * s
  <2>1. Least(k, maxIndex.target) = k
    BY <1>2, <1>4 DEF Least
  <2> QED
    BY <1>7, <2>1 DEF Reach, n, s
<1>9. Reach(k + 1)' = k * s + Len(data)
  <2>1. Least(k + 1, maxIndex.target) = k + 1
    BY <1>2, <1>4 DEF Least
  <2> QED
    BY <1>4, <1>6, <1>7, <2>1 DEF Reach, n, s
<1>10. \A j \in 1 .. Len(data) : data[j] = served[k * s + j]
  BY <1>6, <1>7 DEF At
<1>11. Laid(Over(base, served, k * s), k * s, data) = Over(base, served, k * s + Len(data))
  <2>1. k * s + Len(data) <= Len(served)
    BY <1>6, <1>7 DEF n
  <2> DEFINE a == k * s
  <2>2. a \in Nat /\ a + Len(data) <= Len(served)
        /\ \A j \in 1 .. Len(data) : data[j] = served[a + j]
    BY <1>7, <1>10, <2>1
  <2> HIDE DEF a
  <2>3. Laid(Over(base, served, a), a, data) = Over(base, served, a + Len(data))
    BY <1>3, <1>6, <2>2, LayOver
  <2> QED
    BY <2>3 DEF a
<1>12. buffer' = Over(base, served, Reach(k + 1)')
  <2>1. buffer = Over(base, served, k * s)
    BY <1>8 DEF Progress
  <2>2. buffer' = Over(base, served, k * s + Len(data))
    BY <1>4, <1>11, <2>1
  <2> QED
    BY <1>9, <2>2
<1> HIDE DEF Reach
<1> QED
  BY <1>1, <1>4, <1>12 DEF Progress, s

LEMMA InPlaceInit == Init => InPlace
BY DEF Init, InPlace

LEMMA InPlaceStep ==
  ASSUME SameSize
  PROVE  TypeOK /\ TypeOK' /\ InPlace /\ [Next]_vars => InPlace'
<1> SUFFICES ASSUME TypeOK, TypeOK', InPlace, [Next]_vars
             PROVE  InPlace'
  OBVIOUS
<1>1. ASSUME NEW k \in Nat, Progress(k),
             UNCHANGED <<maxIndex, asked, chunks, buffer, served, base>>
      PROVE  Progress(k)'
  BY <1>1 DEF Progress, Total, Reach
<1>2. ASSUME phase \in {"laying", "ended"}
      PROVE  \E k \in Nat : Progress(k)
  BY <1>2 DEF InPlace
<1>3. ASSUME UNCHANGED <<maxIndex, asked, chunks, buffer, served, base>>,
             phase \in {"laying", "ended"} \/ phase' \notin {"laying", "ended"}
      PROVE  InPlace'
  BY <1>1, <1>2, <1>3 DEF InPlace
<1>4. ASSUME NEW content \in Content, EditSource(content) \/ EditTarget(content)
      PROVE  InPlace'
  BY <1>3, <1>4 DEF EditSource, EditTarget
<1>5. CASE Ask
  BY <1>5 DEF Ask, InPlace
<1>6. CASE Serve
  BY <1>6, ServeStarts DEF InPlace
<1>7. CASE SkipChunk
  <2>1. PICK k \in Nat : Progress(k)
    BY <1>2, <1>7 DEF SkipChunk
  <2>2. Progress(k + 1)' /\ k + 1 \in Nat
    BY <1>7, <2>1, SkipProgress
  <2> QED
    BY <2>2 DEF InPlace
<1>8. CASE LayChunk
  <2>1. PICK k \in Nat : Progress(k)
    BY <1>2, <1>8 DEF LayChunk
  <2>2. Progress(k + 1)' /\ k + 1 \in Nat
    BY <1>8, <2>1, LayProgress
  <2> QED
    BY <2>2 DEF InPlace
<1>9. CASE GiveUp \/ Write
  BY <1>3, <1>9 DEF GiveUp, Write
<1>10. CASE UNCHANGED vars
  BY <1>3, <1>10, Zenon DEF vars, InPlace
<1> QED
  BY <1>4, <1>5, <1>6, <1>7, <1>8, <1>9, <1>10 DEF Next, Transfer

\* When the last chunk is taken, what was to arrive has arrived.
LEMMA AllReached ==
  ASSUME NEW n \in Nat, NEW s \in Nat \ {0}, NEW c \in Nat, n <= c * s,
         NEW l \in Nat, NEW m \in Nat
  PROVE  Least(n, Least(Least(l, c), m) * s) = Least(n, Least(l, m) * s)
<1>1. CASE Least(l, m) <= c
  <2>1. Least(Least(l, c), m) = Least(l, m)
    BY <1>1 DEF Least
  <2> QED
    BY <2>1
<1>2. CASE Least(l, m) > c
  <2>1. Least(Least(l, c), m) = c /\ Least(l, m) \in Nat
    BY <1>2 DEF Least
  <2>2. c * s <= Least(l, m) * s /\ c * s \in Nat /\ Least(l, m) * s \in Nat
    BY <1>2, <2>1, Multiples
  <2>3. n <= Least(l, m) * s
    BY <2>2
  <2>4. Least(n, c * s) = n /\ Least(n, Least(l, m) * s) = n
    BY <2>2, <2>3 DEF Least
  <2> QED
    BY <2>1, <2>4
<1> QED
  <2>1. Least(l, m) \in Nat
    BY Bounds
  <2> QED
    BY <1>1, <1>2, <2>1

LEMMA EndsInPlace == TypeOK /\ InPlace => BytesInPlace
<1> SUFFICES ASSUME TypeOK, InPlace, Written
             PROVE  buffer = Expected
  BY DEF BytesInPlace
<1>1. PICK k \in Nat : Progress(k)
  BY DEF InPlace, Written
<1>2. k = Total
  <2>1. Len(chunks) = 0 /\ Len(chunks) = Total - k /\ Total \in Nat
    BY <1>1, Sizes DEF Progress, Written
  <2> QED
    BY <2>1
<1> DEFINE c == ChunkCount(served, SourceChunkSize)
           n == Len(served)
           ms == maxIndex.source
           mt == maxIndex.target
           s == SourceChunkSize
<1>3. /\ s \in Nat \ {0} /\ c \in Nat /\ n \in Nat /\ n <= c * s /\ Total = Least(Least(asked, ms), c)
      /\ asked \in Nat /\ ms \in Nat /\ mt \in Nat
  BY Sizes DEF Total
<1>4. Reach(k) = Least(n, Least(Least(Least(asked, ms), c), mt) * s)
  BY <1>2, <1>3 DEF Reach
<1>5. Arrived = Least(n, Least(asked, Least(ms, mt)) * s)
  BY DEF Arrived
<1> HIDE DEF c, n, ms, mt, s
<1>6. Least(asked, ms) \in Nat
  BY <1>3, Bounds
<1>7. Least(n, Least(Least(Least(asked, ms), c), mt) * s) = Least(n, Least(Least(asked, ms), mt) * s)
  BY <1>3, <1>6, AllReached
<1>8. Least(Least(asked, ms), mt) = Least(asked, Least(ms, mt))
  BY <1>3 DEF Least
<1>9. Reach(k) = Arrived
  BY <1>4, <1>5, <1>7, <1>8
<1> QED
  BY <1>1, <1>9 DEF Progress, Over, Expected

\* With one chunk size, whatever the limits of the two peers, and however their users write
\* meanwhile: what a finished transfer writes is the bytes that were asked for, served and
\* taken, each where it stood, over what the file held.
THEOREM BytesArriveInPlace == ASSUME SameSize PROVE Spec => []BytesInPlace
<1>1. Spec => []InPlace
  BY InPlaceInit, InPlaceStep, ChunksTypeCorrect, PTL DEF Spec
<1> QED
  BY <1>1, EndsInPlace, ChunksTypeCorrect, PTL

-----------------------------------------------------------------------------
(* Chunks for contents *)

\* A file of whole chunks has as many bytes as these.
LEMMA WholeChunks ==
  ASSUME NEW n \in Nat, NEW s \in Nat \ {0}, n % s = 0
  PROVE  ((n + s - 1) \div s) * s = n
<1> DEFINE c == (n + s - 1) \div s
           q == n \div s
<1>1. q \in Nat /\ q * s = n
  OBVIOUS
<1>2. c \in Nat /\ n <= c * s /\ (n <= q * s => c <= q)
  BY <1>1, Counting
<1> HIDE DEF c, q
<1>3. c <= q
  BY <1>1, <1>2
<1>4. c * s <= q * s /\ c * s \in Nat
  BY <1>1, <1>2, <1>3, Multiples
<1> QED
  BY <1>1, <1>2, <1>4 DEF c

LEMMA CountGrows ==
  ASSUME NEW n \in Nat, NEW m \in Nat, n <= m, NEW s \in Nat \ {0}
  PROVE  (n + s - 1) \div s <= (m + s - 1) \div s
<1> DEFINE c == (n + s - 1) \div s
           d == (m + s - 1) \div s
<1>1. c \in Nat /\ \A q \in Nat : n <= q * s => c <= q
  BY Counting
<1>2. d \in Nat /\ m <= d * s
  BY Counting
<1> HIDE DEF c, d
<1>3. d * s \in Nat
  BY <1>2, Multiples
<1>4. n <= d * s
  BY <1>2, <1>3
<1> QED
  BY <1>1, <1>2, <1>4 DEF c, d

\* What the overlay of new over old by chunks is.
Overlaid(old, new, s) ==
  [i \in 1 .. Most(Len(Split(old, s)), Len(Split(new, s))) |->
     IF i <= Len(Split(new, s)) THEN Split(new, s)[i] ELSE Split(old, s)[i]]

LEMMA OverlayLonger ==
  ASSUME NEW old \in Seq(Bytes), NEW new \in Seq(Byte), NEW s \in Nat \ {0}, Len(new) >= Len(old)
  PROVE  Split(Over(old, new, Len(new)), s) = Overlaid(old, new, s)
<1> DEFINE file == Over(old, new, Len(new))
           c == ChunkCount(new, s)
           split == Split(new, s)
<1>1. Len(old) \in Nat /\ Len(new) \in Nat /\ new \in Seq(Bytes)
  BY Lengths, Narrow
<1> DEFINE l == Len(new)
<1>a. l \in Nat /\ l <= Len(new)
  BY <1>1
<1> HIDE DEF l
<1>b. /\ Over(old, new, l) \in Seq(Bytes) /\ Len(Over(old, new, l)) = Most(Len(old), l)
      /\ \A i \in 1 .. Most(Len(old), l) : Over(old, new, l)[i] = IF i <= l THEN new[i] ELSE old[i]
  BY <1>a, OverIs
<1>2. /\ file \in Seq(Bytes) /\ Len(file) = Most(Len(old), Len(new))
      /\ \A i \in 1 .. Most(Len(old), Len(new)) :
           file[i] = IF i <= Len(new) THEN new[i] ELSE old[i]
  BY <1>b DEF l
<1> HIDE DEF file
<1>3. file = new
  <2>1. Most(Len(old), Len(new)) = Len(new)
    BY <1>1 DEF Most
  <2> QED
    BY <1>1, <1>2, <2>1, SameSeq
<1>4. c \in Nat /\ Len(split) = c /\ DOMAIN split = 1 .. c /\ split \in Seq(Seq(Byte))
  BY Counted, SplitSize
<1>5. Len(Split(old, s)) \in Nat /\ Len(Split(old, s)) <= c
  <2>1. Len(Split(old, s)) = ChunkCount(old, s) /\ ChunkCount(old, s) \in Nat
    BY Counted, SplitSize
  <2>2. ChunkCount(old, s) <= c
    BY <1>1, CountGrows DEF ChunkCount
  <2> QED
    BY <2>1, <2>2
<1>6. split = [i \in 1 .. c |-> split[i]]
  BY DEF Split
<1> HIDE DEF c, split
<1>7. Most(Len(Split(old, s)), c) = c
  BY <1>4, <1>5 DEF Most
<1>8. Overlaid(old, new, s) = [i \in 1 .. c |-> IF i <= c THEN split[i] ELSE Split(old, s)[i]]
  BY <1>4, <1>7 DEF Overlaid, split
<1>9. \A i \in 1 .. c : i <= c
  BY <1>4
<1>10. Overlaid(old, new, s) = split
  BY <1>6, <1>8, <1>9
<1> QED
  BY <1>3, <1>10 DEF file, split

\* Where a chunk of a file stands if a file of whole chunks is laid over it.
LEMMA Places ==
  ASSUME NEW n \in Nat, NEW s \in Nat \ {0}, NEW c \in Nat, n <= c * s, c * s < n + s,
         NEW p \in Nat, p * s <= n, NEW i \in 1 .. c
  PROVE  /\ First(i, s) \in Nat /\ Last(i, s, n) \in Nat /\ Last(i, s, n) <= n
         /\ Width(i, s, n) \in Nat
         /\ i <= p => (Width(i, s, p * s) = Width(i, s, n) /\ Last(i, s, n) <= p * s)
         /\ i > p => First(i, s) >= p * s
         /\ \A j \in 1 .. Width(i, s, n) :
              At(i, s, j) \in Nat /\ First(i, s) < At(i, s, j) /\ At(i, s, j) <= Last(i, s, n)
<1>1. /\ First(i, s) \in Nat /\ Last(i, s, n) \in Nat /\ First(i, s) < Last(i, s, n)
      /\ Last(i, s, n) <= n
  BY ChunkPlaces
<1>2. i * s \in Nat /\ p * s \in Nat
  BY Multiples
<1>3. ASSUME i <= p
      PROVE  Last(i, s, p * s) = i * s /\ Last(i, s, n) = i * s /\ i * s <= p * s
  <2>1. i * s <= p * s
    BY <1>3, Multiples
  <2> QED
    BY <1>2, <2>1 DEF Last, Least
<1>4. ASSUME i > p
      PROVE  First(i, s) >= p * s
  <2>1. i - 1 \in Nat /\ p <= i - 1
    BY <1>4
  <2>2. p * s <= (i - 1) * s
    BY <2>1, Multiples
  <2> QED
    BY <2>2 DEF First
<1>5. Width(i, s, n) \in Nat /\ Width(i, s, n) = Last(i, s, n) - First(i, s)
  BY <1>1 DEF Width
<1>6. ASSUME NEW j \in 1 .. Width(i, s, n)
      PROVE  At(i, s, j) \in Nat /\ First(i, s) < At(i, s, j) /\ At(i, s, j) <= Last(i, s, n)
  BY <1>1, <1>5 DEF At
<1>7. i <= p => (Width(i, s, p * s) = Width(i, s, n) /\ Last(i, s, n) <= p * s)
  BY <1>3 DEF Width
<1> QED
  BY <1>1, <1>4, <1>5, <1>6, <1>7

LEMMA OverlayShorter ==
  ASSUME NEW old \in Seq(Bytes), NEW new \in Seq(Byte), NEW s \in Nat \ {0},
         Len(new) < Len(old), Len(new) % s = 0
  PROVE  Split(Over(old, new, Len(new)), s) = Overlaid(old, new, s)
<1> DEFINE l == Len(new)
           n == Len(old)
           file == Over(old, new, l)
           c == ChunkCount(old, s)
           p == ChunkCount(new, s)
<1>1. n \in Nat /\ l \in Nat /\ new \in Seq(Bytes) /\ l < n /\ l <= Len(new)
  BY Lengths, Narrow
<1>2. c \in Nat /\ n <= c * s /\ c * s < n + s /\ p \in Nat
  BY Counted
<1>3. p * s = l
  BY <1>1, WholeChunks DEF ChunkCount
<1>4. Len(Split(old, s)) = c /\ Len(Split(new, s)) = p
  BY <1>1, SplitSize
<1>5. p <= c
  BY <1>1, CountGrows DEF ChunkCount
<1> HIDE DEF l
<1>6. /\ file \in Seq(Bytes) /\ Len(file) = Most(n, l)
      /\ \A i \in 1 .. Most(n, l) : file[i] = IF i <= l THEN new[i] ELSE old[i]
  BY <1>1, OverIs
<1>7. Len(file) = n /\ \A i \in 1 .. n : file[i] = IF i <= l THEN new[i] ELSE old[i]
  <2>1. Most(n, l) = n
    BY <1>1 DEF Most
  <2> QED
    BY <1>6, <2>1
<1>8. ChunkCount(file, s) = c
  BY <1>7 DEF ChunkCount
<1>9. Split(file, s) = [i \in 1 .. c |-> Split(file, s)[i]]
  BY <1>8 DEF Split
<1> HIDE DEF file
<1>10. ASSUME NEW i \in 1 .. c
       PROVE  Split(file, s)[i] = IF i <= p THEN Split(new, s)[i] ELSE Split(old, s)[i]
  <2>1. Cuts(file, s) /\ Cuts(old, s) /\ Cuts(new, s)
    BY <1>1, <1>6, SplitCuts
  <2>2. /\ Len(Split(file, s)[i]) = Width(i, s, n)
        /\ \A j \in 1 .. Width(i, s, n) : Split(file, s)[i][j] = file[At(i, s, j)]
    BY <1>7, <1>8, <2>1 DEF Cuts
  <2>3. /\ Len(Split(old, s)[i]) = Width(i, s, n)
        /\ \A j \in 1 .. Width(i, s, n) : Split(old, s)[i][j] = old[At(i, s, j)]
    BY <2>1 DEF Cuts
  <2>4. ASSUME i <= p
        PROVE  /\ i \in 1 .. p
               /\ Len(Split(new, s)[i]) = Width(i, s, l)
               /\ \A j \in 1 .. Width(i, s, l) : Split(new, s)[i][j] = new[At(i, s, j)]
    <3>1. i \in 1 .. p
      BY <1>2, <2>4
    <3> QED
      BY <2>1, <3>1 DEF Cuts, l
  <2>5. Split(file, s)[i] \in Seq(Bytes) /\ Split(old, s)[i] \in Seq(Bytes)
    BY <1>6, <1>8, SplitAt
  <2>6. i <= p => Split(new, s)[i] \in Seq(Bytes)
    BY <1>1, <2>4, SplitAt
  <2> HIDE DEF c, p, n
  <2>7. /\ First(i, s) \in Nat /\ Last(i, s, n) \in Nat /\ Last(i, s, n) <= n
        /\ Width(i, s, n) \in Nat
        /\ i <= p => (Width(i, s, p * s) = Width(i, s, n) /\ Last(i, s, n) <= p * s)
        /\ i > p => First(i, s) >= p * s
        /\ \A j \in 1 .. Width(i, s, n) :
             At(i, s, j) \in Nat /\ First(i, s) < At(i, s, j) /\ At(i, s, j) <= Last(i, s, n)
    <3>1. p * s <= n
      BY <1>1, <1>3
    <3> QED
      BY <1>1, <1>2, <3>1, Places
  <2>8. CASE i <= p
    <3>1. Width(i, s, l) = Width(i, s, n) /\ Last(i, s, n) <= l
      BY <1>3, <2>7, <2>8
    <3>2. ASSUME NEW j \in 1 .. Width(i, s, n)
          PROVE  Split(file, s)[i][j] = Split(new, s)[i][j]
      <4>1. At(i, s, j) \in 1 .. n /\ At(i, s, j) <= l
        BY <1>1, <2>7, <3>1
      <4> QED
        BY <1>7, <2>2, <2>4, <2>8, <3>1, <4>1
    <3>3. /\ Split(file, s)[i] \in Seq(Bytes) /\ Split(new, s)[i] \in Seq(Bytes)
          /\ Len(Split(file, s)[i]) = Width(i, s, n) /\ Len(Split(new, s)[i]) = Width(i, s, n)
      BY <2>2, <2>4, <2>5, <2>6, <2>8, <3>1
    <3>4. Split(file, s)[i] = Split(new, s)[i]
      BY <3>2, <3>3, SameSeq
    <3> QED
      BY <2>8, <3>4
  <2>9. CASE i > p
    <3>1. First(i, s) >= l
      BY <1>3, <2>7, <2>9
    <3>2. ASSUME NEW j \in 1 .. Width(i, s, n)
          PROVE  Split(file, s)[i][j] = Split(old, s)[i][j]
      <4>1. At(i, s, j) \in 1 .. n /\ ~(At(i, s, j) <= l)
        BY <1>1, <2>7, <3>1
      <4> QED
        BY <1>7, <2>2, <2>3, <4>1
    <3>3. Split(file, s)[i] = Split(old, s)[i]
      BY <2>2, <2>3, <2>5, <3>2, SameSeq
    <3> QED
      BY <1>2, <2>9, <3>3
  <2> QED
    BY <1>2, <2>8, <2>9
<1> HIDE DEF c, p
<1>11. Overlaid(old, new, s)
         = [i \in 1 .. c |-> IF i <= p THEN Split(new, s)[i] ELSE Split(old, s)[i]]
  <2>1. Most(c, p) = c
    BY <1>2, <1>5 DEF Most
  <2> QED
    BY <1>4, <2>1 DEF Overlaid
<1>12. Split(file, s) = Overlaid(old, new, s)
  BY <1>9, <1>10, <1>11
<1> QED
  BY <1>12 DEF file, l

\* With one chunk size, laying chunks down is what SyncEngine takes it for: the sequence of
\* chunks that arrived over the sequence of chunks of the file, as long as the last chunk
\* that arrives is whole or nothing of the file lies behind it.
THEOREM ChunksStandForBytes == ASSUME SameSize PROVE Spec => []OverlayByChunk
<1>1. TypeOK /\ BytesInPlace => OverlayByChunk
  <2> DEFINE s == TargetChunkSize
             new == SubSeq(served, 1, Arrived)
  <2> SUFFICES ASSUME TypeOK, buffer = Expected, Arrived % s = 0 \/ Arrived >= Len(base)
               PROVE  Split(buffer, s) = Overlaid(base, new, s)
    BY DEF OverlayByChunk, BytesInPlace, Overlaid
  <2>1. s \in Nat \ {0} /\ base \in Seq(Bytes) /\ served \in Seq(Byte)
    BY ChunkAssumption DEF TypeOK, Bytes
  <2>2. Arrived \in Nat /\ Arrived <= Len(served)
    <3>1. Len(served) \in Nat /\ asked \in Nat /\ maxIndex.source \in Nat /\ maxIndex.target \in Nat
      BY Sizes
    <3>2. Least(asked, Least(maxIndex.source, maxIndex.target)) \in Nat
      BY <3>1 DEF Least
    <3>3. Least(asked, Least(maxIndex.source, maxIndex.target)) * SourceChunkSize \in Nat
      BY <3>2, ChunkAssumption, Multiples
    <3> QED
      BY <3>1, <3>3, Bounds DEF Arrived
  <2>3. /\ new \in Seq(Byte) /\ Len(new) = Arrived
        /\ \A i \in 1 .. Arrived : new[i] = served[i]
    <3>1. Len(served) \in Nat /\ \A i \in 1 .. Len(served) : served[i] \in Byte
      BY <2>1, Lengths
    <3> DEFINE a == Arrived
    <3> HIDE DEF a
    <3>2. a \in Nat /\ a <= Len(served)
      BY <2>2 DEF a
    <3>3. \A i \in 1 .. a : served[i] \in Byte
      BY <3>1, <3>2
    <3>4. 1 \in Int /\ a \in Int /\ \A i \in 1 .. a : i - 1 + 1 = i /\ 1 + i - 1 = i
      BY <3>2
    <3>5. /\ SubSeq(served, 1, a) \in Seq(Byte) /\ Len(SubSeq(served, 1, a)) = a
          /\ \A i \in 1 .. a : SubSeq(served, 1, a)[i] = served[i]
      BY <3>2, <3>3, <3>4, SubSeqProperties
    <3> QED
      BY <3>5 DEF a
  <2> HIDE DEF new
  <2>4. Expected = Over(base, new, Len(new))
    <3>1. Len(base) \in Nat
      BY <2>1, Lengths
    <3>2. \A i \in 1 .. Most(Len(base), Arrived) : i <= Arrived => i \in 1 .. Arrived
      BY <2>2, <3>1 DEF Most
    <3> QED
      BY <2>3, <3>2 DEF Expected, Over
  <2>5. CASE Len(new) >= Len(base)
    BY <2>1, <2>3, <2>4, <2>5, OverlayLonger
  <2>6. CASE Len(new) < Len(base)
    <3>1. Len(new) % s = 0
      <4>1. Len(base) \in Nat
        BY <2>1, Lengths
      <4> QED
        BY <2>2, <2>3, <2>6, <4>1
    <3> QED
      BY <2>1, <2>3, <2>4, <2>6, <3>1, OverlayShorter
  <2> QED
    <3>1. Len(base) \in Nat /\ Len(new) \in Nat
      BY <2>1, <2>3, Lengths
    <3> QED
      BY <2>5, <2>6, <3>1
<1> QED
  BY <1>1, BytesArriveInPlace, ChunksTypeCorrect, PTL

=============================================================================
