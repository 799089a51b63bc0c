--------------------------- MODULE BufallocProofs ---------------------------
(***************************************************************************)
(* Proofs about Bufalloc for every number of threads, buffers, regions and *)
(* chunk records, every alignment and every set of sizes, as long as the   *)
(* sizes stay in the range of int (NoIntOverflow).                         *)
(***************************************************************************)
EXTENDS Bufalloc, SequenceTheorems, ArithmeticTheorems

\* No size the clients ask for, and no region made for it, leaves the range in
\* which chunk_slack, which returns an int, is exact.
NoIntOverflow == \A s \in Sizes : region_size(s) < IntHalf /\ s + Align <= IntHalf

\* What makes one region consistent: the parts that the runs check, and that every
\* chunk but the sentinel has a size, so that no two of them share an address.
RegionOK(R) ==
  /\ R \in Region
  /\ SentinelOK(R)
  /\ OrderOK(R)
  /\ RecordsOK(R)
  /\ \A i \in 1..(Len(R.chunks) - 1) : At(R, i).size > 0
  /\ R.size < IntHalf
-----------------------------------------------------------------------------
(* Arithmetic.                                                             *)

\* In its range, the conversion to int is exact.
LEMMA ToIntExact ==
  ASSUME NEW x \in Int, -IntHalf <= x, x < IntHalf
  PROVE  ToInt(x) = x
<1>1. IntHalf \in Nat \ {0}
  BY WidthAssumption
<1>2. x + IntHalf \in 0..(2 * IntHalf - 1)
  BY <1>1
<1>3. \A m \in Nat \ {0} : \A y \in 0..(m - 1) : y % m = y
  OBVIOUS
<1>4. (x + IntHalf) % (2 * IntHalf) = x + IntHalf
  BY <1>1, <1>2, <1>3
<1> QED
  BY <1>1, <1>4 DEF ToInt

\* Rounding up to the alignment adds less than the alignment.
LEMMA AlignUpBounds ==
  ASSUME NEW a \in Nat
  PROVE  AlignUp(a) \in Nat /\ a <= AlignUp(a) /\ AlignUp(a) < a + Align
BY AlignAssumption DEF AlignUp

\* A chunk of a region that the code finds large enough is large enough.
LEMMA FitsExact ==
  ASSUME NoIntOverflow, NEW ch \in Chunk, NEW size \in Sizes,
         ch.size < IntHalf
  PROVE  /\ chunk_slack(ch, size) = End(ch) - (AlignUp(ch.start) + size)
         /\ Fits(ch, size) <=> AlignUp(ch.start) + size <= End(ch)
<1>1. AlignUp(ch.start) \in Nat /\ ch.start <= AlignUp(ch.start)
      /\ AlignUp(ch.start) < ch.start + Align
  BY AlignUpBounds DEF Chunk
<1>2. size \in Nat /\ size + Align <= IntHalf /\ IntHalf \in Nat /\ Align \in Nat
  BY SizesAssumption, WidthAssumption, AlignAssumption DEF NoIntOverflow
<1>3. End(ch) = ch.start + ch.size /\ ch.start \in Nat /\ ch.size \in Nat
  BY DEF End, Chunk
<1> DEFINE x == End(ch) - (AlignUp(ch.start) + size)
<1>4. x \in Int /\ -IntHalf <= x /\ x < IntHalf
  BY <1>1, <1>2, <1>3
<1>5. ToInt(x) = x
  BY <1>4, ToIntExact
<1> QED
  BY <1>1, <1>2, <1>3, <1>5 DEF chunk_slack, Fits

LEMMA RegionSizeNat ==
  ASSUME NEW s \in Nat
  PROVE  region_size(s) \in Nat
<1>1. \A m \in Nat \ {0} : \A x \in Nat : x % m \in Nat
  OBVIOUS
<1>2. s + Additional \in Nat
  BY GrowthAssumption
<1>3. s * Multiple \in Nat
  BY GrowthAssumption
<1>4. (s + Additional) % SizeMod \in Nat
  BY <1>1, <1>2, WidthAssumption
<1>5. (s * Multiple) % SizeMod \in Nat
  BY <1>1, <1>3, WidthAssumption
<1> QED
  BY <1>4, <1>5 DEF region_size
-----------------------------------------------------------------------------
(* Operations on a region.                                                 *)

LEMMA DeleteProperties ==
  ASSUME NEW S, NEW seq \in Seq(S), NEW i \in 1..Len(seq)
  PROVE  /\ Delete(seq, i) \in Seq(S)
         /\ Len(Delete(seq, i)) = Len(seq) - 1
         /\ \A j \in 1..(Len(seq) - 1) :
              Delete(seq, i)[j] = IF j < i THEN seq[j] ELSE seq[j + 1]
<1>1. Len(seq) - 1 \in Nat
  OBVIOUS
<1>2. Delete(seq, i) \in [1..(Len(seq) - 1) -> S]
  BY DEF Delete
<1>3. Delete(seq, i) \in Seq(S)
  BY <1>1, <1>2, SeqDef
<1> QED
  BY <1>1, <1>2, <1>3, LenProperties DEF Delete

\* A new region is consistent, and all of it is the sentinel.
LEMMA InitRegionOK ==
  ASSUME NEW base \in Nat, NEW size \in Nat, size < IntHalf, NEW c \in Chunks
  PROVE  RegionOK(init_mem_region(base, size, c))
BY DEF RegionOK, init_mem_region, Region, Chunk, Unused, SentinelOK, OrderOK,
       RecordsOK, At, End

\* The chunks of a consistent region are smaller than IntHalf.
LEMMA ChunkSizes ==
  ASSUME NEW R, RegionOK(R), NEW i \in 1..Len(R.chunks)
  PROVE  /\ R.chunks[i] \in Chunks \ R.free
         /\ At(R, i) = R.chunk[R.chunks[i]]
         /\ At(R, i) \in Chunk
         /\ At(R, i).size < IntHalf
<1>1. R.chunks[i] \in Chunks /\ At(R, i) \in Chunk
  BY DEF RegionOK, Region, At
<1>2. R.base <= At(R, i).start /\ At(R, i).start + At(R, i).size <= R.base + R.size
  BY DEF RegionOK, OrderOK, End
<1> QED
  BY <1>1, <1>2, WidthAssumption DEF RegionOK, RecordsOK, Region, At, Chunk

\* Every listed record has one position in the list.
LEMMA Position ==
  ASSUME NEW R, RegionOK(R), NEW c \in Chunks \ R.free
  PROVE  \E i \in 1..Len(R.chunks) : R.chunks[i] = c
BY DEF RegionOK, RecordsOK

\* append_new_chunk keeps a region consistent and touches no chunk but the sentinel
\* and the new one.
LEMMA AppendOK ==
  ASSUME NoIntOverflow, NEW R, RegionOK(R), NEW size \in Sizes, NEW c \in R.free,
         CanAppend(R, size)
  PROVE  LET N == append_new_chunk(R, size, c) IN
         /\ RegionOK(N)
         /\ N.base = R.base /\ N.size = R.size
         /\ N.free = R.free \ {c} /\ N.last = R.last
         /\ N.chunk[c].alloc /\ N.chunk[c].size = size
         /\ \A d \in Chunks \ R.free : d # R.last => N.chunk[d] = R.chunk[d]
         /\ Len(N.chunks) = Len(R.chunks) + 1
         /\ \A j \in 1..(Len(R.chunks) - 1) : At(N, j) = At(R, j)
         /\ At(N, Len(R.chunks)) = N.chunk[c]
         /\ N.chunk[c].start = AlignUp(R.chunk[R.last].start)
         /\ End(At(N, Len(R.chunks) + 1)) = End(R.chunk[R.last])
<1> DEFINE N == append_new_chunk(R, size, c)
           n == Len(R.chunks)
           rest == R.chunk[R.last]
           new == [start |-> AlignUp(rest.start), size |-> size, alloc |-> TRUE]
           rest2 == [rest EXCEPT !.start = End(new), !.size = chunk_slack(rest, size)]
           seq == Delete(R.chunks, n) \o <<c, R.last>>
<1>1. /\ R \in Region /\ n \in Nat \ {0} /\ R.chunks \in Seq(Chunks) /\ R.last \in Chunks
      /\ R.chunks[n] = R.last /\ c \in Chunks /\ c # R.last
      /\ rest \in Chunk /\ rest = At(R, n) /\ rest.size < IntHalf /\ ~rest.alloc
  <2>1. R \in Region /\ R.chunks \in Seq(Chunks) /\ R.last \in Chunks /\ c \in Chunks
    BY DEF RegionOK, Region
  <2>2. n \in Nat \ {0} /\ R.chunks[n] = R.last
    BY <2>1, EmptySeq DEF RegionOK, SentinelOK
  <2>3. rest \in Chunk /\ rest = At(R, n) /\ rest.size < IntHalf /\ R.last \notin R.free
    BY <2>1, <2>2, ChunkSizes
  <2> QED
    BY <2>1, <2>2, <2>3 DEF RegionOK, SentinelOK
<1>2. (CHOOSE i \in 1..Len(R.chunks) : R.chunks[i] = R.last) = n
  BY <1>1 DEF RegionOK, RecordsOK
<1>3. /\ AlignUp(rest.start) \in Nat /\ rest.start <= AlignUp(rest.start)
      /\ size \in Nat \ {0}
      /\ chunk_slack(rest, size) = End(rest) - (AlignUp(rest.start) + size)
      /\ AlignUp(rest.start) + size <= End(rest)
  <2>1. Fits(rest, size)
    BY DEF CanAppend
  <2>2. rest.start \in Nat
    BY <1>1 DEF Chunk
  <2> HIDE DEF rest
  <2> QED
    BY <1>1, <2>1, <2>2, FitsExact, AlignUpBounds, SizesAssumption
<1>4. /\ new \in Chunk /\ rest2 \in Chunk
      /\ new.start = AlignUp(rest.start) /\ new.size = size /\ new.alloc
      /\ rest2.start = End(new) /\ End(rest2) = End(rest) /\ ~rest2.alloc
      /\ End(new) = AlignUp(rest.start) + size
  <2> HIDE DEF rest
  <2>1. new \in Chunk /\ End(new) = AlignUp(rest.start) + size /\ End(new) \in Nat
    BY <1>3 DEF Chunk, End
  <2>2. chunk_slack(rest, size) \in Nat
    BY <1>1, <1>3 DEF Chunk, End
  <2>3. rest2 \in Chunk /\ rest2.start = End(new) /\ rest2.size = chunk_slack(rest, size)
        /\ rest2.alloc = rest.alloc
    BY <1>1, <2>1, <2>2 DEF Chunk
  <2>4. End(rest2) = End(rest)
    BY <1>1, <1>3, <2>1, <2>3 DEF Chunk, End
  <2> QED
    BY <1>1, <2>1, <2>3, <2>4
<1>5. /\ seq \in Seq(Chunks) /\ Len(seq) = n + 1
      /\ \A j \in 1..(n - 1) : seq[j] = R.chunks[j]
      /\ seq[n] = c /\ seq[n + 1] = R.last
  <2>1. /\ Delete(R.chunks, n) \in Seq(Chunks) /\ Len(Delete(R.chunks, n)) = n - 1
        /\ \A j \in 1..(n - 1) : Delete(R.chunks, n)[j] = R.chunks[j]
    <3>1. n \in 1..Len(R.chunks)
      BY <1>1
    <3>2. /\ Delete(R.chunks, n) \in Seq(Chunks)
          /\ Len(Delete(R.chunks, n)) = Len(R.chunks) - 1
          /\ \A j \in 1..(Len(R.chunks) - 1) :
               Delete(R.chunks, n)[j] = IF j < n THEN R.chunks[j] ELSE R.chunks[j + 1]
      BY <1>1, <3>1, DeleteProperties
    <3> QED
      BY <1>1, <3>2
  <2>2. <<c, R.last>> \in Seq(Chunks) /\ Len(<<c, R.last>>) = 2
    BY <1>1
  <2> DEFINE d == Delete(R.chunks, n)
             e == <<c, R.last>>
  <2>a. e[1] = c /\ e[2] = R.last
    OBVIOUS
  <2>b. seq = d \o e
    OBVIOUS
  <2> HIDE DEF seq, d, e, n
  <2>3. /\ seq \in Seq(Chunks) /\ Len(seq) = (n - 1) + 2
        /\ \A j \in 1..((n - 1) + 2) :
             seq[j] = IF j <= n - 1 THEN d[j] ELSE e[j - (n - 1)]
    <3>1. d \in Seq(Chunks) /\ e \in Seq(Chunks) /\ Len(d) = n - 1 /\ Len(e) = 2
      BY <2>1, <2>2 DEF d, e
    <3> QED
      BY <3>1, <2>b, ConcatProperties
  <2>4. \A j \in 1..(n - 1) : d[j] = R.chunks[j]
    BY <2>1 DEF d
  <2> QED
    BY <2>3, <2>4, <2>a, <1>1
<1> HIDE DEF seq, new, rest2, n, rest
<1>6. /\ N.chunk = [R.chunk EXCEPT ![c] = new, ![R.last] = rest2]
      /\ N.chunks = seq /\ N.free = R.free \ {c} /\ N.last = R.last
      /\ N.base = R.base /\ N.size = R.size /\ N \in Region
  <2>1. N = [R EXCEPT !.chunk = [R.chunk EXCEPT ![c] = new, ![R.last] = rest2],
                      !.chunks = seq, !.free = R.free \ {c}]
    BY <1>2 DEF append_new_chunk, seq, new, rest2, rest
  <2> QED
    <3> DEFINE f == [R.chunk EXCEPT ![c] = new, ![R.last] = rest2]
    <3>1. f \in [Chunks -> Chunk] /\ R.free \ {c} \in SUBSET Chunks
      BY <1>1, <1>4 DEF Region
    <3> HIDE DEF f, N
    <3>2. N = [R EXCEPT !.chunk = f, !.chunks = seq, !.free = R.free \ {c}]
      BY <2>1 DEF f
    <3>3. /\ N.chunk = f /\ N.chunks = seq /\ N.free = R.free \ {c} /\ N.last = R.last
          /\ N.base = R.base /\ N.size = R.size /\ N \in Region
      BY <3>1, <3>2, <1>1, <1>5 DEF Region
    <3> QED
      BY <3>3 DEF f
<1>7. /\ N.chunk[c] = new /\ N.chunk[R.last] = rest2
      /\ \A d \in Chunks \ {c, R.last} : N.chunk[d] = R.chunk[d]
  BY <1>1, <1>6 DEF Region
<1> HIDE DEF N
<1>8. /\ \A j \in 1..(n - 1) : /\ R.chunks[j] \in Chunks \ {c, R.last}
                               /\ R.chunks[j] \notin R.free
                               /\ N.chunks[j] = R.chunks[j]
                               /\ At(N, j) = At(R, j)
      /\ At(N, n) = new /\ At(N, n + 1) = rest2 /\ Len(N.chunks) = n + 1
  <2>1. \A j \in 1..n : R.chunks[j] \in Chunks \ R.free
    BY ChunkSizes DEF n
  <2>2. \A j \in 1..(n - 1) : R.chunks[j] # R.last
    BY <1>1 DEF RegionOK, RecordsOK, n
  <2>3. \A j \in 1..(n - 1) : j \in 1..n
    BY <1>1
  <2>4. \A j \in 1..(n - 1) : R.chunks[j] \in Chunks \ {c, R.last} /\ R.chunks[j] \notin R.free
    BY <2>1, <2>2, <2>3
  <2> QED
    BY <1>1, <1>5, <1>6, <1>7, <2>4 DEF At
<1>9. SentinelOK(N)
  BY <1>1, <1>4, <1>5, <1>6, <1>7 DEF SentinelOK
<1>10. OrderOK(N)
  <2>1. /\ \A i \in 1..n : At(R, i) \in Chunk /\ R.base <= At(R, i).start
                           /\ End(At(R, i)) <= R.base + R.size
        /\ \A i, j \in 1..n : i < j => End(At(R, i)) <= At(R, j).start
    BY <1>1, ChunkSizes DEF RegionOK, OrderOK, n
  <2>2. R.base \in Nat /\ R.size \in Nat /\ End(rest) \in Nat /\ rest.start \in Nat
        /\ \A i \in 1..n : End(At(R, i)) \in Nat /\ At(R, i).start \in Nat
    <3>1. R.base \in Nat /\ R.size \in Nat
      BY <1>1 DEF Region
    <3>2. \A ch \in Chunk : End(ch) \in Nat /\ ch.start \in Nat
      BY DEF Chunk, End
    <3> QED
      BY <3>1, <3>2, <1>1, <2>1
  <2>3. \A i \in 1..(n + 1) : R.base <= At(N, i).start /\ End(At(N, i)) <= R.base + R.size
    <3> TAKE i \in 1..(n + 1)
    <3>1. CASE i \in 1..(n - 1)
      BY <3>1, <1>1, <1>8, <2>1
    <3>2. CASE i = n
      BY <3>2, <1>1, <1>3, <1>4, <1>8, <2>1, <2>2
    <3>3. CASE i = n + 1
      BY <3>3, <1>1, <1>3, <1>4, <1>8, <2>1, <2>2
    <3> QED
      BY <3>1, <3>2, <3>3, <1>1
  <2>4. \A i, j \in 1..(n + 1) : i < j => End(At(N, i)) <= At(N, j).start
    <3> TAKE i, j \in 1..(n + 1)
    <3> HAVE i < j
    <3>1. CASE j \in 1..(n - 1)
      BY <3>1, <1>1, <1>8, <2>1
    <3>2. CASE j = n
      BY <3>2, <1>1, <1>3, <1>4, <1>8, <2>1, <2>2
    <3>3. CASE j = n + 1 /\ i = n
      BY <3>3, <1>3, <1>4, <1>8
    <3>4. CASE j = n + 1 /\ i \in 1..(n - 1)
      <4>1. End(At(N, i)) <= rest.start
        BY <3>4, <1>1, <1>8, <2>1
      <4>2. At(N, j).start = AlignUp(rest.start) + size
        BY <3>4, <1>4, <1>8
      <4>3. End(At(N, i)) \in Nat
        BY <3>4, <1>1, <1>8, <2>2
      <4> QED
        BY <4>1, <4>2, <4>3, <1>3, <2>2
    <3> QED
      BY <3>1, <3>2, <3>3, <3>4, <1>1
  <2> QED
    BY <2>3, <2>4, <1>6, <1>8 DEF OrderOK
<1>11. RecordsOK(N)
  <2>1. \A i, j \in 1..(n + 1) : N.chunks[i] = N.chunks[j] => i = j
    <3>1. \A i, j \in 1..n : R.chunks[i] = R.chunks[j] => i = j
      BY DEF RegionOK, RecordsOK, n
    <3> QED
      BY <1>1, <1>5, <1>6, <1>8, <3>1
  <2>2. \A i \in 1..(n + 1) : N.chunks[i] \in Chunks \ N.free
    <3> TAKE i \in 1..(n + 1)
    <3>1. CASE i \in 1..(n - 1)
      BY <3>1, <1>6, <1>8
    <3>2. CASE i = n
      BY <3>2, <1>1, <1>5, <1>6
    <3>3. CASE i = n + 1
      <4>1. R.last \notin R.free
        BY <1>1, ChunkSizes DEF n
      <4> QED
        BY <3>3, <4>1, <1>1, <1>5, <1>6
    <3> QED
      BY <3>1, <3>2, <3>3, <1>1
  <2>3. \A d \in Chunks \ N.free : \E i \in 1..(n + 1) : N.chunks[i] = d
    <3> TAKE d \in Chunks \ N.free
    <3>1. CASE d = c
      BY <3>1, <1>1, <1>5, <1>6
    <3>2. CASE d # c
      <4>1. PICK i \in 1..n : R.chunks[i] = d
        BY <3>2, <1>6, Position DEF n
      <4> QED
        BY <4>1, <1>1, <1>5, <1>6
    <3> QED
      BY <3>1, <3>2
  <2> QED
    BY <2>1, <2>2, <2>3, <1>8 DEF RecordsOK
<1>12. \A i \in 1..(Len(N.chunks) - 1) : At(N, i).size > 0
  <2>1. \A i \in 1..(n - 1) : At(R, i).size > 0
    BY DEF RegionOK, n
  <2> QED
    BY <1>1, <1>3, <1>4, <1>8, <2>1
<1>13. RegionOK(N)
  BY <1>6, <1>9, <1>10, <1>11, <1>12 DEF RegionOK
<1>14. /\ Len(N.chunks) = Len(R.chunks) + 1
       /\ \A j \in 1..(Len(R.chunks) - 1) : At(N, j) = At(R, j)
       /\ At(N, Len(R.chunks)) = N.chunk[c]
       /\ N.chunk[c].start = AlignUp(R.chunk[R.last].start)
       /\ End(At(N, Len(R.chunks) + 1)) = End(R.chunk[R.last])
  BY <1>4, <1>7, <1>8 DEF n, rest
<1> QED
  BY <1>1, <1>4, <1>6, <1>7, <1>13, <1>14 DEF N

\* Marking a chunk other than the sentinel as allocated or not keeps a region
\* consistent.
LEMMA MarkOK ==
  ASSUME NEW R, RegionOK(R), NEW i \in 1..Len(R.chunks), R.chunks[i] # R.last,
         NEW b \in BOOLEAN
  PROVE  LET N == [R EXCEPT !.chunk[R.chunks[i]].alloc = b] IN
         /\ RegionOK(N)
         /\ N.base = R.base /\ N.size = R.size /\ N.free = R.free
         /\ N.chunks = R.chunks /\ N.last = R.last
         /\ N.chunk[R.chunks[i]] = [At(R, i) EXCEPT !.alloc = b]
         /\ \A d \in Chunks : d # R.chunks[i] => N.chunk[d] = R.chunk[d]
<1> DEFINE N == [R EXCEPT !.chunk[R.chunks[i]].alloc = b]
           k == R.chunks[i]
<1>1. R \in Region /\ k \in Chunks /\ At(R, i) \in Chunk /\ At(R, i) = R.chunk[k]
  BY ChunkSizes DEF RegionOK
<1>2. [At(R, i) EXCEPT !.alloc = b] \in Chunk
  BY <1>1 DEF Chunk
<1>3. /\ N.base = R.base /\ N.size = R.size /\ N.free = R.free
      /\ N.chunks = R.chunks /\ N.last = R.last
      /\ N.chunk = [R.chunk EXCEPT ![k] = [At(R, i) EXCEPT !.alloc = b]]
      /\ N \in Region
  BY <1>1, <1>2 DEF Region
<1>4. /\ N.chunk[k] = [At(R, i) EXCEPT !.alloc = b]
      /\ \A d \in Chunks : d # k => N.chunk[d] = R.chunk[d]
  BY <1>1, <1>3 DEF Region
<1> HIDE DEF N, k
<1>5. \A j \in 1..Len(R.chunks) : At(N, j).start = At(R, j).start /\ At(N, j).size = At(R, j).size
  <2> TAKE j \in 1..Len(R.chunks)
  <2>1. R.chunks[j] \in Chunks /\ At(N, j) = N.chunk[R.chunks[j]] /\ At(R, j) = R.chunk[R.chunks[j]]
    BY <1>3, ChunkSizes DEF At
  <2>2. CASE R.chunks[j] = k
    BY <1>1, <1>4, <2>1, <2>2 DEF Chunk
  <2>3. CASE R.chunks[j] # k
    BY <1>4, <2>1, <2>3
  <2> QED
    BY <2>2, <2>3
<1>6. SentinelOK(N)
  BY <1>1, <1>3, <1>4 DEF RegionOK, SentinelOK, Region, k
<1>7. OrderOK(N)
  BY <1>3, <1>5 DEF RegionOK, OrderOK, End
<1>8. RecordsOK(N)
  BY <1>3 DEF RegionOK, RecordsOK
<1>9. \A j \in 1..(Len(N.chunks) - 1) : At(N, j).size > 0
  BY <1>3, <1>5, <1>1 DEF RegionOK, Region
<1>10. RegionOK(N)
  BY <1>3, <1>6, <1>7, <1>8, <1>9 DEF RegionOK
<1> QED
  BY <1>3, <1>4, <1>10 DEF N, k

\* coalesce_chunks keeps a region consistent and touches no allocated chunk.
LEMMA CoalesceOK ==
  ASSUME NEW R, RegionOK(R), NEW i \in Int
  PROVE  LET N == coalesce_chunks(R, i) IN
         /\ RegionOK(N)
         /\ N.base = R.base /\ N.size = R.size
         /\ R.free \subseteq N.free
         /\ \A d \in Chunks \ R.free :
              R.chunk[d].alloc => d \notin N.free /\ N.chunk[d] = R.chunk[d]
         /\ \A d \in Chunks \ N.free : N.chunk[d].alloc = R.chunk[d].alloc
         /\ ~Mergeable(R, i) => N = R
         /\ Mergeable(R, i) =>
              /\ Len(N.chunks) = Len(R.chunks) - 1
              /\ \A j \in 1..(i - 1) : At(N, j) = At(R, j)
              /\ \A j \in (i + 1)..(Len(R.chunks) - 1) : At(N, j) = At(R, j + 1)
              /\ At(N, i).start = At(R, i).start /\ ~At(N, i).alloc
              /\ End(At(N, i)) = End(At(R, i + 1))
<1> DEFINE N == coalesce_chunks(R, i)
<1>1. CASE ~Mergeable(R, i)
  BY <1>1 DEF coalesce_chunks
<1>2. CASE Mergeable(R, i)
  <2> DEFINE n == Len(R.chunks)
             p == R.chunks[i]
             q == R.chunks[i + 1]
             size == End(At(R, i + 1)) - At(R, i).start
             f == [R.chunk EXCEPT ![p].size = size, ![q] = Unused]
             seq == Delete(R.chunks, i + 1)
             l == IF R.last = q THEN p ELSE R.last
  <2>1. /\ R \in Region /\ R.chunks \in Seq(Chunks) /\ n \in Nat
        /\ i \in 1..(n - 1) /\ i \in 1..n /\ i + 1 \in 1..n
        /\ p \in Chunks \ R.free /\ q \in Chunks \ R.free
        /\ At(R, i) \in Chunk /\ At(R, i + 1) \in Chunk
        /\ At(R, i) = R.chunk[p] /\ At(R, i + 1) = R.chunk[q]
        /\ ~At(R, i).alloc /\ ~At(R, i + 1).alloc
        /\ R.chunks[n] = R.last /\ p # q
    <3>1. R \in Region /\ R.chunks \in Seq(Chunks) /\ n \in Nat
      BY DEF RegionOK, Region
    <3>2. i \in 1..(n - 1) /\ i \in 1..n /\ i + 1 \in 1..n
      BY <1>2, <3>1 DEF Mergeable
    <3>3. p # q
      BY <3>2 DEF RegionOK, RecordsOK
    <3> QED
      BY <3>1, <3>2, <3>3, <1>2, ChunkSizes DEF Mergeable, RegionOK, SentinelOK
  <2>2. /\ At(R, i).start \in Nat /\ At(R, i).size \in Nat
        /\ At(R, i + 1).start \in Nat /\ At(R, i + 1).size \in Nat
        /\ At(R, i).start + At(R, i).size <= At(R, i + 1).start
        /\ At(R, i).size > 0
        /\ size = At(R, i + 1).start + At(R, i + 1).size - At(R, i).start
        /\ size \in Nat /\ size > 0
    <3>1. /\ At(R, i).start \in Nat /\ At(R, i).size \in Nat
          /\ At(R, i + 1).start \in Nat /\ At(R, i + 1).size \in Nat
      BY <2>1 DEF Chunk
    <3>2. End(At(R, i)) <= At(R, i + 1).start /\ At(R, i).size > 0
      BY <2>1 DEF RegionOK, OrderOK
    <3> QED
      BY <3>1, <3>2 DEF End
  <2> HIDE DEF size
  <2>3. /\ f \in [Chunks -> Chunk]
        /\ f[p].start = At(R, i).start /\ f[p].size = size /\ ~f[p].alloc
        /\ \A d \in Chunks : d # p /\ d # q => f[d] = R.chunk[d]
    <3>1. Unused \in Chunk /\ [R.chunk[p] EXCEPT !.size = size] \in Chunk
      BY <2>1, <2>2 DEF Unused, Chunk
    <3>2. R.chunk \in [Chunks -> Chunk]
      BY <2>1 DEF Region
    <3>3. f = [R.chunk EXCEPT ![p] = [R.chunk[p] EXCEPT !.size = size], ![q] = Unused]
      OBVIOUS
    <3> HIDE DEF f, p, q
    <3>4. /\ f \in [Chunks -> Chunk] /\ f[p] = [R.chunk[p] EXCEPT !.size = size]
          /\ \A d \in Chunks : d # p /\ d # q => f[d] = R.chunk[d]
      BY <3>1, <3>2, <3>3, <2>1
    <3> QED
      BY <3>4, <2>1 DEF Chunk
  <2>4. /\ seq \in Seq(Chunks) /\ Len(seq) = n - 1
        /\ \A j \in 1..(n - 1) : seq[j] = IF j < i + 1 THEN R.chunks[j] ELSE R.chunks[j + 1]
    BY <2>1, DeleteProperties
  <2>5. l \in Chunks
    BY <2>1 DEF Region
  <2> HIDE DEF f, seq, l, p, q, n
  <2>6. /\ N.chunk = f /\ N.chunks = seq /\ N.free = R.free \cup {q} /\ N.last = l
        /\ N.base = R.base /\ N.size = R.size /\ N \in Region
    <3>1. N = [R EXCEPT !.chunk = f, !.chunks = seq, !.free = R.free \cup {q}, !.last = l]
      BY <1>2 DEF coalesce_chunks, Merged, f, seq, l, p, q, size
    <3>2. R.free \cup {q} \in SUBSET Chunks
      BY <2>1 DEF Region
    <3> HIDE DEF N
    <3> QED
      BY <3>1, <3>2, <2>1, <2>3, <2>4, <2>5 DEF Region
  <2> HIDE DEF N
  <2>7. /\ \A j \in 1..n : R.chunks[j] \in Chunks \ R.free
        /\ \A j, k \in 1..n : R.chunks[j] = R.chunks[k] => j = k
        /\ R.chunks[i] = p /\ R.chunks[i + 1] = q
    BY ChunkSizes DEF RegionOK, RecordsOK, n, p, q
  <2>8. /\ \A j \in 1..(n - 1) : j # i =>
             /\ j < i => At(N, j) = At(R, j)
             /\ i < j => At(N, j) = At(R, j + 1)
        /\ At(N, i) = f[p]
    <3>1. \A j \in 1..(n - 1) : j # i =>
             /\ j < i => R.chunks[j] # p /\ R.chunks[j] # q
             /\ i < j => R.chunks[j + 1] # p /\ R.chunks[j + 1] # q
      BY <2>1, <2>7
    <3>2. \A j \in 1..(n - 1) : j \in 1..n /\ j + 1 \in 1..n
      BY <2>1
    <3>3. i < i + 1 /\ \A j \in 1..(n - 1) : (j < i => j < i + 1) /\ (i < j => ~(j < i + 1))
      BY <2>1
    <3> QED
      BY <2>1, <2>3, <2>4, <2>6, <2>7, <3>1, <3>2, <3>3 DEF At
  <2>9. SentinelOK(N)
    <3>1. seq # <<>> /\ Len(seq) = n - 1
      BY <2>1, <2>4
    <3>2. CASE R.last = q
      <4>1. i + 1 = n
        BY <3>2, <2>1, <2>7
      <4>2. l = p /\ seq[n - 1] = p
        BY <3>2, <4>1, <2>1, <2>4, <2>7 DEF l
      <4> QED
        BY <3>1, <4>2, <2>3, <2>6 DEF SentinelOK
    <3>3. CASE R.last # q
      <4>1. l = R.last /\ seq[n - 1] = R.chunks[n]
        BY <3>3, <2>1, <2>4, <2>7 DEF l
      <4>2. ~f[R.last].alloc
        <5>1. ~R.chunk[R.last].alloc /\ R.last \in Chunks
          BY <2>1 DEF RegionOK, SentinelOK, Region
        <5> QED
          BY <5>1, <3>3, <2>3
      <4> QED
        BY <3>1, <4>1, <4>2, <2>1, <2>6 DEF SentinelOK
    <3> QED
      BY <3>2, <3>3
  <2>10. OrderOK(N)
    <3>1. /\ \A j \in 1..n : R.base <= At(R, j).start /\ End(At(R, j)) <= R.base + R.size
          /\ \A j, k \in 1..n : j < k => End(At(R, j)) <= At(R, k).start
      BY DEF RegionOK, OrderOK, n
    <3>2. At(N, i).start = At(R, i).start /\ End(At(N, i)) = End(At(R, i + 1))
      BY <2>2, <2>3, <2>8 DEF End
    <3>3. \A j \in 1..(n - 1) : R.base <= At(N, j).start /\ End(At(N, j)) <= R.base + R.size
      <4> TAKE j \in 1..(n - 1)
      <4>1. CASE j < i
        BY <4>1, <2>1, <2>8, <3>1
      <4>2. CASE j = i
        BY <4>2, <2>1, <3>1, <3>2
      <4>3. CASE i < j
        BY <4>3, <2>1, <2>8, <3>1
      <4> QED
        BY <4>1, <4>2, <4>3, <2>1
    <3>4. \A j, k \in 1..(n - 1) : j < k => End(At(N, j)) <= At(N, k).start
      <4> TAKE j, k \in 1..(n - 1)
      <4> HAVE j < k
      <4>1. CASE j = i
        BY <4>1, <2>1, <2>8, <3>1, <3>2
      <4>2. CASE k = i
        BY <4>2, <2>1, <2>8, <3>1, <3>2
      <4>3. CASE j # i /\ k # i
        <5>1. CASE k < i
          BY <5>1, <2>1, <2>8, <3>1
        <5>2. CASE j < i /\ i < k
          BY <5>2, <2>1, <2>8, <3>1
        <5>3. CASE i < j
          BY <5>3, <2>1, <2>8, <3>1
        <5> QED
          BY <4>3, <5>1, <5>2, <5>3, <2>1
      <4> QED
        BY <4>1, <4>2, <4>3
    <3> QED
      BY <3>3, <3>4, <2>4, <2>6 DEF OrderOK
  <2>11. RecordsOK(N)
    <3>1. \A j, k \in 1..(n - 1) : seq[j] = seq[k] => j = k
      <4> TAKE j, k \in 1..(n - 1)
      <4> HAVE seq[j] = seq[k]
      <4>1. j \in 1..n /\ j + 1 \in 1..n /\ k \in 1..n /\ k + 1 \in 1..n
        BY <2>1
      <4>2. CASE j < i + 1 /\ k < i + 1
        BY <4>1, <4>2, <2>4, <2>7
      <4>3. CASE j < i + 1 /\ ~(k < i + 1)
        <5>1. j = k + 1
          BY <4>1, <4>3, <2>4, <2>7
        <5> QED
          BY <5>1, <4>3, <2>1
      <4>4. CASE ~(j < i + 1) /\ k < i + 1
        <5>1. j + 1 = k
          BY <4>1, <4>4, <2>4, <2>7
        <5> QED
          BY <5>1, <4>4, <2>1
      <4>5. CASE ~(j < i + 1) /\ ~(k < i + 1)
        BY <4>1, <4>5, <2>4, <2>7
      <4> QED
        BY <4>2, <4>3, <4>4, <4>5
    <3>2. \A j \in 1..(n - 1) : seq[j] \in Chunks \ (R.free \cup {q})
      <4> TAKE j \in 1..(n - 1)
      <4>1. CASE j < i + 1
        <5>1. seq[j] = R.chunks[j] /\ j \in 1..n /\ j # i + 1
          BY <4>1, <2>1, <2>4
        <5> QED
          BY <5>1, <2>1, <2>7
      <4>2. CASE ~(j < i + 1)
        <5>1. seq[j] = R.chunks[j + 1] /\ j + 1 \in 1..n /\ j + 1 # i + 1
          BY <4>2, <2>1, <2>4
        <5> QED
          BY <5>1, <2>1, <2>7
      <4> QED
        BY <4>1, <4>2
    <3>3. \A d \in Chunks \ (R.free \cup {q}) : \E j \in 1..(n - 1) : seq[j] = d
      <4> TAKE d \in Chunks \ (R.free \cup {q})
      <4>1. PICK j \in 1..n : R.chunks[j] = d
        BY Position DEF n
      <4>2. j # i + 1
        BY <4>1, <2>7
      <4>3. CASE j < i + 1
        <5>1. j \in 1..(n - 1) /\ seq[j] = d
          BY <4>1, <4>3, <2>1, <2>4
        <5> QED
          BY <5>1
      <4>4. CASE i + 1 < j
        <5>1. j - 1 \in 1..(n - 1) /\ ~(j - 1 < i + 1) /\ (j - 1) + 1 = j
          BY <4>4, <2>1
        <5>2. seq[j - 1] = d
          BY <4>1, <5>1, <2>4
        <5> QED
          BY <5>1, <5>2
      <4> QED
        BY <4>2, <4>3, <4>4, <2>1
    <3> QED
      BY <3>1, <3>2, <3>3, <2>4, <2>6 DEF RecordsOK
  <2>12. \A j \in 1..(Len(N.chunks) - 1) : At(N, j).size > 0
    <3>1. \A j \in 1..(n - 1) : At(R, j).size > 0
      BY DEF RegionOK, n
    <3> SUFFICES ASSUME NEW j \in 1..((n - 1) - 1)
                 PROVE  At(N, j).size > 0
      BY <2>4, <2>6
    <3>2. CASE j = i
      BY <3>2, <2>2, <2>3, <2>8
    <3>3. CASE j < i
      BY <3>1, <3>3, <2>1, <2>8
    <3>4. CASE i < j
      BY <3>1, <3>4, <2>1, <2>8
    <3> QED
      BY <3>2, <3>3, <3>4, <2>1
  <2>13. RegionOK(N)
    BY <2>6, <2>9, <2>10, <2>11, <2>12 DEF RegionOK
  <2>14. \A d \in Chunks \ R.free :
            R.chunk[d].alloc => d \notin N.free /\ N.chunk[d] = R.chunk[d]
    BY <2>1, <2>3, <2>6
  <2>15. \A d \in Chunks \ N.free : N.chunk[d].alloc = R.chunk[d].alloc
    <3>1. R.chunk[p].alloc \in BOOLEAN /\ f[p].alloc \in BOOLEAN
      BY <2>1, <2>3 DEF Chunk
    <3>2. f[p].alloc = R.chunk[p].alloc
      BY <3>1, <2>1, <2>3
    <3> QED
      BY <3>2, <2>3, <2>6
  <2>16. /\ Len(N.chunks) = Len(R.chunks) - 1
         /\ \A j \in 1..(i - 1) : At(N, j) = At(R, j)
         /\ \A j \in (i + 1)..(Len(R.chunks) - 1) : At(N, j) = At(R, j + 1)
         /\ At(N, i).start = At(R, i).start /\ ~At(N, i).alloc
         /\ End(At(N, i)) = End(At(R, i + 1))
    <3>1. /\ \A j \in 1..(i - 1) : j \in 1..(n - 1) /\ j # i /\ j < i
          /\ \A j \in (i + 1)..(n - 1) : j \in 1..(n - 1) /\ j # i /\ i < j
      BY <2>1
    <3>2. End(At(N, i)) = End(At(R, i + 1))
      BY <2>2, <2>3, <2>8 DEF End
    <3> QED
      BY <3>1, <3>2, <2>3, <2>4, <2>6, <2>8 DEF n
  <2> QED
    BY <1>2, <2>6, <2>13, <2>14, <2>15, <2>16 DEF N
<1> QED
  BY <1>1, <1>2

\* free_chunk keeps a region consistent, frees the chunk at position i, whatever the
\* order of evaluation, and touches no other allocated chunk.
LEMMA FreeOK ==
  ASSUME NEW R, RegionOK(R), NEW i \in 1..Len(R.chunks), R.chunks[i] # R.last,
         NEW order
  PROVE  LET N == free_chunk(R, i, order) IN
         /\ RegionOK(N)
         /\ N.base = R.base /\ N.size = R.size
         /\ \A d \in Chunks \ R.free : R.chunk[d].alloc /\ d # R.chunks[i] =>
              d \notin N.free /\ N.chunk[d] = R.chunk[d]
         /\ \A d \in Chunks \ N.free : N.chunk[d].alloc =>
              d # R.chunks[i] /\ d \notin R.free /\ R.chunk[d].alloc
<1> DEFINE F == [R EXCEPT !.chunk[R.chunks[i]].alloc = FALSE]
           M == coalesce_chunks(F, i - 1)
           k == R.chunks[i]
           Keeps(A, B) == /\ RegionOK(B)
                          /\ B.base = A.base /\ B.size = A.size
                          /\ A.free \subseteq B.free
                          /\ \A d \in Chunks \ A.free :
                               A.chunk[d].alloc => d \notin B.free /\ B.chunk[d] = A.chunk[d]
                          /\ \A d \in Chunks \ B.free : B.chunk[d].alloc = A.chunk[d].alloc
<1>1. /\ RegionOK(F) /\ F.base = R.base /\ F.size = R.size /\ F.free = R.free
      /\ F.chunk[k] = [At(R, i) EXCEPT !.alloc = FALSE]
      /\ \A d \in Chunks : d # k => F.chunk[d] = R.chunk[d]
  BY MarkOK
<1>2. ~F.chunk[k].alloc
  BY <1>1, ChunkSizes DEF Chunk
<1> HIDE DEF F
<1>3. Keeps(F, M)
  BY <1>1, CoalesceOK
<1> HIDE DEF M
<1>4. ASSUME NEW j \in Int
      PROVE  Keeps(F, coalesce_chunks(M, j))
  <2> DEFINE C == coalesce_chunks(M, j)
  <2>1. Keeps(M, C)
    BY <1>3, CoalesceOK
  <2> HIDE DEF C
  <2> QED
    BY <1>3, <2>1 DEF C
<1>5. PICK N : N = free_chunk(R, i, order) /\ Keeps(F, N)
  <2>1. free_chunk(R, i, order) \in {M, coalesce_chunks(M, i - 1), coalesce_chunks(M, i)}
    BY DEF free_chunk, F, M
  <2> HIDE DEF Keeps
  <2> QED
    BY <1>3, <1>4, <2>1
<1> QED
  BY <1>1, <1>2, <1>5

\* No two chunks of a region have the same address, if one is not the sentinel.
LEMMA StartsDiffer ==
  ASSUME NEW R, RegionOK(R), NEW i \in 1..Len(R.chunks), NEW j \in 1..Len(R.chunks),
         At(R, i).start = At(R, j).start, R.chunks[j] # R.last
  PROVE  i = j
<1>1. /\ Len(R.chunks) \in Nat /\ R.chunks[Len(R.chunks)] = R.last
      /\ \A k \in 1..Len(R.chunks) : At(R, k).start \in Nat /\ At(R, k).size \in Nat
      /\ \A k \in 1..(Len(R.chunks) - 1) : At(R, k).size > 0
  <2>1. R.chunks \in Seq(Chunks) /\ Len(R.chunks) \in Nat
    BY DEF RegionOK, Region
  <2>2. \A k \in 1..Len(R.chunks) : At(R, k) \in Chunk
    BY ChunkSizes
  <2> QED
    BY <2>1, <2>2 DEF RegionOK, SentinelOK, Chunk
<1>2. j \in 1..(Len(R.chunks) - 1)
  BY <1>1
<1>3. \A k, l \in 1..Len(R.chunks) : k < l => At(R, k).start + At(R, k).size <= At(R, l).start
  BY DEF RegionOK, OrderOK, End
<1>4. ~(i < j)
  <2>1. i < j => At(R, i).size > 0
    BY <1>1
  <2> QED
    BY <1>1, <1>3, <2>1
<1>5. ~(j < i)
  BY <1>1, <1>2, <1>3
<1> QED
  BY <1>4, <1>5, <1>1
-----------------------------------------------------------------------------
(* What is left of a region when its buffers are freed.                    *)

\* The chunks cover the region from its first aligned byte to its end.
Spanned(R) == /\ AlignUp(R.base) = R.base
              /\ At(R, 1).start = R.base
              /\ End(At(R, Len(R.chunks))) = R.base + R.size

\* The chunks at positions i and i + 1 are not both unallocated.
Apart(R, i) == At(R, i).alloc \/ At(R, i + 1).alloc

CoalescedRegion(R) == \A i \in 1..(Len(R.chunks) - 1) : Apart(R, i)

\* An aligned address is its own closest aligned address.
LEMMA AlignUpAligned ==
  ASSUME NEW a \in Nat
  PROVE  AlignUp(AlignUp(a)) = AlignUp(a)
<1> DEFINE q == (-a) \div Align
           r == (-a) % Align
<1>1. Align \in Nat \ {0} /\ -a \in Int
  BY AlignAssumption
<1>2. q \in Int /\ r \in 0..(Align - 1) /\ -a = Align * q + r
  BY <1>1, Division
<1> HIDE DEF q, r
<1>3. -(a + r) = Align * q + 0 /\ 0 \in 0..(Align - 1) /\ -(a + r) \in Int
  BY <1>1, <1>2
<1>4. (-(a + r)) % Align = 0
  BY <1>1, <1>2, <1>3, DivisionUnique
<1>5. AlignUp(a) = a + r
  BY DEF AlignUp, r
<1> QED
  BY <1>2, <1>4, <1>5 DEF AlignUp

\* The positions of a consistent region, and its sentinel.
LEMMA Positions ==
  ASSUME NEW R, RegionOK(R)
  PROVE  /\ Len(R.chunks) \in Nat \ {0} /\ R.base \in Nat /\ R.size \in Nat
         /\ R.chunks[Len(R.chunks)] = R.last
         /\ At(R, Len(R.chunks)) = R.chunk[R.last] /\ ~R.chunk[R.last].alloc
<1>1. R.chunks \in Seq(Chunks) /\ R.chunks # <<>> /\ R.base \in Nat /\ R.size \in Nat
  BY DEF RegionOK, Region, SentinelOK
<1> QED
  BY <1>1, EmptySeq DEF RegionOK, SentinelOK, At

LEMMA AppendSpanned ==
  ASSUME NoIntOverflow, NEW R, RegionOK(R), NEW size \in Sizes, NEW c \in R.free,
         CanAppend(R, size)
  PROVE  LET N == append_new_chunk(R, size, c) IN
         /\ Spanned(R) => Spanned(N)
         /\ CoalescedRegion(R) => CoalescedRegion(N)
<1> DEFINE N == append_new_chunk(R, size, c)
           n == Len(R.chunks)
<1>1. /\ N.base = R.base /\ N.size = R.size /\ N.chunk[c].alloc
      /\ Len(N.chunks) = n + 1
      /\ \A j \in 1..(n - 1) : At(N, j) = At(R, j)
      /\ At(N, n) = N.chunk[c]
      /\ N.chunk[c].start = AlignUp(R.chunk[R.last].start)
      /\ End(At(N, n + 1)) = End(R.chunk[R.last])
  BY AppendOK
<1>2. n \in Nat \ {0} /\ At(R, n) = R.chunk[R.last]
  BY Positions
<1> HIDE DEF N, n
<1>3. ASSUME Spanned(R) PROVE Spanned(N)
  <2>1. At(N, 1).start = R.base
    <3>1. CASE n = 1
      BY <3>1, <1>1, <1>2, <1>3 DEF Spanned, n
    <3>2. CASE n # 1
      BY <3>2, <1>1, <1>2, <1>3 DEF Spanned
    <3> QED
      BY <3>1, <3>2
  <2> QED
    BY <2>1, <1>1, <1>2, <1>3 DEF Spanned, n
<1>4. ASSUME CoalescedRegion(R) PROVE CoalescedRegion(N)
  <2> SUFFICES ASSUME NEW i \in 1..n PROVE Apart(N, i)
    BY <1>1, <1>2 DEF CoalescedRegion
  <2>1. CASE i = n \/ i + 1 = n
    BY <2>1, <1>1 DEF Apart
  <2>2. CASE i + 1 < n
    <3>1. i \in 1..(n - 1) /\ i + 1 \in 1..(n - 1)
      BY <2>2, <1>2
    <3> QED
      BY <3>1, <1>1, <1>4 DEF Apart, CoalescedRegion, n
  <2> QED
    BY <2>1, <2>2, <1>2
<1> QED
  BY <1>3, <1>4 DEF N

\* Marking keeps the addresses of all chunks; marking one as allocated cannot put
\* two unallocated ones side by side.
LEMMA MarkSpanned ==
  ASSUME NEW R, RegionOK(R), NEW i \in 1..Len(R.chunks), R.chunks[i] # R.last,
         NEW b \in BOOLEAN
  PROVE  LET N == [R EXCEPT !.chunk[R.chunks[i]].alloc = b] IN
         /\ N.chunks = R.chunks
         /\ Spanned(R) => Spanned(N)
         /\ At(N, i).alloc = b
         /\ \A j \in 1..Len(R.chunks) : j # i => At(N, j) = At(R, j)
<1> DEFINE N == [R EXCEPT !.chunk[R.chunks[i]].alloc = b]
<1>1. /\ RegionOK(N)
      /\ N.base = R.base /\ N.size = R.size /\ N.free = R.free
      /\ N.chunks = R.chunks /\ N.last = R.last
      /\ N.chunk[R.chunks[i]] = [At(R, i) EXCEPT !.alloc = b]
      /\ \A d \in Chunks : d # R.chunks[i] => N.chunk[d] = R.chunk[d]
  BY MarkOK, Zenon
<1>2. Len(R.chunks) \in Nat \ {0}
  BY Positions
<1>3. At(R, i) \in Chunk /\ \A j \in 1..Len(R.chunks) : R.chunks[j] \in Chunks
  BY ChunkSizes
<1> HIDE DEF N
<1>4. At(N, i) = [At(R, i) EXCEPT !.alloc = b]
  BY <1>1 DEF At
<1>5. At(N, i).alloc = b /\ At(N, i).start = At(R, i).start /\ At(N, i).size = At(R, i).size
  BY <1>3, <1>4 DEF Chunk
<1>6. \A j \in 1..Len(R.chunks) : j # i => At(N, j) = At(R, j)
  BY <1>1, <1>3 DEF At, RegionOK, RecordsOK
<1>7. ASSUME Spanned(R) PROVE Spanned(N)
  <2>1. 1 \in 1..Len(R.chunks) /\ Len(R.chunks) \in 1..Len(R.chunks)
    BY <1>2
  <2>2. \A j \in 1..Len(R.chunks) : At(N, j).start = At(R, j).start /\ End(At(N, j)) = End(At(R, j))
    BY <1>5, <1>6 DEF End
  <2> QED
    BY <2>1, <2>2, <1>1, <1>7 DEF Spanned
<1> QED
  BY <1>1, <1>5, <1>6, <1>7 DEF N

\* A merge keeps the ends of the region.
LEMMA CoalesceSpanned ==
  ASSUME NEW R, RegionOK(R), NEW i \in Int, Spanned(R)
  PROVE  Spanned(coalesce_chunks(R, i))
<1> DEFINE N == coalesce_chunks(R, i)
           n == Len(R.chunks)
<1>1. CASE ~Mergeable(R, i)
  BY <1>1 DEF coalesce_chunks
<1>2. CASE Mergeable(R, i)
  <2>1. /\ N.base = R.base /\ N.size = R.size
        /\ Len(N.chunks) = n - 1
        /\ \A j \in 1..(i - 1) : At(N, j) = At(R, j)
        /\ \A j \in (i + 1)..(n - 1) : At(N, j) = At(R, j + 1)
        /\ At(N, i).start = At(R, i).start
        /\ End(At(N, i)) = End(At(R, i + 1))
    BY <1>2, CoalesceOK
  <2>2. n \in Nat /\ i \in 1..(n - 1)
    BY <1>2, Positions DEF Mergeable
  <2> HIDE DEF N, n
  <2>3. At(N, 1).start = R.base
    <3>1. CASE i = 1
      BY <3>1, <2>1 DEF Spanned
    <3>2. CASE i # 1
      BY <3>2, <2>1, <2>2 DEF Spanned
    <3> QED
      BY <3>1, <3>2
  <2>4. End(At(N, n - 1)) = End(At(R, n))
    <3>1. CASE i = n - 1
      BY <3>1, <2>1, <2>2
    <3>2. CASE i # n - 1
      <4>1. n - 1 \in (i + 1)..(n - 1) /\ (n - 1) + 1 = n
        BY <3>2, <2>2
      <4> QED
        BY <4>1, <2>1
    <3> QED
      BY <3>1, <3>2
  <2> QED
    BY <2>1, <2>3, <2>4 DEF Spanned, N, n
<1> QED
  BY <1>1, <1>2

\* Two neighbours that are both unallocated can be merged.
LEMMA NotApartMergeable ==
  ASSUME NEW R, RegionOK(R), NEW i \in 1..(Len(R.chunks) - 1), ~Apart(R, i)
  PROVE  Mergeable(R, i)
<1>1. Len(R.chunks) \in Nat
  BY Positions
<1>2. i \in 1..Len(R.chunks) /\ i + 1 \in 1..Len(R.chunks) /\ i < i + 1
  BY <1>1
<1>3. At(R, i) \in Chunk /\ At(R, i + 1) \in Chunk
  BY <1>2, ChunkSizes
<1>4. End(At(R, i)) <= At(R, i + 1).start
  BY <1>2 DEF RegionOK, OrderOK
<1>5. At(R, i).start \in Nat /\ At(R, i).size \in Nat /\ At(R, i + 1).start \in Nat
  BY <1>3 DEF Chunk
<1> QED
  BY <1>4, <1>5 DEF Mergeable, Apart, End

\* What a merge at k does to the pairs of neighbours: before k they are as they
\* were, after k they move up.
LEMMA CoalescePairs ==
  ASSUME NEW R, RegionOK(R), NEW k \in Int, Mergeable(R, k),
         NEW j \in 1..(Len(coalesce_chunks(R, k).chunks) - 1),
         \/ j < k /\ Apart(R, j)
         \/ k <= j /\ Apart(R, j + 1)
  PROVE  Apart(coalesce_chunks(R, k), j)
<1> DEFINE N == coalesce_chunks(R, k)
           n == Len(R.chunks)
<1>1. /\ Len(N.chunks) = n - 1
      /\ \A i \in 1..(k - 1) : At(N, i) = At(R, i)
      /\ \A i \in (k + 1)..(n - 1) : At(N, i) = At(R, i + 1)
  BY CoalesceOK
<1>2. n \in Nat /\ k \in 1..(n - 1) /\ ~At(R, k).alloc /\ ~At(R, k + 1).alloc
  BY Positions DEF Mergeable
<1> HIDE DEF N, n
<1>3. j \in 1..(n - 2)
  BY <1>1, <1>2 DEF N
<1>4. CASE j < k /\ Apart(R, j)
  <2>1. CASE j + 1 = k
    <3>1. At(R, j).alloc
      BY <1>2, <1>4, <2>1 DEF Apart
    <3>2. j \in 1..(k - 1)
      BY <1>2, <1>3, <2>1
    <3> QED
      BY <3>1, <3>2, <1>1 DEF Apart, N
  <2>2. CASE j + 1 # k
    <3>1. j \in 1..(k - 1) /\ j + 1 \in 1..(k - 1)
      BY <1>2, <1>3, <1>4, <2>2
    <3> QED
      BY <3>1, <1>1, <1>4 DEF Apart, N
  <2> QED
    BY <2>1, <2>2
<1>5. CASE k <= j /\ Apart(R, j + 1)
  <2>1. j + 1 \in (k + 1)..(n - 1)
    BY <1>2, <1>3, <1>5
  <2>2. At(N, j + 1) = At(R, (j + 1) + 1)
    BY <2>1, <1>1
  <2>3. CASE j = k
    <3>1. At(R, (j + 1) + 1).alloc
      BY <1>2, <1>5, <2>3 DEF Apart
    <3> QED
      BY <3>1, <2>2 DEF Apart, N
  <2>4. CASE j # k
    <3>1. j \in (k + 1)..(n - 1)
      BY <1>2, <1>3, <1>5, <2>4
    <3> QED
      BY <3>1, <1>1, <1>5, <2>2 DEF Apart, N
  <2> QED
    BY <2>3, <2>4
<1> QED
  BY <1>4, <1>5

\* When only the neighbours at k are both unallocated, one merge is enough.
LEMMA CoalesceCloses ==
  ASSUME NEW R, RegionOK(R), NEW k \in Int,
         \A j \in 1..(Len(R.chunks) - 1) : j # k => Apart(R, j)
  PROVE  CoalescedRegion(coalesce_chunks(R, k))
<1>1. CASE ~Mergeable(R, k)
  <2>1. \A j \in 1..(Len(R.chunks) - 1) : Apart(R, j)
    BY <1>1, NotApartMergeable
  <2> QED
    BY <1>1, <2>1 DEF coalesce_chunks, CoalescedRegion
<1>2. CASE Mergeable(R, k)
  <2>1. Len(coalesce_chunks(R, k).chunks) = Len(R.chunks) - 1 /\ Len(R.chunks) \in Nat
    BY <1>2, CoalesceOK, Positions
  <2> SUFFICES ASSUME NEW j \in 1..(Len(coalesce_chunks(R, k).chunks) - 1)
               PROVE  Apart(coalesce_chunks(R, k), j)
    BY DEF CoalescedRegion
  <2>2. j \in 1..(Len(R.chunks) - 1) /\ j + 1 \in 1..(Len(R.chunks) - 1)
    BY <2>1
  <2>3. (j < k /\ Apart(R, j)) \/ (k <= j /\ Apart(R, j + 1))
    BY <2>2
  <2> QED
    BY <1>2, <2>3, CoalescePairs
<1> QED
  BY <1>1, <1>2

\* free_chunk keeps the ends of the region.  When c->next is read before the inner
\* merge, no two unallocated chunks are left side by side.
LEMMA FreeSpanned ==
  ASSUME NEW R, RegionOK(R), NEW i \in 1..Len(R.chunks), R.chunks[i] # R.last,
         NEW order
  PROVE  LET N == free_chunk(R, i, order) IN
         /\ Spanned(R) => Spanned(N)
         /\ order = "next_first" /\ CoalescedRegion(R) => CoalescedRegion(N)
<1> DEFINE F == [R EXCEPT !.chunk[R.chunks[i]].alloc = FALSE]
           M == coalesce_chunks(F, i - 1)
           N == free_chunk(R, i, order)
           n == Len(R.chunks)
<1>1. /\ RegionOK(F) /\ F.chunks = R.chunks
      /\ Spanned(R) => Spanned(F)
      /\ \A j \in 1..n : j # i => At(F, j) = At(R, j)
  <2>1. FALSE \in BOOLEAN
    OBVIOUS
  <2>2. RegionOK(F) /\ F.chunks = R.chunks
    BY <2>1, MarkOK, Zenon
  <2>3. /\ Spanned(R) => Spanned(F)
        /\ \A j \in 1..n : j # i => At(F, j) = At(R, j)
    BY <2>1, MarkSpanned, Zenon
  <2> QED
    BY <2>2, <2>3
<1>2. n \in Nat
  BY Positions
<1>3. N = IF Mergeable(F, i - 1)
          THEN IF order = "next_first" THEN coalesce_chunks(M, i - 1) ELSE M
          ELSE coalesce_chunks(M, i)
  BY DEF free_chunk
<1> HIDE DEF F, N, n
<1>4. RegionOK(M)
  BY <1>1, CoalesceOK
<1>5. ASSUME Spanned(R) PROVE Spanned(N)
  <2>1. Spanned(M)
    BY <1>1, <1>5, CoalesceSpanned
  <2> HIDE DEF M
  <2>2. Spanned(coalesce_chunks(M, i - 1)) /\ Spanned(coalesce_chunks(M, i))
    BY <2>1, <1>4, CoalesceSpanned
  <2> QED
    BY <1>3, <2>1, <2>2
<1>6. ASSUME order = "next_first", CoalescedRegion(R) PROVE CoalescedRegion(N)
  <2>1. \A j \in 1..(n - 1) : j # i - 1 /\ j # i => Apart(F, j)
    <3> SUFFICES ASSUME NEW j \in 1..(n - 1), j # i - 1, j # i PROVE Apart(F, j)
      OBVIOUS
    <3>1. j \in 1..n /\ j + 1 \in 1..n /\ j + 1 # i
      BY <1>2
    <3> QED
      BY <3>1, <1>1, <1>6 DEF Apart, CoalescedRegion, n
  <2>2. CASE Mergeable(F, i - 1)
    <3>1. Len(M.chunks) = n - 1
      <4>a. i - 1 \in Int
        OBVIOUS
      <4>1. Len(M.chunks) = Len(F.chunks) - 1
        BY <4>a, <1>1, <2>2, CoalesceOK, Zenon
      <4> QED
        BY <4>1, <1>1 DEF n
    <3>2. ASSUME NEW j \in 1..(Len(M.chunks) - 1), j # i - 1
          PROVE  Apart(M, j)
      <4>1. j \in 1..(n - 1) /\ j + 1 \in 1..(n - 1)
        BY <3>1, <1>2
      <4>2. (j < i - 1 /\ Apart(F, j)) \/ (i - 1 <= j /\ Apart(F, j + 1))
        BY <4>1, <3>2, <2>1
      <4> QED
        BY <4>2, <1>1, <2>2, CoalescePairs
    <3> HIDE DEF M
    <3>3. CoalescedRegion(coalesce_chunks(M, i - 1))
      BY <3>2, <1>4, CoalesceCloses
    <3> QED
      BY <3>3, <1>3, <1>6, <2>2
  <2>3. CASE ~Mergeable(F, i - 1)
    <3>1. M = F
      BY <2>3 DEF coalesce_chunks
    <3>2. \A j \in 1..(n - 1) : j # i => Apart(F, j)
      <4> SUFFICES ASSUME NEW j \in 1..(n - 1), j # i, ~Apart(F, j) PROVE FALSE
        OBVIOUS
      <4>1. j = i - 1
        BY <2>1
      <4> QED
        BY <4>1, <1>1, <2>3, NotApartMergeable DEF n
    <3>3. CoalescedRegion(coalesce_chunks(F, i))
      BY <3>2, <1>1, CoalesceCloses DEF n
    <3> QED
      BY <3>1, <3>3, <1>3, <2>3
  <2> QED
    BY <2>2, <2>3
<1> QED
  BY <1>5, <1>6 DEF N
-----------------------------------------------------------------------------
(* The inductive invariant.                                                *)

Allocating == {"append", "reuse", "append_new", "reuse_new", "newregion", "linked"}

RegionsOK == \A r \in 1..Len(regions) : RegionOK(regions[r])

\* The blocks that posix_memalign returned are apart.
RegionsApart ==
  \A r, s \in 1..Len(regions) : r < s => regions[r].base + regions[r].size < regions[s].base

\* What each thread knows of its region and of its buffer.
ThreadOK(t) ==
  /\ pc[t] = "idle" => handle[t] = None
  /\ pc[t] \in {"append", "reuse", "append_new", "reuse_new", "unlock", "return", "free"} =>
       cur[t] \in 1..Len(regions)
  /\ pc[t] = "linked" => regions # <<>>
  /\ pc[t] \in Allocating =>
       /\ handle[t] \in Handles
       /\ bufs[handle[t]].st = "pending"
       /\ bufs[handle[t]].rec = None
       /\ bufs[handle[t]].size \in Sizes
  /\ pc[t] \in {"unlock", "return"} =>
       /\ handle[t] \in Handles
       /\ bufs[handle[t]].st = "pending"
       /\ bufs[handle[t]].rec # None
       /\ bufs[handle[t]].reg = cur[t]
  /\ pc[t] = "free" =>
       /\ handle[t] \in Handles
       /\ bufs[handle[t]].st = "freeing"

ThreadsOK == \A t \in Threads : ThreadOK(t)

\* A buffer that is being allocated or freed is the business of one thread.
HandlesOK ==
  /\ \A t, u \in Threads : handle[t] # None /\ handle[t] = handle[u] => t = u
  /\ \A t \in Threads : handle[t] # None => bufs[handle[t]].st \in {"pending", "freeing"}
  /\ \A h \in Handles : bufs[h].st = "none" => bufs[h].rec = None
  /\ \A h \in Handles : bufs[h].st \in {"held", "freeing"} => bufs[h].rec # None

IInv == /\ TypeOK
        /\ RegionsOK
        /\ RegionsApart
        /\ ThreadsOK
        /\ HandlesOK
        /\ BuffersBacked
-----------------------------------------------------------------------------
\* The new region is behind all others.
LEMMA MemalignApart ==
  ASSUME TypeOK, RegionsApart
  PROVE  /\ posix_memalign \in Nat
         /\ \A r \in 1..Len(regions) : regions[r].base + regions[r].size < posix_memalign
<1>1. HeapGap \in Nat \ {0}
  BY HeapAssumption
<1>2. CASE regions = <<>>
  <2>1. posix_memalign = AlignUp(HeapGap)
    BY <1>1, <1>2 DEF posix_memalign
  <2> QED
    BY <1>1, <1>2, <2>1, AlignUpBounds
<1>3. CASE regions # <<>>
  <2> DEFINE n == Len(regions)
             top == regions[n].base + regions[n].size
  <2>1. n \in Nat \ {0} /\ \A r \in 1..n : regions[r].base \in Nat /\ regions[r].size \in Nat
    <3>1. regions \in Seq(Region)
      BY DEF TypeOK
    <3>2. n \in Nat \ {0} /\ \A r \in 1..n : regions[r] \in Region
      BY <1>3, <3>1, EmptySeq, ElementOfSeq
    <3> QED
      BY <3>2 DEF Region
  <2>2. posix_memalign = AlignUp(top + HeapGap)
    BY <1>3 DEF posix_memalign
  <2>3. top \in Nat /\ top + HeapGap \in Nat
    BY <1>1, <2>1
  <2>4. \A r \in 1..n : regions[r].base + regions[r].size <= top
    BY <2>1 DEF RegionsApart
  <2> HIDE DEF top
  <2>5. posix_memalign \in Nat /\ top < posix_memalign
    BY <1>1, <2>2, <2>3, AlignUpBounds
  <2> QED
    BY <2>1, <2>3, <2>4, <2>5
<1> QED
  BY <1>2, <1>3

\* A step that replaces one region by a consistent one at the same place.
LEMMA ReplaceRegion ==
  ASSUME TypeOK, RegionsOK, RegionsApart,
         NEW r \in 1..Len(regions), NEW N, RegionOK(N),
         N.base = regions[r].base, N.size = regions[r].size,
         regions' = [regions EXCEPT ![r] = N]
  PROVE  /\ regions' \in Seq(Region) /\ Len(regions') = Len(regions)
         /\ regions'[r] = N
         /\ \A s \in 1..Len(regions) : s # r => regions'[s] = regions[s]
         /\ RegionsOK' /\ RegionsApart'
<1>1. regions \in Seq(Region) /\ N \in Region
  BY DEF TypeOK, RegionOK
<1>2. /\ regions' \in Seq(Region) /\ Len(regions') = Len(regions)
      /\ \A s \in 1..Len(regions) : regions'[s] = IF s = r THEN N ELSE regions[s]
  BY <1>1, ExceptSeq
<1>3. RegionsOK'
  BY <1>2 DEF RegionsOK
<1>4. \A s \in 1..Len(regions) : /\ regions'[s].base = regions[s].base
                                 /\ regions'[s].size = regions[s].size
  BY <1>2
<1>5. RegionsApart'
  BY <1>2, <1>4 DEF RegionsApart
<1> QED
  BY <1>2, <1>3, <1>5

\* Steps that leave the regions and the chunk of every buffer alone.
LEMMA SameRegions ==
  ASSUME IInv, UNCHANGED regions,
         \A h \in Handles : bufs'[h].rec # None =>
           /\ bufs'[h].rec = bufs[h].rec
           /\ bufs'[h].reg = bufs[h].reg
           /\ bufs'[h].size = bufs[h].size
           /\ bufs'[h].st \in {"held", "freeing"} => bufs'[h].addr = Backing(h).start
  PROVE  RegionsOK' /\ RegionsApart' /\ BuffersBacked'
<1>1. RegionsOK' /\ RegionsApart'
  BY DEF IInv, RegionsOK, RegionsApart
<1>2. BuffersBacked'
  BY DEF IInv, BuffersBacked, Backed, Backing
<1> QED
  BY <1>1, <1>2

\* Steps that only move one thread.
LEMMA MovePreserves ==
  ASSUME IInv, UNCHANGED <<regions, bufs, handle>>,
         unlinked' \in 0..Len(regions), regions_lock' \in Threads \cup {None},
         NEW t \in Threads, NEW x \in Points, NEW k \in Nat,
         pc' = [pc EXCEPT ![t] = x], cur' = [cur EXCEPT ![t] = k], ThreadOK(t)'
  PROVE  IInv'
<1>1. TypeOK'
  BY DEF IInv, TypeOK
<1>2. RegionsOK' /\ RegionsApart' /\ BuffersBacked'
  BY DEF IInv, RegionsOK, RegionsApart, BuffersBacked, Backed, Backing
<1>3. ThreadsOK'
  <2> SUFFICES ASSUME NEW u \in Threads, u # t PROVE ThreadOK(u)'
    BY DEF ThreadsOK
  <2>1. pc'[u] = pc[u] /\ cur'[u] = cur[u]
    BY DEF IInv, TypeOK
  <2> QED
    BY <2>1 DEF IInv, ThreadsOK, ThreadOK
<1>4. HandlesOK'
  BY DEF IInv, HandlesOK
<1> QED
  BY <1>1, <1>2, <1>3, <1>4 DEF IInv

\* Steps that change one buffer, and its thread, but no region.
LEMMA BufferPreserves ==
  ASSUME IInv, UNCHANGED <<regions, unlinked>>,
         regions_lock' \in Threads \cup {None},
         NEW t \in Threads, NEW x \in Points, NEW k \in Nat, NEW h \in Handles,
         NEW b \in Buffer, NEW g \in {h, None},
         \A u \in Threads : u # t => handle[u] # h,
         pc' = [pc EXCEPT ![t] = x], cur' = [cur EXCEPT ![t] = k],
         handle' = [handle EXCEPT ![t] = g], bufs' = [bufs EXCEPT ![h] = b],
         ThreadOK(t)',
         g = h => b.st \in {"pending", "freeing"},
         b.st = "none" => b.rec = None,
         b.st \in {"held", "freeing"} => b.rec # None,
         b.rec # None => /\ b.rec = bufs[h].rec /\ b.reg = bufs[h].reg
                         /\ b.size = bufs[h].size
                         /\ b.st \in {"held", "freeing"} => b.addr = Backing(h).start
  PROVE  IInv'
<1>1. TypeOK'
  BY DEF IInv, TypeOK
<1>2. bufs'[h] = b /\ \A f \in Handles : f # h => bufs'[f] = bufs[f]
  BY DEF IInv, TypeOK
<1>3. RegionsOK' /\ RegionsApart' /\ BuffersBacked'
  <2>1. \A f \in Handles : bufs'[f].rec # None =>
           /\ bufs'[f].rec = bufs[f].rec
           /\ bufs'[f].reg = bufs[f].reg
           /\ bufs'[f].size = bufs[f].size
           /\ bufs'[f].st \in {"held", "freeing"} => bufs'[f].addr = Backing(f).start
    BY <1>2 DEF IInv, BuffersBacked, Backed
  <2> QED
    BY <2>1, SameRegions
<1>4. /\ handle'[t] = g
      /\ \A u \in Threads : u # t => /\ handle'[u] = handle[u] /\ handle[u] # h
                                     /\ pc'[u] = pc[u] /\ cur'[u] = cur[u]
  BY DEF IInv, TypeOK
<1>5. ThreadsOK'
  <2> SUFFICES ASSUME NEW u \in Threads, u # t PROVE ThreadOK(u)'
    BY DEF ThreadsOK
  <2>1. ThreadOK(u)
    BY DEF IInv, ThreadsOK
  <2> QED
    BY <1>2, <1>4, <2>1 DEF ThreadOK
<1>6. HandlesOK'
  <2>1. \A u, v \in Threads : handle'[u] # None /\ handle'[u] = handle'[v] => u = v
    BY <1>4 DEF IInv, HandlesOK
  <2>2. \A u \in Threads : handle'[u] # None => bufs'[handle'[u]].st \in {"pending", "freeing"}
    BY <1>2, <1>4 DEF IInv, HandlesOK, TypeOK
  <2> QED
    BY <1>2, <2>1, <2>2 DEF IInv, HandlesOK
<1> QED
  BY <1>1, <1>3, <1>5, <1>6 DEF IInv

\* A buffer that no thread works on, or the buffer of a thread, is in no other
\* thread's hands.
LEMMA HandleFree ==
  ASSUME IInv, NEW t \in Threads, NEW h \in Handles,
         handle[t] = h \/ bufs[h].st \in {"none", "held"}
  PROVE  \A u \in Threads : u # t => handle[u] # h
BY NoneAssumption DEF IInv, HandlesOK

\* One lemma per action.

LEMMA MallocPreserves ==
  ASSUME IInv, NEW t \in Threads, NEW h \in Handles, NEW size \in Sizes,
         Malloc(t, h, size)
  PROVE  IInv'
<1> DEFINE b == [bufs[h] EXCEPT !.st = "pending", !.size = size]
           x == IF 1 <= Len(regions) THEN FirstTry ELSE "newregion"
<1>1. b \in Buffer /\ b.st = "pending" /\ b.size = size /\ b.rec = None
  BY DEF IInv, TypeOK, Buffer, Malloc, HandlesOK
<1>2. bufs' = [bufs EXCEPT ![h] = b]
  BY DEF Malloc
<1>3. x \in {"append", "reuse", "newregion"} /\ (x # "newregion" => 1 \in 1..Len(regions))
  BY DEF FirstTry, IInv, TypeOK
<1> HIDE DEF b, x
<1>4. /\ UNCHANGED <<regions, unlinked>>
      /\ regions_lock' = t
      /\ pc' = [pc EXCEPT ![t] = x] /\ cur' = [cur EXCEPT ![t] = 1]
      /\ handle' = [handle EXCEPT ![t] = h] /\ bufs[h].st = "none"
  BY DEF Malloc, Try, x
<1>5. ThreadOK(t)'
  <2>1. pc'[t] = x /\ cur'[t] = 1 /\ handle'[t] = h /\ bufs'[h] = b
    BY <1>2, <1>4 DEF IInv, TypeOK
  <2> QED
    BY <1>1, <1>3, <1>4, <2>1 DEF ThreadOK
<1>6. \A u \in Threads : u # t => handle[u] # h
  BY <1>4, HandleFree
<1>7. x \in Points
  BY <1>3 DEF Points
<1> QED
  BY <1>1, <1>2, <1>4, <1>5, <1>6, <1>7, BufferPreserves

LEMMA NoMemoryPreserves ==
  ASSUME IInv, NEW t \in Threads, NoMemory(t)
  PROVE  IInv'
<1>1. handle[t] \in Handles /\ pc[t] = "newregion"
  BY DEF IInv, ThreadsOK, ThreadOK, NoMemory, Allocating
<1>2. NoBuffer \in Buffer /\ NoBuffer.st = "none" /\ NoBuffer.rec = None
  BY DEF NoBuffer, Buffer
<1>3. \A u \in Threads : u # t => handle[u] # handle[t]
  BY <1>1, HandleFree
<1>4. ThreadOK(t)'
  <2>1. pc'[t] = "idle" /\ handle'[t] = None
    BY DEF IInv, TypeOK, NoMemory
  <2> QED
    BY <2>1 DEF ThreadOK, Allocating
<1>5. /\ UNCHANGED <<regions, unlinked>> /\ regions_lock' = None
      /\ pc' = [pc EXCEPT ![t] = "idle"] /\ cur' = [cur EXCEPT ![t] = 0]
      /\ handle' = [handle EXCEPT ![t] = None]
      /\ bufs' = [bufs EXCEPT ![handle[t]] = NoBuffer]
  BY DEF NoMemory
<1>6. "idle" \in Points
  BY DEF Points
<1>7. None # handle[t]
  BY <1>1, NoneAssumption
<1> QED
  BY <1>1, <1>2, <1>3, <1>4, <1>5, <1>6, <1>7, BufferPreserves

LEMMA MallocReturnPreserves ==
  ASSUME IInv, NEW t \in Threads, MallocReturn(t)
  PROVE  IInv'
<1> DEFINE h == handle[t]
           b == [bufs[h] EXCEPT !.st = "held",
                                !.addr = regions[cur[t]].chunk[bufs[h].rec].start]
<1>1. /\ h \in Handles /\ pc[t] = "return" /\ bufs[h].rec # None /\ bufs[h].reg = cur[t]
      /\ bufs[h].st = "pending"
  BY DEF IInv, ThreadsOK, ThreadOK, MallocReturn
<1>2. /\ Backing(h) = regions[cur[t]].chunk[bufs[h].rec]
      /\ cur[t] \in 1..Len(regions) /\ bufs[h].rec \in Chunks
  BY <1>1 DEF IInv, BuffersBacked, Backed, Backing
<1>3. Backing(h).start \in Nat
  <2>1. regions[cur[t]] \in Region
    BY <1>2 DEF IInv, TypeOK
  <2> QED
    BY <1>2, <2>1 DEF Region, Chunk
<1>4. /\ b \in Buffer /\ b.st = "held" /\ b.rec = bufs[h].rec /\ b.reg = bufs[h].reg
      /\ b.size = bufs[h].size /\ b.addr = Backing(h).start
  BY <1>1, <1>2, <1>3 DEF IInv, TypeOK, Buffer
<1>5. bufs' = [bufs EXCEPT ![h] = b]
  BY DEF MallocReturn
<1> HIDE DEF b
<1>6. \A u \in Threads : u # t => handle[u] # h
  BY <1>1, HandleFree
<1>7. ThreadOK(t)'
  <2>1. pc'[t] = "idle" /\ handle'[t] = None
    BY DEF IInv, TypeOK, MallocReturn
  <2> QED
    BY <2>1 DEF ThreadOK, Allocating
<1>8. /\ UNCHANGED <<regions, unlinked, regions_lock>>
      /\ pc' = [pc EXCEPT ![t] = "idle"] /\ cur' = [cur EXCEPT ![t] = 0]
      /\ handle' = [handle EXCEPT ![t] = None]
  BY DEF MallocReturn
<1>9. "idle" \in Points /\ None # h /\ regions_lock' \in Threads \cup {None}
  BY <1>1, <1>8, NoneAssumption DEF Points, IInv, TypeOK
<1> HIDE DEF h
<1> QED
  BY <1>1, <1>4, <1>5, <1>6, <1>7, <1>8, <1>9, BufferPreserves

LEMMA FreePreserves ==
  ASSUME IInv, NEW t \in Threads, NEW h \in Handles, Free(t, h)
  PROVE  IInv'
<1> DEFINE b == [bufs[h] EXCEPT !.st = "freeing"]
<1>1. bufs[h].st = "held" /\ bufs[h].rec # None
  BY DEF IInv, HandlesOK, Free
<1>2. /\ b \in Buffer /\ b.st = "freeing" /\ b.rec = bufs[h].rec /\ b.reg = bufs[h].reg
      /\ b.size = bufs[h].size /\ b.addr = bufs[h].addr
  BY DEF IInv, TypeOK, Buffer
<1>3. b.addr = Backing(h).start /\ bufs[h].reg \in 1..Len(regions)
  BY <1>1, <1>2 DEF IInv, BuffersBacked, Backed
<1>4. bufs' = [bufs EXCEPT ![h] = b]
  BY DEF Free
<1> HIDE DEF b
<1>5. /\ UNCHANGED <<regions, unlinked, regions_lock>>
      /\ pc' = [pc EXCEPT ![t] = "free"] /\ cur' = [cur EXCEPT ![t] = 1]
      /\ handle' = [handle EXCEPT ![t] = h]
  BY DEF Free
<1>6. ThreadOK(t)'
  <2>1. pc'[t] = "free" /\ handle'[t] = h /\ cur'[t] = 1 /\ bufs'[h] = b
    BY <1>4, <1>5 DEF IInv, TypeOK
  <2>2. 1 \in 1..Len(regions) /\ Len(regions) = Len(regions')
    BY <1>3, <1>5 DEF IInv, TypeOK
  <2> QED
    BY <1>2, <2>1, <2>2 DEF ThreadOK, Allocating
<1>7. "free" \in Points /\ regions_lock' \in Threads \cup {None}
  BY <1>5 DEF Points, IInv, TypeOK
<1>8. \A u \in Threads : u # t => handle[u] # h
  BY <1>1, HandleFree
<1> QED
  BY <1>1, <1>2, <1>3, <1>4, <1>5, <1>6, <1>7, <1>8, BufferPreserves

\* The request of a thread is served by a record that was nobody's.
LEMMA ServePreserves ==
  ASSUME IInv, NEW t \in Threads, pc[t] \in {"append", "reuse", "append_new", "reuse_new"},
         NEW N, NEW c, RegionOK(N),
         N.base = regions[cur[t]].base, N.size = regions[cur[t]].size,
         c \in Chunks \ N.free, N.chunk[c].alloc,
         N.chunk[c].size >= bufs[handle[t]].size,
         \A d \in Chunks \ regions[cur[t]].free : regions[cur[t]].chunk[d].alloc =>
            d \notin N.free /\ N.chunk[d] = regions[cur[t]].chunk[d] /\ d # c,
         Serve(t, N, c), UNCHANGED <<unlinked, regions_lock, handle>>
  PROVE  IInv'
<1> DEFINE r == cur[t]
           h == handle[t]
           b == [bufs[h] EXCEPT !.reg = r, !.rec = c]
<1>1. /\ r \in 1..Len(regions) /\ h \in Handles /\ r \in Nat
      /\ bufs[h].st = "pending" /\ bufs[h].rec = None /\ bufs[h].size \in Sizes
  BY DEF IInv, ThreadsOK, ThreadOK, Allocating, TypeOK
<1>2. /\ regions' \in Seq(Region) /\ Len(regions') = Len(regions)
      /\ regions'[r] = N
      /\ \A s \in 1..Len(regions) : s # r => regions'[s] = regions[s]
      /\ RegionsOK' /\ RegionsApart'
  BY <1>1, ReplaceRegion DEF IInv, Serve
<1>3. /\ b \in Buffer /\ b.st = "pending" /\ b.reg = r /\ b.rec = c
      /\ b.size = bufs[h].size
  <2>1. bufs[h] \in Buffer /\ c \in Chunks /\ r \in Nat
    BY <1>1 DEF IInv, TypeOK
  <2> HIDE DEF h, r
  <2> QED
    BY <1>1, <2>1 DEF Buffer
<1>4. bufs' = [bufs EXCEPT ![h] = b] /\ pc' = [pc EXCEPT ![t] = "unlock"] /\ cur' = cur
  BY DEF Serve
<1> HIDE DEF b, h, r
<1>5. bufs'[h] = b /\ \A g \in Handles : g # h => bufs'[g] = bufs[g]
  BY <1>1, <1>4 DEF IInv, TypeOK
<1>6. TypeOK'
  BY <1>2, <1>3, <1>4 DEF IInv, TypeOK, Points
<1>7. BuffersBacked'
  <2>1. c # None
    BY NoneAssumption
  <2>2. \A g \in Handles : bufs'[g].rec # None /\ g # h =>
          /\ bufs[g].reg \in 1..Len(regions) /\ bufs'[g] = bufs[g]
          /\ bufs[g].rec \in Chunks \ regions'[bufs[g].reg].free
          /\ regions'[bufs[g].reg].chunk[bufs[g].rec] = regions[bufs[g].reg].chunk[bufs[g].rec]
          /\ bufs[g].reg # r \/ bufs[g].rec # c
    <3> SUFFICES ASSUME NEW g \in Handles, bufs'[g].rec # None, g # h
                 PROVE  /\ bufs[g].reg \in 1..Len(regions) /\ bufs'[g] = bufs[g]
                        /\ bufs[g].rec \in Chunks \ regions'[bufs[g].reg].free
                        /\ regions'[bufs[g].reg].chunk[bufs[g].rec] =
                              regions[bufs[g].reg].chunk[bufs[g].rec]
                        /\ bufs[g].reg # r \/ bufs[g].rec # c
      OBVIOUS
    <3>1. /\ bufs'[g] = bufs[g] /\ bufs[g].reg \in 1..Len(regions)
          /\ bufs[g].rec \in Chunks \ regions[bufs[g].reg].free
          /\ regions[bufs[g].reg].chunk[bufs[g].rec].alloc
      BY <1>5 DEF IInv, BuffersBacked, Backed, Backing
    <3>2. CASE bufs[g].reg = r
      BY <3>1, <3>2, <1>2 DEF r
    <3>3. CASE bufs[g].reg # r
      BY <3>1, <3>3, <1>2
    <3> QED
      BY <3>2, <3>3
  <2>3. /\ b.reg \in 1..Len(regions') /\ b.rec \in Chunks \ regions'[b.reg].free
        /\ regions'[b.reg].chunk[b.rec].alloc
        /\ regions'[b.reg].chunk[b.rec].size >= b.size
    BY <1>1, <1>2, <1>3 DEF h
  <2> SUFFICES ASSUME NEW g \in Handles, bufs'[g].rec # None
               PROVE  /\ bufs'[g].reg \in 1..Len(regions')
                      /\ bufs'[g].rec \in Chunks \ regions'[bufs'[g].reg].free
                      /\ regions'[bufs'[g].reg].chunk[bufs'[g].rec].alloc
                      /\ regions'[bufs'[g].reg].chunk[bufs'[g].rec].size >= bufs'[g].size
                      /\ bufs'[g].st \in {"held", "freeing"} =>
                           bufs'[g].addr = regions'[bufs'[g].reg].chunk[bufs'[g].rec].start
                      /\ \A f \in Handles : bufs'[f].rec # None
                           /\ bufs'[f].reg = bufs'[g].reg /\ bufs'[f].rec = bufs'[g].rec => f = g
    BY DEF BuffersBacked, Backed, Backing
  <2>4. CASE g = h
    BY <2>2, <2>3, <2>4, <1>3, <1>5
  <2>5. CASE g # h
    <3>1. /\ regions[bufs[g].reg].chunk[bufs[g].rec].alloc
          /\ regions[bufs[g].reg].chunk[bufs[g].rec].size >= bufs[g].size
          /\ bufs[g].st \in {"held", "freeing"} =>
               bufs[g].addr = regions[bufs[g].reg].chunk[bufs[g].rec].start
          /\ \A f \in Handles : bufs[f].rec # None
               /\ bufs[f].reg = bufs[g].reg /\ bufs[f].rec = bufs[g].rec => f = g
      BY <2>2, <2>5 DEF IInv, BuffersBacked, Backed, Backing
    <3> QED
      <4>1. \A f \in Handles : bufs'[f].rec # None
               /\ bufs'[f].reg = bufs'[g].reg /\ bufs'[f].rec = bufs'[g].rec => f = g
        <5> TAKE f \in Handles
        <5>1. CASE f = h
          BY <5>1, <2>2, <2>5, <1>3, <1>5
        <5>2. CASE f # h
          BY <5>2, <3>1, <2>5, <1>5
        <5> QED
          BY <5>1, <5>2
      <4>2. bufs'[g] = bufs[g]
        BY <2>5, <1>5
      <4> QED
        BY <4>1, <4>2, <3>1, <2>2, <2>5, <1>2
  <2> QED
    BY <2>4, <2>5
<1>8. \A u \in Threads : u # t => handle[u] # h
  BY <1>1, HandleFree DEF h
<1>9. ThreadsOK'
  <2> SUFFICES ASSUME NEW u \in Threads PROVE ThreadOK(u)'
    BY DEF ThreadsOK
  <2>1. ThreadOK(u)
    BY DEF IInv, ThreadsOK
  <2>2. CASE u = t
    <3>1. pc'[u] = "unlock" /\ cur'[u] = r /\ handle'[u] = h /\ bufs'[h] = b
      BY <2>2, <1>4, <1>5 DEF IInv, TypeOK, r, h
    <3> QED
      BY <3>1, <1>1, <1>2, <1>3, NoneAssumption DEF ThreadOK, Allocating
  <2>3. CASE u # t
    <3>1. pc'[u] = pc[u] /\ cur'[u] = cur[u] /\ handle'[u] = handle[u] /\ handle[u] # h
      BY <2>3, <1>4, <1>8 DEF IInv, TypeOK
    <3>2. regions # <<>> => regions' # <<>>
      BY <1>1, <1>2
    <3> QED
      BY <2>1, <3>1, <3>2, <1>2, <1>5 DEF ThreadOK
  <2> QED
    BY <2>2, <2>3
<1>10. HandlesOK'
  <2>1. \A g \in Handles : bufs'[g].st = bufs[g].st
    BY <1>1, <1>3, <1>5
  <2>2. handle' = handle /\ \A u \in Threads : handle[u] # None => handle[u] \in Handles
    BY DEF IInv, TypeOK
  <2>3. \A g \in Handles : bufs'[g].st \in {"none", "held", "freeing"} =>
           g # h /\ bufs'[g] = bufs[g]
    BY <1>3, <1>5
  <2> QED
    BY <2>1, <2>2, <2>3 DEF IInv, HandlesOK
<1> QED
  BY <1>2, <1>6, <1>7, <1>9, <1>10 DEF IInv

\* A request that failed on the current region.
LEMMA FailPreserves ==
  ASSUME IInv, NEW t \in Threads, UNCHANGED <<regions, bufs, unlinked, regions_lock, handle>>,
         pc[t] \in {"append", "reuse", "append_new", "reuse_new"},
         \/ RegionFailed(t)
         \/ /\ pc' = [pc EXCEPT ![t] = IF pc[t] = "append" THEN "reuse" ELSE "reuse_new"]
            /\ UNCHANGED cur
         \/ /\ pc' = [pc EXCEPT ![t] = IF pc[t] = "reuse" THEN "append" ELSE "append_new"]
            /\ UNCHANGED cur
  PROVE  IInv'
<1>1. PICK x, k : /\ pc' = [pc EXCEPT ![t] = x] /\ cur' = [cur EXCEPT ![t] = k]
                  /\ \/ x = "assert_failed" /\ k = cur[t]
                     \/ x = "newregion" /\ k = cur[t] + 1
                     \/ x \in {"append", "reuse", "append_new", "reuse_new"} /\ k = cur[t]
                     \/ x \in {"append", "reuse"} /\ k = cur[t] + 1 /\ k <= Len(regions)
  <2>1. cur = [cur EXCEPT ![t] = cur[t]]
    BY DEF IInv, TypeOK
  <2> QED
    BY <2>1 DEF RegionFailed, Try, FirstTry
<1>2. ThreadOK(t) /\ cur[t] \in 1..Len(regions) /\ pc[t] \in Allocating
  BY DEF IInv, ThreadsOK, ThreadOK, Allocating
<1>3. x \in Points /\ k \in Nat
  BY <1>1, <1>2 DEF Points, IInv, TypeOK
<1>4. pc'[t] = x /\ cur'[t] = k
  BY <1>1 DEF IInv, TypeOK
<1>5. ThreadOK(t)'
  <2>1. x \in {"append", "reuse", "append_new", "reuse_new"} => k \in 1..Len(regions)
    BY <1>1, <1>2, <1>3
  <2>2. x \in {"assert_failed", "newregion", "append", "reuse", "append_new", "reuse_new"}
    BY <1>1
  <2> QED
    BY <1>2, <1>4, <2>1, <2>2 DEF ThreadOK, Allocating
<1> QED
  BY <1>1, <1>3, <1>5, MovePreserves DEF IInv, TypeOK

LEMMA AppendChunkPreserves ==
  ASSUME NoIntOverflow, IInv, NEW t \in Threads, AppendChunk(t)
  PROVE  IInv'
<1> DEFINE R == regions[cur[t]]
           size == bufs[handle[t]].size
<1>1. /\ RegionOK(R) /\ size \in Sizes /\ pc[t] \in {"append", "append_new"}
      /\ UNCHANGED <<unlinked, regions_lock, handle>>
  BY DEF IInv, ThreadsOK, ThreadOK, Allocating, RegionsOK, AppendChunk
<1>2. CASE CanAppend(R, size) /\ \E c \in R.free : Serve(t, append_new_chunk(R, size, c), c)
  <2>1. PICK c \in R.free : Serve(t, append_new_chunk(R, size, c), c)
    BY <1>2
  <2> DEFINE N == append_new_chunk(R, size, c)
  <2>2. /\ RegionOK(N) /\ N.base = R.base /\ N.size = R.size /\ N.free = R.free \ {c}
        /\ N.chunk[c].alloc /\ N.chunk[c].size = size
        /\ \A d \in Chunks \ R.free : d # R.last => N.chunk[d] = R.chunk[d]
    BY <1>1, <1>2, AppendOK
  <2>3. ~R.chunk[R.last].alloc /\ c \in Chunks /\ size \in Nat
    BY <1>1, SizesAssumption DEF RegionOK, SentinelOK, Region
  <2> HIDE DEF N
  <2>4. N.chunk[c].size >= size /\ c \in Chunks \ N.free
    BY <2>2, <2>3
  <2>5. \A d \in Chunks \ R.free : R.chunk[d].alloc =>
           d \notin N.free /\ N.chunk[d] = R.chunk[d] /\ d # c
    BY <2>2, <2>3
  <2>6. Serve(t, N, c)
    BY <2>1 DEF N
  <2> QED
    BY <1>1, <2>2, <2>4, <2>5, <2>6, ServePreserves
<1>3. CASE /\ UNCHANGED <<regions, bufs>>
           /\ \/ RegionFailed(t)
              \/ /\ pc' = [pc EXCEPT ![t] = IF pc[t] = "append" THEN "reuse" ELSE "reuse_new"]
                 /\ UNCHANGED cur
  BY <1>1, <1>3, FailPreserves
<1> QED
  BY <1>2, <1>3 DEF AppendChunk

LEMMA ReuseChunkPreserves ==
  ASSUME NoIntOverflow, IInv, NEW t \in Threads, ReuseChunk(t)
  PROVE  IInv'
<1> DEFINE R == regions[cur[t]]
           size == bufs[handle[t]].size
<1>1. /\ RegionOK(R) /\ size \in Sizes /\ pc[t] \in {"reuse", "reuse_new"}
      /\ UNCHANGED <<unlinked, regions_lock, handle>>
  BY DEF IInv, ThreadsOK, ThreadOK, Allocating, RegionsOK, ReuseChunk
<1>2. CASE \E i \in 1..Len(R.chunks) :
              FirstFit(R, size, i) /\ Serve(t, reuse_chunk(R, i), R.chunks[i])
  <2>1. PICK i \in 1..Len(R.chunks) :
              FirstFit(R, size, i) /\ Serve(t, reuse_chunk(R, i), R.chunks[i])
    BY <1>2
  <2> DEFINE N == reuse_chunk(R, i)
             c == R.chunks[i]
  <2>2. c # R.last /\ ~At(R, i).alloc /\ Fits(At(R, i), size)
    BY <2>1 DEF FirstFit, Reusable
  <2> HIDE DEF R
  <2>3. /\ RegionOK(N) /\ N.base = R.base /\ N.size = R.size /\ N.free = R.free
        /\ N.chunk[c] = [At(R, i) EXCEPT !.alloc = TRUE]
        /\ \A d \in Chunks : d # c => N.chunk[d] = R.chunk[d]
    BY <1>1, <2>2, MarkOK DEF reuse_chunk
  <2>4. /\ c \in Chunks \ R.free /\ At(R, i) \in Chunk /\ At(R, i).size < IntHalf
        /\ At(R, i) = R.chunk[c]
    BY <1>1, ChunkSizes
  <2>5. N.chunk[c].alloc /\ N.chunk[c].size = At(R, i).size
    BY <2>3, <2>4 DEF Chunk
  <2>6. At(R, i).size >= size
    <3>1. AlignUp(At(R, i).start) + size <= End(At(R, i))
      BY <1>1, <2>2, <2>4, FitsExact
    <3>2. At(R, i).start \in Nat /\ At(R, i).size \in Nat /\ size \in Nat
      BY <1>1, <2>4, SizesAssumption DEF Chunk
    <3>3. AlignUp(At(R, i).start) \in Nat /\ At(R, i).start <= AlignUp(At(R, i).start)
      BY <3>2, AlignUpBounds
    <3> QED
      BY <3>1, <3>2, <3>3 DEF End
  <2> HIDE DEF N, c
  <2>7. \A d \in Chunks \ R.free : R.chunk[d].alloc =>
           d \notin N.free /\ N.chunk[d] = R.chunk[d] /\ d # c
    BY <2>2, <2>3, <2>4
  <2>8. Serve(t, N, c)
    BY <2>1 DEF N, c, R
  <2> QED
    BY <1>1, <2>3, <2>4, <2>5, <2>6, <2>7, <2>8, ServePreserves DEF R
<1>3. CASE /\ UNCHANGED <<regions, bufs>>
           /\ \/ RegionFailed(t)
              \/ /\ pc' = [pc EXCEPT ![t] = IF pc[t] = "reuse" THEN "append" ELSE "append_new"]
                 /\ UNCHANGED cur
  BY <1>1, <1>3, FailPreserves
<1> QED
  BY <1>2, <1>3 DEF ReuseChunk

LEMMA NewRegionPreserves ==
  ASSUME NoIntOverflow, IInv, NEW t \in Threads, NewRegion(t)
  PROVE  IInv'
<1>1. /\ pc[t] = "newregion" /\ handle[t] \in Handles /\ bufs[handle[t]].size \in Sizes
      /\ ThreadOK(t)
  BY DEF IInv, ThreadsOK, ThreadOK, Allocating, NewRegion
<1>2. PICK size \in {region_size(bufs[handle[t]].size), bufs[handle[t]].size}, c \in Chunks :
         regions' = Append(regions, init_mem_region(posix_memalign, size, c))
  BY DEF NewRegion
<1> DEFINE N == init_mem_region(posix_memalign, size, c)
           n == Len(regions)
<1>3. size \in Nat /\ size < IntHalf
  <2>1. /\ bufs[handle[t]].size \in Nat /\ region_size(bufs[handle[t]].size) \in Nat
        /\ Align \in Nat \ {0} /\ IntHalf \in Nat
    BY <1>1, SizesAssumption, AlignAssumption, WidthAssumption, RegionSizeNat
  <2>2. /\ region_size(bufs[handle[t]].size) < IntHalf
        /\ bufs[handle[t]].size + Align <= IntHalf
    BY <1>1 DEF NoIntOverflow
  <2> QED
    BY <2>1, <2>2
<1>4. /\ posix_memalign \in Nat
      /\ \A r \in 1..n : regions[r].base + regions[r].size < posix_memalign
  BY MemalignApart DEF IInv
<1>5. RegionOK(N) /\ N.base = posix_memalign
  BY <1>3, <1>4, InitRegionOK DEF init_mem_region
<1> HIDE DEF N
<1>6. /\ regions' \in Seq(Region) /\ Len(regions') = n + 1 /\ n \in Nat
      /\ \A r \in 1..n : regions'[r] = regions[r]
      /\ regions'[n + 1] = N
  <2>1. regions \in Seq(Region) /\ N \in Region
    BY <1>5 DEF IInv, TypeOK, RegionOK
  <2>2. regions' = Append(regions, N)
    BY <1>2 DEF N
  <2> QED
    BY <2>1, <2>2, AppendProperties
<1> HIDE DEF n
<1>7. /\ unlinked' = n + 1 /\ pc' = [pc EXCEPT ![t] = "linked"]
      /\ UNCHANGED <<regions_lock, cur, handle, bufs>>
  BY DEF NewRegion, n
<1>8. TypeOK'
  BY <1>6, <1>7 DEF IInv, TypeOK, Points
<1>9. RegionsOK'
  <2>1. \A r \in 1..n : RegionOK(regions[r])
    BY DEF IInv, RegionsOK, n
  <2>2. \A r \in 1..(n + 1) : r \in 1..n \/ r = n + 1
    BY <1>6
  <2> QED
    BY <1>5, <1>6, <2>1, <2>2 DEF RegionsOK
<1>10. RegionsApart'
  <2>1. \A r, s \in 1..n : r < s => regions[r].base + regions[r].size < regions[s].base
    BY DEF IInv, RegionsApart, n
  <2>2. \A r, s \in 1..(n + 1) : r < s => r \in 1..n /\ (s \in 1..n \/ s = n + 1)
    BY <1>6
  <2> QED
    BY <1>4, <1>5, <1>6, <2>1, <2>2 DEF RegionsApart
<1>11. ThreadsOK'
  <2> SUFFICES ASSUME NEW u \in Threads PROVE ThreadOK(u)'
    BY DEF ThreadsOK
  <2>1. ThreadOK(u) /\ \A k \in 1..n : k \in 1..(n + 1)
    BY <1>6 DEF IInv, ThreadsOK
  <2>2. regions' # <<>>
    BY <1>6
  <2>3. CASE u = t
    <3>1. pc'[u] = "linked"
      BY <2>3, <1>7 DEF IInv, TypeOK
    <3> QED
      BY <3>1, <2>2, <2>3, <1>1, <1>7 DEF ThreadOK, Allocating
  <2>4. CASE u # t
    <3>1. pc'[u] = pc[u]
      BY <2>4, <1>7 DEF IInv, TypeOK
    <3> QED
      BY <3>1, <2>1, <2>2, <1>6, <1>7 DEF ThreadOK, n
  <2> QED
    BY <2>3, <2>4
<1>12. HandlesOK'
  BY <1>7 DEF IInv, HandlesOK
<1>13. BuffersBacked'
  <2>1. \A h \in Backed : bufs[h].reg \in 1..n
    BY DEF IInv, BuffersBacked, n
  <2>2. \A k \in 1..n : k \in 1..(n + 1)
    BY <1>6
  <2> QED
    BY <1>6, <1>7, <2>1, <2>2 DEF IInv, BuffersBacked, Backed, Backing
<1> QED
  BY <1>8, <1>9, <1>10, <1>11, <1>12, <1>13 DEF IInv

LEMMA LinkRegionPreserves ==
  ASSUME IInv, NEW t \in Threads, LinkRegion(t)
  PROVE  IInv'
<1> DEFINE x == IF Strategy = "WASTEFUL" THEN "append_new" ELSE "reuse_new"
           k == Len(regions)
<1>1. ThreadOK(t) /\ pc[t] = "linked" /\ pc[t] \in Allocating /\ x \in {"append_new", "reuse_new"}
  BY DEF IInv, ThreadsOK, LinkRegion, Allocating
<1>2. k \in Nat /\ k \in 1..k
  <2>1. regions \in Seq(Region) /\ regions # <<>>
    BY <1>1 DEF IInv, TypeOK, ThreadOK
  <2> QED
    BY <2>1, EmptySeq
<1>3. /\ UNCHANGED <<regions, bufs, handle>> /\ unlinked' = 0 /\ regions_lock' = regions_lock
      /\ pc' = [pc EXCEPT ![t] = x] /\ cur' = [cur EXCEPT ![t] = k]
  BY DEF LinkRegion
<1> HIDE DEF x
<1>4. ThreadOK(t)'
  <2>1. pc'[t] = x /\ cur'[t] = k
    BY <1>3 DEF IInv, TypeOK
  <2> QED
    BY <1>1, <1>2, <1>3, <2>1 DEF ThreadOK, Allocating
<1>5. x \in Points /\ unlinked' \in 0..Len(regions) /\ regions_lock' \in Threads \cup {None}
  BY <1>1, <1>2, <1>3 DEF IInv, TypeOK, Points
<1> QED
  BY <1>2, <1>3, <1>4, <1>5, MovePreserves

LEMMA MallocUnlockPreserves ==
  ASSUME IInv, NEW t \in Threads, MallocUnlock(t)
  PROVE  IInv'
<1>1. ThreadOK(t) /\ pc[t] = "unlock" /\ cur[t] \in Nat
  BY DEF IInv, TypeOK, ThreadsOK, MallocUnlock
<1>2. /\ UNCHANGED <<regions, bufs, handle, unlinked>> /\ regions_lock' = None
      /\ pc' = [pc EXCEPT ![t] = "return"] /\ cur' = [cur EXCEPT ![t] = cur[t]]
  BY DEF IInv, TypeOK, MallocUnlock
<1>3. ThreadOK(t)'
  <2>1. pc'[t] = "return" /\ cur'[t] = cur[t]
    BY <1>2 DEF IInv, TypeOK
  <2> QED
    BY <1>1, <1>2, <2>1 DEF ThreadOK, Allocating
<1>4. "return" \in Points /\ unlinked' \in 0..Len(regions)
  BY <1>2 DEF IInv, TypeOK, Points
<1> QED
  BY <1>1, <1>2, <1>3, <1>4, MovePreserves

\* free_buffer finds no chunk but the one that backs the buffer.
LEMMA FoundIsBacking ==
  ASSUME IInv, NEW h \in Handles, bufs[h].st = "freeing", NEW r \in 1..Len(regions),
         NEW i \in 1..Len(regions[r].chunks),
         At(regions[r], i).start = bufs[h].addr
  PROVE  /\ h \in Backed /\ bufs[h].reg = r /\ bufs[h].rec = regions[r].chunks[i]
         /\ regions[r].chunks[i] # regions[r].last
<1> DEFINE q == bufs[h].reg
<1>1. /\ h \in Backed /\ q \in 1..Len(regions) /\ bufs[h].rec \in Chunks \ regions[q].free
      /\ regions[q].chunk[bufs[h].rec].alloc
      /\ bufs[h].addr = regions[q].chunk[bufs[h].rec].start
  BY DEF IInv, HandlesOK, BuffersBacked, Backed, Backing
<1>2. RegionOK(regions[q]) /\ RegionOK(regions[r])
  BY <1>1 DEF IInv, RegionsOK
<1>3. PICK j \in 1..Len(regions[q].chunks) : regions[q].chunks[j] = bufs[h].rec
  BY <1>1, <1>2, Position
<1>4. At(regions[q], j).start = At(regions[r], i).start /\ regions[q].chunks[j] # regions[q].last
  BY <1>1, <1>2, <1>3 DEF At, RegionOK, SentinelOK
<1>5. ASSUME NEW s \in 1..Len(regions), NEW k \in 1..Len(regions[s].chunks)
      PROVE  /\ regions[s].base \in Nat /\ regions[s].size \in Nat
             /\ At(regions[s], k).start \in Nat
             /\ regions[s].base <= At(regions[s], k).start
             /\ At(regions[s], k).start <= regions[s].base + regions[s].size
  <2>1. RegionOK(regions[s])
    BY DEF IInv, RegionsOK
  <2>2. At(regions[s], k) \in Chunk /\ regions[s] \in Region
    BY <2>1, ChunkSizes DEF RegionOK
  <2>3. /\ regions[s].base <= At(regions[s], k).start
        /\ At(regions[s], k).start + At(regions[s], k).size <= regions[s].base + regions[s].size
    BY <2>1 DEF RegionOK, OrderOK, End
  <2> QED
    BY <2>2, <2>3 DEF Chunk, Region
<1>6. q = r
  <2> DEFINE a == At(regions[r], i).start
             qb == regions[q].base
             qs == regions[q].size
             rb == regions[r].base
             rs == regions[r].size
  <2>1. /\ a \in Nat /\ qb \in Nat /\ qs \in Nat /\ rb \in Nat /\ rs \in Nat
        /\ qb <= a /\ a <= qb + qs /\ rb <= a /\ a <= rb + rs
    BY <1>1, <1>4, <1>5
  <2>2. (q < r => qb + qs < rb) /\ (r < q => rb + rs < qb)
    BY <1>1 DEF IInv, RegionsApart
  <2>3. q \in Int /\ r \in Int
    BY <1>1
  <2> HIDE DEF a, qb, qs, rb, rs, q
  <2> QED
    BY <2>1, <2>2, <2>3
<1>7. i = j
  BY <1>2, <1>4, <1>6, StartsDiffer
<1> QED
  BY <1>1, <1>3, <1>4, <1>6, <1>7

LEMMA FreeInRegionPreserves ==
  ASSUME IInv, NEW t \in Threads, FreeInRegion(t)
  PROVE  IInv'
<1> DEFINE r == cur[t]
           R == regions[r]
           h == handle[t]
<1>1. /\ pc[t] = "free" /\ r \in 1..Len(regions) /\ h \in Handles /\ bufs[h].st = "freeing"
      /\ RegionOK(R) /\ UNCHANGED <<unlinked, regions_lock>> /\ r \in Nat
  BY DEF IInv, TypeOK, ThreadsOK, ThreadOK, FreeInRegion, RegionsOK
<1>2. ASSUME NEW i \in 1..Len(R.chunks), NEW order \in EvalOrders,
             FoundAt(R, bufs[h].addr, i),
             regions' = [regions EXCEPT ![r] = free_chunk(R, i, order)],
             bufs' = [bufs EXCEPT ![h] = NoBuffer],
             handle' = [handle EXCEPT ![t] = None],
             cur' = [cur EXCEPT ![t] = 0],
             pc' = [pc EXCEPT ![t] = "idle"]
      PROVE  IInv'
  <2> DEFINE N == free_chunk(R, i, order)
  <2>1. /\ h \in Backed /\ bufs[h].reg = r /\ bufs[h].rec = R.chunks[i]
        /\ R.chunks[i] # R.last
    BY <1>1, <1>2, FoundIsBacking DEF FoundAt
  <2>2. /\ RegionOK(N) /\ N.base = R.base /\ N.size = R.size
        /\ \A d \in Chunks \ R.free : R.chunk[d].alloc /\ d # R.chunks[i] =>
             d \notin N.free /\ N.chunk[d] = R.chunk[d]
    BY <1>1, <2>1, FreeOK
  <2> HIDE DEF N
  <2>3. /\ regions' \in Seq(Region) /\ Len(regions') = Len(regions)
        /\ regions'[r] = N
        /\ \A s \in 1..Len(regions) : s # r => regions'[s] = regions[s]
        /\ RegionsOK' /\ RegionsApart'
    BY <1>1, <1>2, <2>2, ReplaceRegion DEF IInv, N
  <2>4. NoBuffer \in Buffer /\ NoBuffer.st = "none" /\ NoBuffer.rec = None
    BY DEF NoBuffer, Buffer
  <2> HIDE DEF h, R, r
  <2>5. bufs'[h] = NoBuffer /\ \A g \in Handles : g # h => bufs'[g] = bufs[g]
    BY <1>1, <1>2 DEF IInv, TypeOK
  <2>6. TypeOK'
    BY <1>1, <1>2, <2>3, <2>4 DEF IInv, TypeOK, Points
  <2>7. \A u \in Threads : u # t => handle[u] # h
    BY <1>1, HandleFree DEF h
  <2>8. /\ pc'[t] = "idle" /\ handle'[t] = None
        /\ \A u \in Threads : u # t => /\ pc'[u] = pc[u] /\ cur'[u] = cur[u]
                                       /\ handle'[u] = handle[u]
    BY <1>2 DEF IInv, TypeOK
  <2>9. ThreadsOK'
    <3> SUFFICES ASSUME NEW u \in Threads PROVE ThreadOK(u)'
      BY DEF ThreadsOK
    <3>1. CASE u = t
      BY <3>1, <2>8 DEF ThreadOK, Allocating
    <3>2. CASE u # t
      <4>1. ThreadOK(u) /\ (regions # <<>> => regions' # <<>>)
        BY <1>1, <2>3 DEF IInv, ThreadsOK
      <4> QED
        BY <3>2, <4>1, <2>3, <2>5, <2>7, <2>8 DEF ThreadOK
    <3> QED
      BY <3>1, <3>2
  <2>10. HandlesOK'
    <3>1. \A u \in Threads : handle'[u] # None =>
             /\ u # t /\ handle'[u] = handle[u] /\ handle[u] \in Handles
             /\ bufs'[handle'[u]] = bufs[handle[u]]
      BY <2>5, <2>7, <2>8 DEF IInv, TypeOK
    <3>2. \A g \in Handles : bufs'[g] = bufs[g] \/ bufs'[g] = NoBuffer
      BY <2>5
    <3> QED
      BY <3>1, <3>2, <2>4 DEF IInv, HandlesOK
  <2>11. BuffersBacked'
    <3>1. ASSUME NEW g \in Handles, bufs'[g].rec # None
          PROVE  /\ bufs'[g] = bufs[g] /\ g # h /\ bufs[g].reg \in 1..Len(regions)
                 /\ bufs[g].rec \in Chunks \ regions'[bufs[g].reg].free
                 /\ regions'[bufs[g].reg].chunk[bufs[g].rec] =
                       regions[bufs[g].reg].chunk[bufs[g].rec]
      <4>1. g # h /\ bufs'[g] = bufs[g] /\ g \in Backed
        BY <3>1, <2>4, <2>5 DEF Backed
      <4>2. /\ bufs[g].reg \in 1..Len(regions)
            /\ bufs[g].rec \in Chunks \ regions[bufs[g].reg].free
            /\ regions[bufs[g].reg].chunk[bufs[g].rec].alloc
            /\ ~(bufs[g].reg = bufs[h].reg /\ bufs[g].rec = bufs[h].rec)
        BY <4>1, <2>1 DEF IInv, BuffersBacked, Backing
      <4>3. CASE bufs[g].reg = r
        BY <4>1, <4>2, <4>3, <2>1, <2>2, <2>3 DEF R
      <4>4. CASE bufs[g].reg # r
        BY <4>1, <4>2, <4>4, <2>3
      <4> QED
        BY <4>3, <4>4
    <3> SUFFICES ASSUME NEW g \in Handles, bufs'[g].rec # None
                 PROVE  /\ bufs'[g].reg \in 1..Len(regions')
                        /\ bufs'[g].rec \in Chunks \ regions'[bufs'[g].reg].free
                        /\ regions'[bufs'[g].reg].chunk[bufs'[g].rec].alloc
                        /\ regions'[bufs'[g].reg].chunk[bufs'[g].rec].size >= bufs'[g].size
                        /\ bufs'[g].st \in {"held", "freeing"} =>
                             bufs'[g].addr = regions'[bufs'[g].reg].chunk[bufs'[g].rec].start
                        /\ \A f \in Handles : bufs'[f].rec # None
                             /\ bufs'[f].reg = bufs'[g].reg /\ bufs'[f].rec = bufs'[g].rec => f = g
      BY DEF BuffersBacked, Backed, Backing
    <3>2. bufs'[g] = bufs[g] /\ bufs[g].rec # None
      BY <3>1
    <3>3. /\ regions[bufs[g].reg].chunk[bufs[g].rec].alloc
          /\ regions[bufs[g].reg].chunk[bufs[g].rec].size >= bufs[g].size
          /\ bufs[g].st \in {"held", "freeing"} =>
               bufs[g].addr = regions[bufs[g].reg].chunk[bufs[g].rec].start
          /\ \A f \in Handles : bufs[f].rec # None
               /\ bufs[f].reg = bufs[g].reg /\ bufs[f].rec = bufs[g].rec => f = g
      BY <3>2 DEF IInv, BuffersBacked, Backed, Backing
    <3>4. \A f \in Handles : bufs'[f].rec # None => bufs'[f] = bufs[f]
      BY <3>1
    <3>5. \A f \in Handles : bufs'[f].rec # None
             /\ bufs'[f].reg = bufs'[g].reg /\ bufs'[f].rec = bufs'[g].rec => f = g
      BY <3>2, <3>3, <3>4
    <3> QED
      BY <3>1, <3>2, <3>3, <3>5, <2>3
  <2> QED
    BY <2>3, <2>6, <2>9, <2>10, <2>11 DEF IInv
<1>3. CASE /\ cur' = [cur EXCEPT ![t] = cur[t] + 1]
           /\ pc' = [pc EXCEPT ![t] = IF cur[t] = unlinked THEN "wild_pointer"
                                      ELSE IF cur[t] = Len(regions) THEN "assert_failed"
                                      ELSE "free"]
           /\ UNCHANGED <<regions, bufs, handle>>
  <2> DEFINE x == IF r = unlinked THEN "wild_pointer"
                  ELSE IF r = Len(regions) THEN "assert_failed" ELSE "free"
  <2>1. x \in Points /\ x \in {"wild_pointer", "assert_failed", "free"} /\ r + 1 \in Nat
    BY <1>1 DEF Points
  <2>2. x = "free" => r + 1 \in 1..Len(regions)
    BY <1>1 DEF IInv, TypeOK
  <2>3. pc' = [pc EXCEPT ![t] = x] /\ cur' = [cur EXCEPT ![t] = r + 1]
    BY <1>3
  <2> HIDE DEF x
  <2>4. pc'[t] = x /\ cur'[t] = r + 1
    BY <2>3 DEF IInv, TypeOK
  <2>5. ThreadOK(t)'
    BY <1>1, <1>3, <2>1, <2>2, <2>4 DEF ThreadOK, Allocating
  <2> QED
    BY <1>1, <1>3, <2>1, <2>3, <2>5, MovePreserves DEF IInv, TypeOK
<1> QED
  BY <1>2, <1>3 DEF FreeInRegion
-----------------------------------------------------------------------------
(* The theorems.                                                           *)

LEMMA InitInv == Init => IInv
BY DEF Init, IInv, TypeOK, RegionsOK, RegionsApart, ThreadsOK, ThreadOK, HandlesOK,
       BuffersBacked, Backed, NoBuffer, Buffer, Points, Allocating

LEMMA NextInv ==
  ASSUME NoIntOverflow, IInv, [Next]_vars
  PROVE  IInv'
<1>1. CASE UNCHANGED vars
  BY <1>1 DEF vars, IInv, TypeOK, RegionsOK, RegionsApart, ThreadsOK, ThreadOK, HandlesOK,
              BuffersBacked, Backed, Backing
<1>2. ASSUME NEW t \in Threads, NEW h \in Handles, NEW size \in Sizes, Malloc(t, h, size)
      PROVE  IInv'
  BY <1>2, MallocPreserves
<1>3. ASSUME NEW t \in Threads, NEW h \in Handles, Free(t, h)
      PROVE  IInv'
  BY <1>3, FreePreserves
<1>4. ASSUME NEW t \in Threads, Step(t)
      PROVE  IInv'
  BY <1>4, AppendChunkPreserves, ReuseChunkPreserves, NewRegionPreserves,
     LinkRegionPreserves, NoMemoryPreserves, MallocUnlockPreserves,
     MallocReturnPreserves, FreeInRegionPreserves DEF Step
<1> QED
  BY <1>1, <1>2, <1>3, <1>4 DEF Next

LEMMA InvDisjoint == IInv => BuffersDisjoint
<1> SUFFICES ASSUME IInv, NEW g \in Handles, NEW h \in Handles, g # h,
                    bufs[g].st = "held", bufs[h].st = "held"
             PROVE  \/ bufs[g].addr + bufs[g].size <= bufs[h].addr
                    \/ bufs[h].addr + bufs[h].size <= bufs[g].addr
  BY DEF BuffersDisjoint
<1> DEFINE r == bufs[g].reg
           s == bufs[h].reg
<1>1. /\ r \in 1..Len(regions) /\ s \in 1..Len(regions)
      /\ bufs[g].rec \in Chunks \ regions[r].free /\ bufs[h].rec \in Chunks \ regions[s].free
      /\ bufs[g].addr = regions[r].chunk[bufs[g].rec].start
      /\ bufs[h].addr = regions[s].chunk[bufs[h].rec].start
      /\ regions[r].chunk[bufs[g].rec].size >= bufs[g].size
      /\ regions[s].chunk[bufs[h].rec].size >= bufs[h].size
      /\ ~(r = s /\ bufs[g].rec = bufs[h].rec)
  BY DEF IInv, HandlesOK, BuffersBacked, Backed, Backing
<1>2. RegionOK(regions[r]) /\ RegionOK(regions[s])
  BY <1>1 DEF IInv, RegionsOK
<1>3. PICK i \in 1..Len(regions[r].chunks) : regions[r].chunks[i] = bufs[g].rec
  BY <1>1, <1>2, Position
<1>4. PICK j \in 1..Len(regions[s].chunks) : regions[s].chunks[j] = bufs[h].rec
  BY <1>1, <1>2, Position
<1> DEFINE a == bufs[g].addr
           m == regions[r].chunk[bufs[g].rec].size
           b == bufs[h].addr
           n == regions[s].chunk[bufs[h].rec].size
<1>5. /\ a \in Nat /\ b \in Nat /\ m \in Nat /\ n \in Nat
      /\ bufs[g].size \in Nat /\ bufs[h].size \in Nat
  <2>1. regions[r].chunk[bufs[g].rec] \in Chunk /\ regions[s].chunk[bufs[h].rec] \in Chunk
    BY <1>1, <1>2 DEF RegionOK, Region
  <2>2. bufs[g] \in Buffer /\ bufs[h] \in Buffer
    BY DEF IInv, TypeOK
  <2> QED
    <3>1. \A c \in Chunk : c.size \in Nat
      BY DEF Chunk
    <3>2. \A f \in Buffer : f.addr \in Nat /\ f.size \in Nat
      <4>1. \A x \in Sizes \cup {0} : x \in Nat
        BY SizesAssumption
      <4>2. \A f \in Buffer : f.addr \in Nat /\ f.size \in Sizes \cup {0}
        BY DEF Buffer
      <4> QED
        BY <4>1, <4>2
    <3> QED
      BY <2>1, <2>2, <3>1, <3>2
<1>6. /\ a + m = End(At(regions[r], i)) /\ a = At(regions[r], i).start
      /\ b + n = End(At(regions[s], j)) /\ b = At(regions[s], j).start
  BY <1>1, <1>3, <1>4 DEF At, End
<1>7. a + m <= b \/ b + n <= a
  <2>1. CASE r = s
    <3>1. i # j
      BY <1>1, <1>3, <1>4, <2>1
    <3>2. i < j \/ j < i
      BY <3>1, <1>1, <2>1
    <3> QED
      BY <3>2, <1>2, <1>6, <2>1 DEF RegionOK, OrderOK
  <2>2. CASE r # s
    <3> DEFINE rb == regions[r].base
               rs == regions[r].size
               sb == regions[s].base
               ss == regions[s].size
    <3>1. /\ rb \in Nat /\ rs \in Nat /\ sb \in Nat /\ ss \in Nat
      BY <1>2 DEF RegionOK, Region
    <3>2. rb <= a /\ a + m <= rb + rs /\ sb <= b /\ b + n <= sb + ss
      BY <1>2, <1>6 DEF RegionOK, OrderOK
    <3>3. (r < s => rb + rs < sb) /\ (s < r => sb + ss < rb)
      BY <1>1 DEF IInv, RegionsApart
    <3>4. r \in Int /\ s \in Int
      BY <1>1
    <3> HIDE DEF r, s, a, b, m, n, rb, rs, sb, ss
    <3> QED
      BY <1>5, <2>2, <3>1, <3>2, <3>3, <3>4
  <2> QED
    BY <2>1, <2>2
<1>8. m >= bufs[g].size /\ n >= bufs[h].size
  BY <1>1
<1> HIDE DEF a, b, m, n
<1>9. a + bufs[g].size <= b \/ b + bufs[h].size <= a
  BY <1>5, <1>7, <1>8
<1> QED
  BY <1>9 DEF a, b
-----------------------------------------------------------------------------
(* The second invariant: locks, new regions and what freeing gives back.   *)

\* An allocation holds mem_regions_lock from its first attempt to the end, and only
\* the last region can be without its next pointer.
LockOK ==
  /\ \A t \in Threads : pc[t] \in Allocating \cup {"unlock"} => regions_lock = t
  /\ unlinked \in {0, Len(regions)}

\* The region that was made for the request of thread t: nobody else has used it.
NewRegionOK(t) ==
  LET R == regions[Len(regions)] IN
  pc[t] \in {"linked", "append_new", "reuse_new"} =>
    /\ Len(R.chunks) = 1
    /\ R.free # {}
    /\ R.size >= bufs[handle[t]].size
    /\ pc[t] \in {"append_new", "reuse_new"} => cur[t] = Len(regions)
    /\ pc[t] = "reuse_new" => Strategy # "WASTEFUL"

\* A free has not passed the region of its buffer.
OnTheWay(t) == pc[t] = "free" => cur[t] <= bufs[handle[t]].reg

RegionsSpanned == \A r \in 1..Len(regions) : Spanned(regions[r])

Service ==
  /\ IInv
  /\ LockOK
  /\ \A t \in Threads : NewRegionOK(t)
  /\ \A t \in Threads : OnTheWay(t)
  /\ RegionsSpanned
  /\ NoLeak
  /\ NoFailure

\* The sentinel of a region that was made for a request is large enough for it.
LEMMA NewRegionServes ==
  ASSUME NoIntOverflow, Service, NEW t \in Threads, pc[t] \in {"append_new", "reuse_new"}
  PROVE  /\ CanAppend(regions[cur[t]], bufs[handle[t]].size)
         /\ \A i \in 1..Len(regions[cur[t]].chunks) :
              ~Reusable(regions[cur[t]], bufs[handle[t]].size, i)
<1> DEFINE r == cur[t]
           R == regions[r]
           size == bufs[handle[t]].size
<1>1. /\ r \in 1..Len(regions) /\ r = Len(regions) /\ size \in Sizes
      /\ Len(R.chunks) = 1 /\ R.free # {} /\ R.size >= size
  BY DEF Service, IInv, ThreadsOK, ThreadOK, Allocating, NewRegionOK
<1>2. RegionOK(R) /\ Spanned(R)
  BY <1>1 DEF Service, IInv, RegionsOK, RegionsSpanned
<1> HIDE DEF r, R, size
<1>3. /\ R.base \in Nat /\ R.size \in Nat /\ R.chunks[1] = R.last /\ At(R, 1) = R.chunk[R.last]
  BY <1>1, <1>2, Positions
<1>4. At(R, 1) \in Chunk /\ At(R, 1).size < IntHalf
  <2>1. 1 \in 1..Len(R.chunks)
    BY <1>1
  <2> QED
    BY <1>2, <2>1, ChunkSizes
<1>5. Fits(At(R, 1), size)
  <2>1. AlignUp(At(R, 1).start) = R.base /\ End(At(R, 1)) = R.base + R.size
    BY <1>1, <1>2 DEF Spanned
  <2>2. size \in Nat
    BY <1>1, SizesAssumption
  <2>3. AlignUp(At(R, 1).start) + size <= End(At(R, 1))
    BY <1>1, <1>3, <2>1, <2>2
  <2> QED
    BY <1>1, <1>4, <2>3, FitsExact
<1>6. CanAppend(R, size)
  BY <1>1, <1>3, <1>5 DEF CanAppend
<1>7. \A i \in 1..Len(R.chunks) : ~Reusable(R, size, i)
  <2>1. \A i \in 1..Len(R.chunks) : i = 1
    BY <1>1
  <2> QED
    BY <1>3, <2>1 DEF Reusable
<1> QED
  BY <1>6, <1>7 DEF R, r, size

\* While a thread holds mem_regions_lock, no other one is in an allocation.
LEMMA Excluded ==
  ASSUME LockOK, NEW t \in Threads, pc[t] \in Allocating \cup {"unlock"},
         NEW u \in Threads, pc[u] \in Allocating \cup {"unlock"}
  PROVE  u = t
BY DEF LockOK

\* A step of one thread that changes no region and takes no record from a buffer.
LEMMA MoveService ==
  ASSUME Service, IInv', UNCHANGED regions, NEW t \in Threads,
         \A u \in Threads : u # t => /\ pc'[u] = pc[u] /\ cur'[u] = cur[u]
                                     /\ handle'[u] = handle[u]
                                     /\ handle[u] # None =>
                                          bufs'[handle[u]] = bufs[handle[u]],
         \A h \in Backed : bufs'[h].rec = bufs[h].rec /\ bufs'[h].reg = bufs[h].reg,
         unlinked' \in {0, Len(regions)},
         \A u \in Threads : u # t /\ pc[u] \in Allocating \cup {"unlock"} => regions_lock' = u,
         pc'[t] \in Allocating \cup {"unlock"} => regions_lock' = t,
         NewRegionOK(t)', OnTheWay(t)', pc'[t] \notin {"assert_failed", "wild_pointer"}
  PROVE  Service'
<1>1. LockOK'
  BY DEF Service, LockOK
<1>2. \A u \in Threads : NewRegionOK(u)'
  <2> SUFFICES ASSUME NEW u \in Threads, u # t PROVE NewRegionOK(u)'
    OBVIOUS
  <2>1. NewRegionOK(u) /\ (pc[u] \in Allocating => handle[u] \in Handles)
    BY DEF Service, IInv, ThreadsOK, ThreadOK
  <2> QED
    BY <2>1, NoneAssumption DEF NewRegionOK, Allocating
<1>3. \A u \in Threads : OnTheWay(u)'
  <2> SUFFICES ASSUME NEW u \in Threads, u # t PROVE OnTheWay(u)'
    OBVIOUS
  <2>1. OnTheWay(u) /\ (pc[u] = "free" => handle[u] \in Handles)
    BY DEF Service, IInv, ThreadsOK, ThreadOK
  <2> QED
    BY <2>1, NoneAssumption DEF OnTheWay
<1>4. RegionsSpanned'
  BY DEF Service, RegionsSpanned
<1>5. NoLeak'
  BY DEF Service, NoLeak, Backed
<1>6. NoFailure'
  BY DEF Service, NoFailure
<1> QED
  BY <1>1, <1>2, <1>3, <1>4, <1>5, <1>6 DEF Service

LEMMA MallocService ==
  ASSUME NoIntOverflow, Service, NEW t \in Threads, NEW h \in Handles, NEW size \in Sizes,
         Malloc(t, h, size)
  PROVE  Service'
<1>1. IInv' /\ bufs[h].rec = None /\ h \notin Backed
  BY MallocPreserves DEF Service, IInv, HandlesOK, Malloc, Backed
<1>2. \A u \in Threads : u # t => handle[u] # h
  BY HandleFree DEF Service, Malloc
<1>3. \A u \in Threads : u # t => /\ pc'[u] = pc[u] /\ cur'[u] = cur[u]
                                  /\ handle'[u] = handle[u]
                                  /\ handle[u] # None => bufs'[handle[u]] = bufs[handle[u]]
  BY <1>2 DEF Service, IInv, TypeOK, Malloc, Try
<1>4. \A g \in Backed : bufs'[g] = bufs[g]
  BY <1>1 DEF Service, IInv, TypeOK, Malloc, Backed
<1>5. pc'[t] \in {"append", "reuse", "newregion"} /\ regions_lock' = t /\ UNCHANGED <<regions, unlinked>>
  BY DEF Service, IInv, TypeOK, Malloc, Try, FirstTry
<1>6. \A u \in Threads : pc[u] \notin Allocating \cup {"unlock"}
  BY NoneAssumption DEF Service, LockOK, Malloc
<1>7. NewRegionOK(t)' /\ OnTheWay(t)' /\ unlinked' \in {0, Len(regions)}
  BY <1>5 DEF NewRegionOK, OnTheWay, Service, LockOK
<1> QED
  BY <1>1, <1>3, <1>4, <1>5, <1>6, <1>7, MoveService

LEMMA NoMemoryService ==
  ASSUME NoIntOverflow, Service, NEW t \in Threads, NoMemory(t)
  PROVE  Service'
<1>1. /\ IInv' /\ pc[t] = "newregion" /\ handle[t] \in Handles
      /\ bufs[handle[t]].rec = None
  BY NoMemoryPreserves DEF Service, IInv, ThreadsOK, ThreadOK, Allocating, NoMemory
<1>2. \A u \in Threads : u # t => handle[u] # handle[t]
  BY <1>1, HandleFree DEF Service
<1>3. \A u \in Threads : u # t => /\ pc'[u] = pc[u] /\ cur'[u] = cur[u]
                                  /\ handle'[u] = handle[u]
                                  /\ handle[u] # None => bufs'[handle[u]] = bufs[handle[u]]
  BY <1>2 DEF Service, IInv, TypeOK, NoMemory
<1>4. \A g \in Backed : bufs'[g] = bufs[g]
  BY <1>1 DEF Service, IInv, TypeOK, NoMemory, Backed
<1>5. pc'[t] = "idle" /\ UNCHANGED <<regions, unlinked>>
  BY DEF Service, IInv, TypeOK, NoMemory
<1>6. \A u \in Threads : u # t => pc[u] \notin Allocating \cup {"unlock"}
  BY <1>1, Excluded DEF Service, Allocating
<1>7. NewRegionOK(t)' /\ OnTheWay(t)' /\ unlinked' \in {0, Len(regions)}
      /\ pc'[t] \notin Allocating \cup {"unlock"}
  BY <1>5 DEF NewRegionOK, OnTheWay, Service, LockOK, Allocating
<1> QED
  BY <1>1, <1>3, <1>4, <1>5, <1>6, <1>7, MoveService

LEMMA MallocUnlockService ==
  ASSUME NoIntOverflow, Service, NEW t \in Threads, MallocUnlock(t)
  PROVE  Service'
<1>1. IInv' /\ pc[t] = "unlock" /\ UNCHANGED <<regions, unlinked, cur, handle, bufs>>
  BY MallocUnlockPreserves DEF Service, MallocUnlock
<1>2. pc'[t] = "return" /\ \A u \in Threads : u # t => pc'[u] = pc[u]
  BY DEF Service, IInv, TypeOK, MallocUnlock
<1>3. \A u \in Threads : u # t => pc[u] \notin Allocating \cup {"unlock"}
  BY <1>1, Excluded DEF Service
<1>4. NewRegionOK(t)' /\ OnTheWay(t)' /\ unlinked' \in {0, Len(regions)}
      /\ pc'[t] \notin Allocating \cup {"unlock"}
  BY <1>1, <1>2 DEF NewRegionOK, OnTheWay, Service, LockOK, Allocating
<1> QED
  BY <1>1, <1>2, <1>3, <1>4, MoveService

LEMMA MallocReturnService ==
  ASSUME NoIntOverflow, Service, NEW t \in Threads, MallocReturn(t)
  PROVE  Service'
<1>1. IInv' /\ pc[t] = "return" /\ handle[t] \in Handles
  BY MallocReturnPreserves DEF Service, IInv, ThreadsOK, ThreadOK, MallocReturn
<1>2. \A u \in Threads : u # t => handle[u] # handle[t]
  BY <1>1, HandleFree DEF Service
<1>3. \A u \in Threads : u # t => /\ pc'[u] = pc[u] /\ cur'[u] = cur[u]
                                  /\ handle'[u] = handle[u]
                                  /\ handle[u] # None => bufs'[handle[u]] = bufs[handle[u]]
  BY <1>2 DEF Service, IInv, TypeOK, MallocReturn
<1>4. \A g \in Backed : bufs'[g].rec = bufs[g].rec /\ bufs'[g].reg = bufs[g].reg
  <2> SUFFICES ASSUME NEW g \in Backed
               PROVE  bufs'[g].rec = bufs[g].rec /\ bufs'[g].reg = bufs[g].reg
    OBVIOUS
  <2>1. g \in Handles /\ bufs[g] \in Buffer /\ bufs \in [Handles -> Buffer]
    BY DEF Backed, Service, IInv, TypeOK
  <2>2. CASE g = handle[t]
    BY <2>1, <2>2 DEF MallocReturn, Buffer
  <2>3. CASE g # handle[t]
    BY <2>1, <2>3 DEF MallocReturn
  <2> QED
    BY <2>2, <2>3
<1>5. pc'[t] = "idle" /\ UNCHANGED <<regions, unlinked, regions_lock>>
  BY DEF Service, IInv, TypeOK, MallocReturn
<1>6. NewRegionOK(t)' /\ OnTheWay(t)' /\ unlinked' \in {0, Len(regions)}
      /\ pc'[t] \notin Allocating \cup {"unlock"}
  BY <1>5 DEF NewRegionOK, OnTheWay, Service, LockOK, Allocating
<1>7. \A u \in Threads : pc[u] \in Allocating \cup {"unlock"} => regions_lock' = u
  BY <1>5 DEF Service, LockOK
<1> QED
  BY <1>1, <1>3, <1>4, <1>5, <1>6, <1>7, MoveService

LEMMA FreeService ==
  ASSUME NoIntOverflow, Service, NEW t \in Threads, NEW h \in Handles, Free(t, h)
  PROVE  Service'
<1>1. IInv' /\ bufs[h].st = "held" /\ bufs[h].rec # None
  BY FreePreserves DEF Service, IInv, HandlesOK, Free
<1>2. \A u \in Threads : u # t => handle[u] # h
  BY <1>1, HandleFree DEF Service
<1>3. \A u \in Threads : u # t => /\ pc'[u] = pc[u] /\ cur'[u] = cur[u]
                                  /\ handle'[u] = handle[u]
                                  /\ handle[u] # None => bufs'[handle[u]] = bufs[handle[u]]
  BY <1>2 DEF Service, IInv, TypeOK, Free
<1>4. \A g \in Handles : bufs'[g].rec = bufs[g].rec /\ bufs'[g].reg = bufs[g].reg
  <2> SUFFICES ASSUME NEW g \in Handles
               PROVE  bufs'[g].rec = bufs[g].rec /\ bufs'[g].reg = bufs[g].reg
    OBVIOUS
  <2>1. bufs[g] \in Buffer /\ bufs \in [Handles -> Buffer]
    BY DEF Service, IInv, TypeOK
  <2>2. CASE g = h
    BY <2>1, <2>2 DEF Free, Buffer
  <2>3. CASE g # h
    BY <2>1, <2>3 DEF Free
  <2> QED
    BY <2>2, <2>3
<1>5. /\ pc'[t] = "free" /\ cur'[t] = 1 /\ handle'[t] = h
      /\ UNCHANGED <<regions, unlinked, regions_lock>>
  BY DEF Service, IInv, TypeOK, Free
<1>6. OnTheWay(t)'
  <2>1. bufs[h].reg \in 1..Len(regions)
    BY <1>1 DEF Service, IInv, BuffersBacked, Backed
  <2> QED
    BY <2>1, <1>4, <1>5 DEF OnTheWay
<1>7. NewRegionOK(t)' /\ unlinked' \in {0, Len(regions)}
      /\ pc'[t] \notin Allocating \cup {"unlock"}
  BY <1>5 DEF NewRegionOK, Service, LockOK, Allocating
<1>8. \A u \in Threads : pc[u] \in Allocating \cup {"unlock"} => regions_lock' = u
  BY <1>5 DEF Service, LockOK
<1> QED
  BY <1>1, <1>3, <1>4, <1>5, <1>6, <1>7, <1>8, MoveService DEF Backed

LEMMA LinkRegionService ==
  ASSUME NoIntOverflow, Service, NEW t \in Threads, LinkRegion(t)
  PROVE  Service'
<1>1. /\ IInv' /\ pc[t] = "linked" /\ NewRegionOK(t)
      /\ UNCHANGED <<regions, regions_lock, handle, bufs>> /\ unlinked' = 0
  BY LinkRegionPreserves DEF Service, LinkRegion
<1>2. /\ pc'[t] \in {"append_new", "reuse_new"} /\ cur'[t] = Len(regions)
      /\ pc'[t] = "reuse_new" => Strategy # "WASTEFUL"
      /\ \A u \in Threads : u # t => pc'[u] = pc[u] /\ cur'[u] = cur[u]
  BY DEF Service, IInv, TypeOK, LinkRegion
<1>3. NewRegionOK(t)' /\ OnTheWay(t)'
  BY <1>1, <1>2 DEF NewRegionOK, OnTheWay
<1>4. \A u \in Threads : pc[u] \in Allocating \cup {"unlock"} => regions_lock' = u
  BY <1>1 DEF Service, LockOK
<1>5. pc[t] \in Allocating /\ pc'[t] \notin {"assert_failed", "wild_pointer"}
  BY <1>1, <1>2 DEF Allocating
<1> QED
  BY <1>1, <1>2, <1>3, <1>4, <1>5, MoveService

\* The request of a thread is served by a record that was not allocated before.
LEMMA ServeService ==
  ASSUME Service, IInv', NEW t \in Threads,
         pc[t] \in {"append", "reuse", "append_new", "reuse_new"},
         NEW N, NEW c \in Chunks, RegionOK(N), Spanned(N),
         N.base = regions[cur[t]].base, N.size = regions[cur[t]].size,
         \A d \in Chunks \ N.free : N.chunk[d].alloc =>
            d = c \/ (d \notin regions[cur[t]].free /\ regions[cur[t]].chunk[d].alloc),
         Serve(t, N, c), UNCHANGED <<unlinked, regions_lock, handle>>
  PROVE  Service'
<1> DEFINE r == cur[t]
           h == handle[t]
<1>1. /\ r \in 1..Len(regions) /\ h \in Handles /\ bufs[h].rec = None
      /\ pc[t] \in Allocating
  BY DEF Service, IInv, ThreadsOK, ThreadOK, Allocating
<1>2. /\ Len(regions') = Len(regions) /\ regions'[r] = N
      /\ \A s \in 1..Len(regions) : s # r => regions'[s] = regions[s]
  BY <1>1, ReplaceRegion DEF Service, IInv, Serve
<1>3. /\ pc'[t] = "unlock" /\ cur' = cur
      /\ \A u \in Threads : u # t => pc'[u] = pc[u]
  BY DEF Service, IInv, TypeOK, Serve
<1>4. \A g \in Handles : g # h => bufs'[g] = bufs[g]
  BY <1>1 DEF Service, IInv, TypeOK, Serve
<1>5. bufs'[h].reg = r /\ bufs'[h].rec = c
  <2>1. bufs[h] \in Buffer /\ bufs \in [Handles -> Buffer]
    BY <1>1 DEF Service, IInv, TypeOK
  <2> QED
    BY <1>1, <2>1 DEF Serve, Buffer
<1>6. \A u \in Threads : u # t => pc[u] \notin Allocating \cup {"unlock"} /\ handle[u] # h
  BY <1>1, Excluded, HandleFree DEF Service
<1>7. LockOK'
  BY <1>1, <1>2, <1>3 DEF Service, LockOK, Allocating
<1>8. \A u \in Threads : NewRegionOK(u)'
  <2> SUFFICES ASSUME NEW u \in Threads, pc'[u] \in {"linked", "append_new", "reuse_new"}
               PROVE  FALSE
    BY DEF NewRegionOK
  <2> QED
    BY <1>3, <1>6 DEF Allocating
<1>9. \A u \in Threads : OnTheWay(u)'
  <2> SUFFICES ASSUME NEW u \in Threads, pc'[u] = "free" PROVE OnTheWay(u)'
    BY DEF OnTheWay
  <2>1. u # t /\ pc[u] = "free" /\ handle[u] \in Handles /\ OnTheWay(u)
    BY <1>3 DEF Service, IInv, ThreadsOK, ThreadOK
  <2> QED
    BY <2>1, <1>3, <1>4, <1>6 DEF OnTheWay
<1>10. RegionsSpanned'
  BY <1>2 DEF Service, RegionsSpanned
<1>11. NoLeak'
  <2> SUFFICES ASSUME NEW s \in 1..Len(regions'), NEW d \in Chunks \ regions'[s].free,
                      regions'[s].chunk[d].alloc
               PROVE  \E g \in Handles : /\ bufs'[g].rec # None
                                         /\ bufs'[g].reg = s /\ bufs'[g].rec = d
    BY DEF NoLeak, Backed
  <2>1. CASE s = r /\ d = c
    BY <2>1, <1>1, <1>5, NoneAssumption
  <2>2. CASE ~(s = r /\ d = c)
    <3>1. /\ s \in 1..Len(regions) /\ d \in Chunks \ regions[s].free
          /\ regions[s].chunk[d].alloc
      BY <2>2, <1>2
    <3>2. PICK g \in Backed : bufs[g].reg = s /\ bufs[g].rec = d
      BY <3>1 DEF Service, NoLeak
    <3>3. g \in Handles /\ g # h /\ bufs[g].rec # None
      BY <3>2, <1>1 DEF Backed
    <3> QED
      BY <3>2, <3>3, <1>4
  <2> QED
    BY <2>1, <2>2
<1>12. NoFailure'
  BY <1>3 DEF Service, NoFailure
<1> QED
  BY <1>7, <1>8, <1>9, <1>10, <1>11, <1>12 DEF Service

\* An attempt on a region that failed: the region was not made for the request.
LEMMA FailService ==
  ASSUME Service, IInv', NEW t \in Threads,
         UNCHANGED <<regions, bufs, unlinked, regions_lock, handle>>,
         pc[t] \in {"append", "reuse", "append_new", "reuse_new"},
         \/ pc[t] \in {"append", "reuse"} /\ RegionFailed(t)
         \/ pc[t] = "append" /\ pc' = [pc EXCEPT ![t] = "reuse"] /\ UNCHANGED cur
         \/ pc[t] = "reuse" /\ pc' = [pc EXCEPT ![t] = "append"] /\ UNCHANGED cur
         \/ pc[t] = "reuse_new" /\ pc' = [pc EXCEPT ![t] = "append_new"] /\ UNCHANGED cur
  PROVE  Service'
<1>1. \A u \in Threads : u # t => pc'[u] = pc[u] /\ cur'[u] = cur[u]
  BY DEF Service, IInv, TypeOK, RegionFailed, Try
<1>2. \/ pc'[t] \in {"append", "reuse", "newregion"}
      \/ pc[t] = "reuse_new" /\ pc'[t] = "append_new" /\ cur'[t] = cur[t]
  <2>1. CASE pc[t] \in {"append", "reuse"} /\ RegionFailed(t)
    BY <2>1 DEF Service, IInv, TypeOK, RegionFailed, Try, FirstTry
  <2>2. CASE ~(pc[t] \in {"append", "reuse"} /\ RegionFailed(t))
    BY <2>2 DEF Service, IInv, TypeOK
  <2> QED
    BY <2>1, <2>2
<1>3. NewRegionOK(t)' /\ OnTheWay(t)' /\ pc'[t] \notin {"assert_failed", "wild_pointer"}
  BY <1>2 DEF NewRegionOK, OnTheWay, Service
<1>4. \A u \in Threads : pc[u] \in Allocating \cup {"unlock"} => regions_lock' = u
  BY DEF Service, LockOK
<1>5. pc[t] \in Allocating /\ unlinked' \in {0, Len(regions)}
  BY DEF Allocating, Service, LockOK
<1> QED
  BY <1>1, <1>3, <1>4, <1>5, MoveService

LEMMA AppendChunkService ==
  ASSUME NoIntOverflow, Service, NEW t \in Threads, AppendChunk(t)
  PROVE  Service'
<1> DEFINE R == regions[cur[t]]
           size == bufs[handle[t]].size
<1>1. /\ cur[t] \in 1..Len(regions) /\ size \in Sizes /\ pc[t] \in {"append", "append_new"}
      /\ UNCHANGED <<unlinked, regions_lock, handle>>
  BY DEF Service, IInv, ThreadsOK, ThreadOK, Allocating, AppendChunk
<1>2. RegionOK(R) /\ Spanned(R) /\ IInv'
  BY <1>1, AppendChunkPreserves DEF Service, IInv, RegionsOK, RegionsSpanned
<1>3. CASE CanAppend(R, size) /\ \E c \in R.free : Serve(t, append_new_chunk(R, size, c), c)
  <2>1. PICK c \in R.free : Serve(t, append_new_chunk(R, size, c), c)
    BY <1>3
  <2> DEFINE N == append_new_chunk(R, size, c)
  <2>2. /\ RegionOK(N) /\ N.base = R.base /\ N.size = R.size /\ N.free = R.free \ {c}
        /\ \A d \in Chunks \ R.free : d # R.last => N.chunk[d] = R.chunk[d]
        /\ N.last = R.last
    BY <1>1, <1>2, <1>3, AppendOK
  <2>3. Spanned(N)
    BY <1>1, <1>2, <1>3, AppendSpanned
  <2>4. c \in Chunks
    BY <1>2 DEF RegionOK, Region
  <2> HIDE DEF N
  <2>5. ~N.chunk[R.last].alloc
    BY <2>2 DEF RegionOK, SentinelOK
  <2>6. \A d \in Chunks \ N.free : N.chunk[d].alloc =>
           d = c \/ (d \notin R.free /\ R.chunk[d].alloc)
    BY <2>2, <2>5
  <2>7. Serve(t, N, c)
    BY <2>1 DEF N
  <2> QED
    BY <1>1, <1>2, <2>2, <2>3, <2>4, <2>6, <2>7, ServeService
<1>4. CASE /\ ~CanAppend(R, size)
           /\ IF Strategy = "WASTEFUL"
              THEN /\ pc' = [pc EXCEPT ![t] = IF pc[t] = "append" THEN "reuse" ELSE "reuse_new"]
                   /\ UNCHANGED cur
              ELSE RegionFailed(t)
           /\ UNCHANGED <<regions, bufs>>
  <2>1. pc[t] = "append"
    BY <1>1, <1>4, NewRegionServes
  <2>2. \/ RegionFailed(t)
        \/ pc' = [pc EXCEPT ![t] = "reuse"] /\ UNCHANGED cur
    BY <1>4, <2>1
  <2> QED
    BY <1>1, <1>2, <1>4, <2>1, <2>2, FailService
<1> QED
  BY <1>3, <1>4 DEF AppendChunk

LEMMA ReuseChunkService ==
  ASSUME NoIntOverflow, Service, NEW t \in Threads, ReuseChunk(t)
  PROVE  Service'
<1> DEFINE R == regions[cur[t]]
           size == bufs[handle[t]].size
<1>1. /\ cur[t] \in 1..Len(regions) /\ size \in Sizes /\ pc[t] \in {"reuse", "reuse_new"}
      /\ UNCHANGED <<unlinked, regions_lock, handle>>
  BY DEF Service, IInv, ThreadsOK, ThreadOK, Allocating, ReuseChunk
<1>2. RegionOK(R) /\ Spanned(R) /\ IInv'
  BY <1>1, ReuseChunkPreserves DEF Service, IInv, RegionsOK, RegionsSpanned
<1>3. CASE \E i \in 1..Len(R.chunks) :
              FirstFit(R, size, i) /\ Serve(t, reuse_chunk(R, i), R.chunks[i])
  <2>1. PICK i \in 1..Len(R.chunks) :
              FirstFit(R, size, i) /\ Serve(t, reuse_chunk(R, i), R.chunks[i])
    BY <1>3
  <2> DEFINE N == reuse_chunk(R, i)
             c == R.chunks[i]
  <2>2. c # R.last
    BY <2>1 DEF FirstFit, Reusable
  <2> HIDE DEF R
  <2>a. TRUE \in BOOLEAN
    OBVIOUS
  <2>3. /\ RegionOK(N) /\ N.base = R.base /\ N.size = R.size /\ N.free = R.free
        /\ \A d \in Chunks : d # c => N.chunk[d] = R.chunk[d]
    BY <1>2, <2>2, MarkOK DEF reuse_chunk
  <2>4. Spanned(N)
    <3>1. Spanned(R) => Spanned([R EXCEPT !.chunk[R.chunks[i]].alloc = TRUE])
      BY <1>2, <2>2, <2>a, MarkSpanned, Zenon
    <3> QED
      BY <1>2, <3>1 DEF reuse_chunk
  <2>5. c \in Chunks
    BY <1>2, ChunkSizes
  <2> HIDE DEF N, c
  <2>6. \A d \in Chunks \ N.free : N.chunk[d].alloc =>
           d = c \/ (d \notin R.free /\ R.chunk[d].alloc)
    BY <2>3
  <2>7. Serve(t, N, c)
    BY <2>1 DEF N, c, R
  <2> QED
    BY <1>1, <1>2, <2>3, <2>4, <2>5, <2>6, <2>7, ServeService DEF R
<1>4. CASE /\ IF Strategy = "WASTEFUL"
              THEN RegionFailed(t)
              ELSE /\ pc' = [pc EXCEPT ![t] = IF pc[t] = "reuse" THEN "append" ELSE "append_new"]
                   /\ UNCHANGED cur
           /\ UNCHANGED <<regions, bufs>>
  <2>1. pc[t] = "reuse_new" => Strategy # "WASTEFUL"
    BY DEF Service, NewRegionOK
  <2>2. CASE Strategy = "WASTEFUL"
    BY <1>1, <1>2, <1>4, <2>1, <2>2, FailService
  <2>3. CASE Strategy # "WASTEFUL"
    <3>1. \/ pc[t] = "reuse" /\ pc' = [pc EXCEPT ![t] = "append"] /\ UNCHANGED cur
          \/ pc[t] = "reuse_new" /\ pc' = [pc EXCEPT ![t] = "append_new"] /\ UNCHANGED cur
      BY <1>1, <1>4, <2>3
    <3> QED
      BY <1>1, <1>2, <1>4, <3>1, FailService
  <2> QED
    BY <2>2, <2>3
<1> QED
  BY <1>3, <1>4 DEF ReuseChunk

\* A new region is one chunk from an aligned address to its end.
LEMMA InitRegionSpanned ==
  ASSUME NEW a \in Nat, NEW size \in Nat, NEW c \in Chunks
  PROVE  LET N == init_mem_region(AlignUp(a), size, c) IN
         /\ Spanned(N) /\ CoalescedRegion(N) /\ Len(N.chunks) = 1
         /\ N.free # {} /\ N.size = size
         /\ \A d \in Chunks \ N.free : ~N.chunk[d].alloc
<1> DEFINE N == init_mem_region(AlignUp(a), size, c)
<1>1. AlignUp(AlignUp(a)) = AlignUp(a) /\ AlignUp(a) \in Nat
  BY AlignUpAligned, AlignUpBounds
<1>2. /\ N.chunks = <<c>> /\ N.free = Chunks \ {c} /\ N.base = AlignUp(a) /\ N.size = size
      /\ N.chunk[c] = [start |-> AlignUp(a), size |-> size, alloc |-> FALSE]
  BY DEF init_mem_region
<1> HIDE DEF N
<1>3. Len(N.chunks) = 1 /\ At(N, 1) = [start |-> AlignUp(a), size |-> size, alloc |-> FALSE]
  BY <1>2 DEF At
<1>4. Spanned(N)
  <2>1. At(N, 1).start = AlignUp(a) /\ End(At(N, 1)) = AlignUp(a) + size
    BY <1>3 DEF End
  <2> QED
    BY <1>1, <1>2, <1>3, <2>1 DEF Spanned
<1>5. CoalescedRegion(N)
  BY <1>3 DEF CoalescedRegion
<1>6. N.free # {}
  <2> SUFFICES ASSUME Chunks \ {c} = {} PROVE FALSE
    BY <1>2
  <2>1. Chunks = {c}
    OBVIOUS
  <2>2. Cardinality({c}) = 1
    BY FS_Singleton
  <2> QED
    BY <2>1, <2>2, ChunksAssumption
<1>7. \A d \in Chunks \ N.free : ~N.chunk[d].alloc
  BY <1>2
<1> QED
  BY <1>2, <1>3, <1>4, <1>5, <1>6, <1>7 DEF N

\* posix_memalign returns an aligned address.
LEMMA MemalignAligned ==
  ASSUME TypeOK
  PROVE  \E a \in Nat : posix_memalign = AlignUp(a)
<1> DEFINE top == IF regions = <<>> THEN 0
                  ELSE regions[Len(regions)].base + regions[Len(regions)].size
<1>1. top \in Nat
  <2>1. CASE regions = <<>>
    BY <2>1
  <2>2. CASE regions # <<>>
    <3>1. regions[Len(regions)] \in Region
      BY <2>2, EmptySeq DEF TypeOK
    <3> QED
      BY <2>2, <3>1 DEF Region
  <2> QED
    BY <2>1, <2>2
<1>2. posix_memalign = AlignUp(top + HeapGap)
  BY DEF posix_memalign
<1> HIDE DEF top
<1>3. top + HeapGap \in Nat
  BY <1>1, HeapAssumption
<1> QED
  BY <1>2, <1>3

\* What NewRegion puts at the end of the list.
LEMMA NewRegionEffect ==
  ASSUME NoIntOverflow, Service, NEW t \in Threads, NewRegion(t)
  PROVE  \E N : /\ Len(regions') = Len(regions) + 1
                /\ \A r \in 1..Len(regions) : regions'[r] = regions[r]
                /\ regions'[Len(regions) + 1] = N
                /\ Spanned(N) /\ CoalescedRegion(N) /\ Len(N.chunks) = 1
                /\ N.free # {} /\ N.size >= bufs[handle[t]].size
                /\ \A d \in Chunks \ N.free : ~N.chunk[d].alloc
<1>1. PICK size \in {region_size(bufs[handle[t]].size), bufs[handle[t]].size}, c \in Chunks :
         regions' = Append(regions, init_mem_region(posix_memalign, size, c))
  BY DEF NewRegion
<1>2. bufs[handle[t]].size \in Nat
  BY SizesAssumption DEF Service, IInv, ThreadsOK, ThreadOK, Allocating, NewRegion
<1>3. size \in Nat /\ size >= bufs[handle[t]].size
  <2> DEFINE s == bufs[handle[t]].size
  <2>1. region_size(s) \in Nat
    BY <1>2, RegionSizeNat
  <2>2. region_size(s) = s \/ region_size(s) > s
    BY DEF region_size
  <2> HIDE DEF s
  <2>3. region_size(s) >= s /\ s >= s
    BY <1>2, <2>1, <2>2 DEF s
  <2> QED
    BY <1>1, <1>2, <2>1, <2>3 DEF s
<1>4. PICK a \in Nat : posix_memalign = AlignUp(a)
  BY MemalignAligned DEF Service, IInv
<1> DEFINE N == init_mem_region(posix_memalign, size, c)
<1>5. /\ Spanned(N) /\ CoalescedRegion(N) /\ Len(N.chunks) = 1
      /\ N.free # {} /\ N.size = size
      /\ \A d \in Chunks \ N.free : ~N.chunk[d].alloc
  BY <1>3, <1>4, InitRegionSpanned
<1>6. RegionOK(N)
  <2>1. posix_memalign \in Nat
    BY MemalignApart DEF Service, IInv
  <2>2. size < IntHalf
    <3>1. bufs[handle[t]].size \in Sizes /\ Align \in Nat \ {0} /\ IntHalf \in Nat
      BY AlignAssumption, WidthAssumption
         DEF Service, IInv, ThreadsOK, ThreadOK, Allocating, NewRegion
    <3> QED
      BY <1>1, <1>2, <3>1 DEF NoIntOverflow
  <2> QED
    BY <1>3, <2>1, <2>2, InitRegionOK
<1> HIDE DEF N
<1>7. /\ Len(regions') = Len(regions) + 1 /\ regions'[Len(regions) + 1] = N
      /\ \A r \in 1..Len(regions) : regions'[r] = regions[r]
  <2>1. regions \in Seq(Region) /\ N \in Region
    BY <1>6 DEF Service, IInv, TypeOK, RegionOK
  <2>2. regions' = Append(regions, N)
    BY <1>1 DEF N
  <2> QED
    BY <2>1, <2>2, AppendProperties
<1> QED
  BY <1>3, <1>5, <1>7

LEMMA NewRegionService ==
  ASSUME NoIntOverflow, Service, NEW t \in Threads, NewRegion(t)
  PROVE  Service'
<1> DEFINE n == Len(regions)
<1>1. PICK N : /\ Len(regions') = n + 1
               /\ \A r \in 1..n : regions'[r] = regions[r]
               /\ regions'[n + 1] = N
               /\ Spanned(N) /\ Len(N.chunks) = 1
               /\ N.free # {} /\ N.size >= bufs[handle[t]].size
               /\ \A d \in Chunks \ N.free : ~N.chunk[d].alloc
  BY NewRegionEffect
<1>2. /\ IInv' /\ pc[t] = "newregion" /\ unlinked' = n + 1 /\ n \in Nat
      /\ UNCHANGED <<regions_lock, cur, handle, bufs>>
  <2>1. IInv'
    BY NewRegionPreserves DEF Service
  <2>2. n \in Nat
    BY LenProperties DEF Service, IInv, TypeOK
  <2> QED
    BY <2>1, <2>2 DEF NewRegion
<1>3. pc'[t] = "linked" /\ \A u \in Threads : u # t => pc'[u] = pc[u]
  BY DEF Service, IInv, TypeOK, NewRegion
<1>4. \A u \in Threads : u # t => pc[u] \notin Allocating \cup {"unlock"}
  BY <1>2, Excluded DEF Service, Allocating
<1> HIDE DEF n
<1>5. LockOK'
  <2>1. pc[t] \in Allocating
    BY <1>2 DEF Allocating
  <2> QED
    BY <2>1, <1>1, <1>2, <1>3, <1>4 DEF Service, LockOK
<1>6. \A u \in Threads : NewRegionOK(u)'
  <2> SUFFICES ASSUME NEW u \in Threads, pc'[u] \in {"linked", "append_new", "reuse_new"}
               PROVE  NewRegionOK(u)'
    BY DEF NewRegionOK
  <2>1. u = t
    BY <1>3, <1>4 DEF Allocating
  <2> QED
    BY <2>1, <1>1, <1>2, <1>3 DEF NewRegionOK
<1>7. \A u \in Threads : OnTheWay(u)'
  BY <1>2, <1>3 DEF Service, OnTheWay
<1>8. \A r \in 1..(n + 1) : r \in 1..n \/ r = n + 1
  BY <1>2
<1>9. RegionsSpanned'
  BY <1>1, <1>8 DEF Service, RegionsSpanned, n
<1>10. NoLeak'
  BY <1>1, <1>2, <1>8 DEF Service, NoLeak, Backed, n
<1>11. NoFailure'
  BY <1>3 DEF Service, NoFailure
<1> QED
  BY <1>2, <1>5, <1>6, <1>7, <1>9, <1>10, <1>11 DEF Service

LEMMA FreeInRegionService ==
  ASSUME NoIntOverflow, Service, NEW t \in Threads, FreeInRegion(t)
  PROVE  Service'
<1> DEFINE r == cur[t]
           R == regions[r]
           h == handle[t]
<1>1. /\ pc[t] = "free" /\ r \in 1..Len(regions) /\ h \in Handles /\ bufs[h].st = "freeing"
      /\ RegionOK(R) /\ Spanned(R) /\ UNCHANGED <<unlinked, regions_lock>>
      /\ IInv /\ IInv' /\ OnTheWay(t)
  BY FreeInRegionPreserves
     DEF Service, IInv, ThreadsOK, ThreadOK, FreeInRegion, RegionsOK, RegionsSpanned
<1>2. \A u \in Threads : u # t => handle[u] # h
  BY <1>1, HandleFree
<1>3. ASSUME NEW i \in 1..Len(R.chunks), NEW order \in EvalOrders,
             FoundAt(R, bufs[h].addr, i),
             regions' = [regions EXCEPT ![r] = free_chunk(R, i, order)],
             bufs' = [bufs EXCEPT ![h] = NoBuffer],
             handle' = [handle EXCEPT ![t] = None],
             cur' = [cur EXCEPT ![t] = 0],
             pc' = [pc EXCEPT ![t] = "idle"]
      PROVE  Service'
  <2> DEFINE N == free_chunk(R, i, order)
  <2>1. /\ h \in Backed /\ bufs[h].reg = r /\ bufs[h].rec = R.chunks[i]
        /\ R.chunks[i] # R.last
    BY <1>1, <1>3, FoundIsBacking DEF FoundAt
  <2>2. /\ RegionOK(N) /\ N.base = R.base /\ N.size = R.size
        /\ \A d \in Chunks \ N.free : N.chunk[d].alloc =>
             d # R.chunks[i] /\ d \notin R.free /\ R.chunk[d].alloc
    BY <1>1, <2>1, FreeOK
  <2>3. Spanned(N)
    BY <1>1, <2>1, FreeSpanned
  <2> HIDE DEF N
  <2>4. /\ Len(regions') = Len(regions) /\ regions'[r] = N
        /\ \A s \in 1..Len(regions) : s # r => regions'[s] = regions[s]
    BY <1>1, <1>3, <2>2, ReplaceRegion DEF IInv, N
  <2> HIDE DEF h, R, r
  <2>5. \A g \in Handles : g # h => bufs'[g] = bufs[g]
    BY <1>1, <1>3 DEF IInv, TypeOK
  <2>6. /\ pc'[t] = "idle"
        /\ \A u \in Threads : u # t => /\ pc'[u] = pc[u] /\ cur'[u] = cur[u]
                                       /\ handle'[u] = handle[u]
    BY <1>1, <1>3 DEF IInv, TypeOK
  <2>7. LockOK'
    BY <1>1, <2>4, <2>6 DEF Service, LockOK, Allocating
  <2>8. \A u \in Threads : NewRegionOK(u)'
    <3> SUFFICES ASSUME NEW u \in Threads, pc'[u] \in {"linked", "append_new", "reuse_new"}
                 PROVE  NewRegionOK(u)'
      BY DEF NewRegionOK
    <3>1. u # t /\ pc[u] = pc'[u] /\ handle[u] \in Handles /\ NewRegionOK(u)
      BY <2>6 DEF Service, IInv, ThreadsOK, ThreadOK, Allocating
    <3>2. r # Len(regions)
      <4> SUFFICES ASSUME r = Len(regions) PROVE FALSE
        OBVIOUS
      <4>1. Len(R.chunks) = 1
        BY <3>1 DEF NewRegionOK, R
      <4>2. i = 1 /\ R.chunks[1] = R.last
        BY <4>1, <1>1, Positions
      <4> QED
        BY <4>2, <2>1
    <3>3. Len(regions) \in 1..Len(regions)
      <4>1. Len(regions) \in Nat /\ r \in 1..Len(regions)
        BY <1>1 DEF IInv, TypeOK
      <4> QED
        BY <4>1
    <3> QED
      BY <3>1, <3>2, <3>3, <1>2, <2>4, <2>5, <2>6 DEF NewRegionOK
  <2>9. \A u \in Threads : OnTheWay(u)'
    <3> SUFFICES ASSUME NEW u \in Threads, pc'[u] = "free" PROVE OnTheWay(u)'
      BY DEF OnTheWay
    <3>1. u # t /\ pc[u] = "free" /\ handle[u] \in Handles /\ OnTheWay(u)
      BY <2>6 DEF Service, IInv, ThreadsOK, ThreadOK
    <3> QED
      BY <3>1, <1>2, <2>5, <2>6 DEF OnTheWay
  <2>10. RegionsSpanned'
    BY <2>3, <2>4 DEF Service, RegionsSpanned
  <2>11. NoLeak'
    <3> SUFFICES ASSUME NEW s \in 1..Len(regions'), NEW d \in Chunks \ regions'[s].free,
                        regions'[s].chunk[d].alloc
                 PROVE  \E g \in Handles : /\ bufs'[g].rec # None
                                           /\ bufs'[g].reg = s /\ bufs'[g].rec = d
      BY DEF NoLeak, Backed
    <3>1. /\ s \in 1..Len(regions) /\ d \in Chunks \ regions[s].free
          /\ regions[s].chunk[d].alloc
          /\ ~(s = r /\ d = R.chunks[i])
      BY <2>2, <2>4 DEF R
    <3>2. PICK g \in Backed : bufs[g].reg = s /\ bufs[g].rec = d
      BY <3>1 DEF Service, NoLeak
    <3>3. g \in Handles /\ g # h /\ bufs[g].rec # None
      BY <3>1, <3>2, <2>1 DEF Backed
    <3> QED
      BY <3>2, <3>3, <2>5
  <2>12. NoFailure'
    BY <2>6 DEF Service, NoFailure
  <2> QED
    BY <1>1, <2>7, <2>8, <2>9, <2>10, <2>11, <2>12 DEF Service
<1>4. CASE /\ \A i \in 1..Len(R.chunks) : At(R, i).start # bufs[h].addr
           /\ cur' = [cur EXCEPT ![t] = cur[t] + 1]
           /\ pc' = [pc EXCEPT ![t] = IF cur[t] = unlinked THEN "wild_pointer"
                                      ELSE IF cur[t] = Len(regions) THEN "assert_failed"
                                      ELSE "free"]
           /\ UNCHANGED <<regions, bufs, handle>>
  <2> DEFINE q == bufs[h].reg
  <2>1. /\ q \in 1..Len(regions) /\ bufs[h].rec \in Chunks \ regions[q].free
        /\ bufs[h].addr = regions[q].chunk[bufs[h].rec].start
    BY <1>1 DEF IInv, HandlesOK, BuffersBacked, Backed, Backing
  <2>2. PICK j \in 1..Len(regions[q].chunks) : regions[q].chunks[j] = bufs[h].rec
    BY <2>1, Position DEF Service, IInv, RegionsOK
  <2>3. q # r
    BY <1>4, <2>1, <2>2 DEF At
  <2>4. r <= q /\ Len(regions) \in Nat
    BY <1>1 DEF OnTheWay, IInv, TypeOK
  <2>5. r + 1 <= q /\ r # Len(regions) /\ r # 0
    BY <1>1, <2>1, <2>3, <2>4
  <2>6. r # unlinked
    BY <2>5 DEF Service, LockOK
  <2>7. /\ pc'[t] = "free" /\ cur'[t] = r + 1
        /\ \A u \in Threads : u # t => pc'[u] = pc[u] /\ cur'[u] = cur[u]
    BY <1>1, <1>4, <2>5, <2>6 DEF IInv, TypeOK
  <2>8. NewRegionOK(t)' /\ OnTheWay(t)' /\ pc'[t] \notin Allocating \cup {"unlock"}
    BY <1>4, <2>5, <2>7 DEF NewRegionOK, OnTheWay, Allocating
  <2>9. /\ \A u \in Threads : pc[u] \in Allocating \cup {"unlock"} => regions_lock' = u
        /\ unlinked' \in {0, Len(regions)}
    BY <1>1 DEF Service, LockOK
  <2> QED
    BY <1>1, <1>4, <2>7, <2>8, <2>9, MoveService
<1> QED
  BY <1>3, <1>4 DEF FreeInRegion

LEMMA InitService == Init => Service
<1> SUFFICES ASSUME Init PROVE Service
  OBVIOUS
<1>1. IInv
  BY InitInv
<1>2. Len(regions) = 0 /\ \A t \in Threads : pc[t] = "idle"
  BY DEF Init
<1> QED
  BY <1>1, <1>2 DEF Init, Service, LockOK, NewRegionOK, OnTheWay, RegionsSpanned, NoLeak,
                    NoFailure, Allocating

LEMMA NextService ==
  ASSUME NoIntOverflow, Service, [Next]_vars
  PROVE  Service'
<1>1. CASE UNCHANGED vars
  <2>1. IInv'
    BY NextInv DEF Service
  <2> QED
    BY <1>1, <2>1 DEF vars, Service, LockOK, NewRegionOK, OnTheWay, RegionsSpanned, NoLeak,
                      NoFailure, Backed
<1>2. ASSUME NEW t \in Threads, NEW h \in Handles, NEW size \in Sizes, Malloc(t, h, size)
      PROVE  Service'
  BY <1>2, MallocService
<1>3. ASSUME NEW t \in Threads, NEW h \in Handles, Free(t, h)
      PROVE  Service'
  BY <1>3, FreeService
<1>4. ASSUME NEW t \in Threads, Step(t)
      PROVE  Service'
  BY <1>4, AppendChunkService, ReuseChunkService, NewRegionService, LinkRegionService,
     NoMemoryService, MallocUnlockService, MallocReturnService, FreeInRegionService
     DEF Step
<1> QED
  BY <1>1, <1>2, <1>3, <1>4 DEF Next
-----------------------------------------------------------------------------
(* Merging, when the compiler reads c->next before the inner merge.         *)

NextFirst == EvalOrders \subseteq {"next_first"}

\* One region is replaced by one without two unallocated chunks side by side.
LEMMA ReplaceCoalesced ==
  ASSUME IInv, Coalesced, NEW r \in 1..Len(regions), NEW N, CoalescedRegion(N),
         regions' = [regions EXCEPT ![r] = N]
  PROVE  Coalesced'
<1>1. /\ Len(regions') = Len(regions) /\ regions'[r] = N
      /\ \A s \in 1..Len(regions) : s # r => regions'[s] = regions[s]
  BY DEF IInv, TypeOK
<1>2. ASSUME NEW s \in 1..Len(regions) PROVE CoalescedRegion(regions'[s])
  <2>1. CASE s = r
    BY <2>1, <1>1
  <2>2. CASE s # r
    BY <2>2, <1>1 DEF Coalesced, CoalescedRegion, Apart
  <2> QED
    BY <2>1, <2>2
<1> QED
  BY <1>1, <1>2 DEF Coalesced, CoalescedRegion, Apart

LEMMA AppendChunkCoalesced ==
  ASSUME NoIntOverflow, Service, Coalesced, NEW t \in Threads, AppendChunk(t)
  PROVE  Coalesced'
<1> DEFINE R == regions[cur[t]]
           size == bufs[handle[t]].size
<1>1. /\ cur[t] \in 1..Len(regions) /\ size \in Sizes /\ RegionOK(R) /\ IInv
  BY DEF Service, IInv, ThreadsOK, ThreadOK, Allocating, AppendChunk, RegionsOK
<1>2. CASE UNCHANGED regions
  BY <1>2 DEF Coalesced
<1>3. CASE CanAppend(R, size) /\ \E c \in R.free : Serve(t, append_new_chunk(R, size, c), c)
  <2>1. PICK c \in R.free : Serve(t, append_new_chunk(R, size, c), c)
    BY <1>3
  <2>2. CoalescedRegion(R)
    BY <1>1 DEF Coalesced, CoalescedRegion, Apart
  <2>3. CoalescedRegion(append_new_chunk(R, size, c))
    BY <1>1, <1>3, <2>2, AppendSpanned
  <2>4. regions' = [regions EXCEPT ![cur[t]] = append_new_chunk(R, size, c)]
    BY <2>1 DEF Serve
  <2> HIDE DEF R, size
  <2> QED
    BY <1>1, <2>3, <2>4, ReplaceCoalesced
<1> QED
  BY <1>2, <1>3 DEF AppendChunk

LEMMA ReuseChunkCoalesced ==
  ASSUME Service, Coalesced, NEW t \in Threads, ReuseChunk(t)
  PROVE  Coalesced'
<1> DEFINE R == regions[cur[t]]
           size == bufs[handle[t]].size
<1>1. /\ cur[t] \in 1..Len(regions) /\ RegionOK(R) /\ IInv
  BY DEF Service, IInv, ThreadsOK, ThreadOK, Allocating, ReuseChunk, RegionsOK
<1>2. CASE UNCHANGED regions
  BY <1>2 DEF Coalesced
<1>3. CASE \E i \in 1..Len(R.chunks) :
              FirstFit(R, size, i) /\ Serve(t, reuse_chunk(R, i), R.chunks[i])
  <2>1. PICK i \in 1..Len(R.chunks) :
              FirstFit(R, size, i) /\ Serve(t, reuse_chunk(R, i), R.chunks[i])
    BY <1>3
  <2> DEFINE N == [R EXCEPT !.chunk[R.chunks[i]].alloc = TRUE]
  <2>2. R.chunks[i] # R.last /\ TRUE \in BOOLEAN
    BY <2>1 DEF FirstFit, Reusable
  <2>3. CoalescedRegion(R)
    BY <1>1 DEF Coalesced, CoalescedRegion, Apart
  <2>4. regions' = [regions EXCEPT ![cur[t]] = N]
    BY <2>1 DEF Serve, reuse_chunk
  <2> HIDE DEF R
  <2>5. /\ N.chunks = R.chunks
        /\ At(N, i).alloc = TRUE
        /\ \A j \in 1..Len(R.chunks) : j # i => At(N, j) = At(R, j)
    BY <1>1, <2>2, MarkSpanned, Zenon
  <2>6. Len(R.chunks) \in Nat
    BY <1>1, Positions
  <2> HIDE DEF N
  <2>7. CoalescedRegion(N)
    <3> SUFFICES ASSUME NEW j \in 1..(Len(R.chunks) - 1) PROVE Apart(N, j)
      BY <2>5 DEF CoalescedRegion
    <3>1. j \in 1..Len(R.chunks) /\ j + 1 \in 1..Len(R.chunks) /\ Apart(R, j)
      BY <2>3, <2>6 DEF CoalescedRegion
    <3>2. CASE i = j \/ i = j + 1
      BY <3>2, <2>5 DEF Apart
    <3>3. CASE i # j /\ i # j + 1
      BY <3>1, <3>3, <2>5 DEF Apart
    <3> QED
      BY <3>2, <3>3
  <2> QED
    BY <1>1, <2>4, <2>7, ReplaceCoalesced
<1> QED
  BY <1>2, <1>3 DEF ReuseChunk

LEMMA NewRegionCoalesced ==
  ASSUME NoIntOverflow, Service, Coalesced, NEW t \in Threads, NewRegion(t)
  PROVE  Coalesced'
<1> DEFINE n == Len(regions)
<1>1. /\ Len(regions') = n + 1
      /\ \A r \in 1..n : regions'[r] = regions[r]
      /\ CoalescedRegion(regions'[n + 1])
  BY NewRegionEffect
<1>2. n \in Nat
  BY LenProperties DEF Service, IInv, TypeOK
<1>3. \A r \in 1..n : CoalescedRegion(regions[r])
  BY DEF Coalesced, CoalescedRegion, Apart
<1> HIDE DEF n
<1>4. \A r \in 1..(n + 1) : CoalescedRegion(regions'[r])
  BY <1>1, <1>2, <1>3
<1> QED
  BY <1>1, <1>4 DEF Coalesced, CoalescedRegion, Apart

LEMMA FreeInRegionCoalesced ==
  ASSUME NextFirst, Service, Coalesced, NEW t \in Threads, FreeInRegion(t)
  PROVE  Coalesced'
<1> DEFINE r == cur[t]
           R == regions[r]
           h == handle[t]
<1>1. /\ pc[t] = "free" /\ r \in 1..Len(regions) /\ h \in Handles /\ bufs[h].st = "freeing"
      /\ RegionOK(R) /\ IInv
  BY DEF Service, IInv, ThreadsOK, ThreadOK, FreeInRegion, RegionsOK
<1>2. CASE UNCHANGED regions
  BY <1>2 DEF Coalesced
<1>3. ASSUME NEW i \in 1..Len(R.chunks), NEW order \in EvalOrders,
             FoundAt(R, bufs[h].addr, i),
             regions' = [regions EXCEPT ![r] = free_chunk(R, i, order)]
      PROVE  Coalesced'
  <2>1. R.chunks[i] # R.last
    BY <1>1, <1>3, FoundIsBacking DEF FoundAt
  <2>2. CoalescedRegion(R) /\ order = "next_first"
    BY <1>1 DEF Coalesced, CoalescedRegion, Apart, NextFirst
  <2>3. CoalescedRegion(free_chunk(R, i, order))
    BY <1>1, <2>1, <2>2, FreeSpanned
  <2> HIDE DEF R, r, h
  <2> QED
    BY <1>1, <1>3, <2>3, ReplaceCoalesced
<1> QED
  BY <1>2, <1>3 DEF FreeInRegion

LEMMA NextCoalesced ==
  ASSUME NoIntOverflow, NextFirst, Service, Coalesced, [Next]_vars
  PROVE  Coalesced'
<1>1. CASE UNCHANGED regions
  BY <1>1 DEF Coalesced
<1>2. ASSUME NEW t \in Threads, NEW h \in Handles, NEW size \in Sizes,
             Malloc(t, h, size) \/ Free(t, h) \/ LinkRegion(t) \/ NoMemory(t)
               \/ MallocUnlock(t) \/ MallocReturn(t)
      PROVE  UNCHANGED regions
  BY <1>2 DEF Malloc, Free, LinkRegion, NoMemory, MallocUnlock, MallocReturn
<1>3. ASSUME NEW t \in Threads, LinkRegion(t) \/ NoMemory(t) \/ MallocUnlock(t)
                                  \/ MallocReturn(t)
      PROVE  UNCHANGED regions
  BY <1>3 DEF LinkRegion, NoMemory, MallocUnlock, MallocReturn
<1>4. ASSUME NEW t \in Threads, NEW h \in Handles, Free(t, h)
      PROVE  UNCHANGED regions
  BY <1>4 DEF Free
<1>5. ASSUME NEW t \in Threads,
             AppendChunk(t) \/ ReuseChunk(t) \/ NewRegion(t) \/ FreeInRegion(t)
      PROVE  Coalesced'
  BY <1>5, AppendChunkCoalesced, ReuseChunkCoalesced, NewRegionCoalesced,
     FreeInRegionCoalesced
<1>6. ASSUME UNCHANGED vars PROVE UNCHANGED regions
  BY <1>6 DEF vars
<1> QED
  BY <1>1, <1>2, <1>3, <1>4, <1>5, <1>6 DEF Next, Step

\* With every chunk of a region unallocated and none beside another, the region is
\* its first chunk.
LEMMA RegionOneChunk ==
  ASSUME Service, Coalesced, NEW r \in 1..Len(regions), \A h \in Backed : bufs[h].reg # r
  PROVE  /\ Len(regions[r].chunks) = 1
         /\ At(regions[r], 1).start = regions[r].base
         /\ At(regions[r], 1).size = regions[r].size
<1> DEFINE R == regions[r]
           n == Len(R.chunks)
<1>1. RegionOK(R) /\ Spanned(R) /\ CoalescedRegion(R)
  BY DEF Service, IInv, RegionsOK, RegionsSpanned, Coalesced, CoalescedRegion, Apart
<1>2. \A d \in Chunks \ R.free : ~R.chunk[d].alloc
  BY DEF Service, NoLeak
<1> HIDE DEF R
<1>3. n \in Nat \ {0} /\ R.base \in Nat /\ R.size \in Nat
  BY <1>1, Positions
<1>4. \A i \in 1..n : ~At(R, i).alloc /\ At(R, i) \in Chunk
  BY <1>1, <1>2, ChunkSizes
<1> HIDE DEF n
<1>5. n = 1
  <2> SUFFICES ASSUME n # 1 PROVE FALSE
    OBVIOUS
  <2>1. 1 \in 1..(n - 1) /\ 1 \in 1..n /\ 2 \in 1..n /\ 1 + 1 = 2
    BY <1>3
  <2>2. Apart(R, 1)
    BY <1>1, <2>1 DEF CoalescedRegion, n
  <2> QED
    BY <2>1, <2>2, <1>4 DEF Apart
<1>6. At(R, 1).start = R.base /\ At(R, 1).start + At(R, 1).size = R.base + R.size
  BY <1>1, <1>5 DEF Spanned, End, n
<1>7. At(R, 1) \in Chunk
  BY <1>4, <1>5
<1>8. At(R, 1).size = R.size
  BY <1>3, <1>6, <1>7 DEF Chunk
<1> QED
  BY <1>5, <1>6, <1>8 DEF R, n
-----------------------------------------------------------------------------

\* The inductive invariant holds in every reachable state of the allocator.
THEOREM Invariant == ASSUME NoIntOverflow PROVE Spec => []IInv
<1>1. Init => IInv
  BY InitInv
<1>2. IInv /\ [Next]_vars => IInv'
  BY NextInv
<1> QED
  BY <1>1, <1>2, PTL DEF Spec

\* Type correctness: no address and no size of the allocator wraps around.
THEOREM TypeCorrect == ASSUME NoIntOverflow PROVE Spec => []TypeOK
<1>1. IInv => TypeOK
  BY DEF IInv
<1> QED
  BY <1>1, Invariant, PTL

\* Threads that allocate and free device buffers concurrently never hold two
\* buffers that share a byte.
THEOREM NoOverlap == ASSUME NoIntOverflow PROVE Spec => []BuffersDisjoint
BY InvDisjoint, Invariant, PTL

\* The chunk of a buffer stays its own, allocated and in place, from the moment
\* it is chosen until it is freed.
THEOREM BackingKept == ASSUME NoIntOverflow PROVE Spec => []BuffersBacked
<1>1. IInv => BuffersBacked
  BY DEF IInv
<1> QED
  BY <1>1, Invariant, PTL

\* The sentinel is the last chunk of its region and unallocated, what
\* append_new_chunk asserts and assumes.
THEOREM SentinelKept == ASSUME NoIntOverflow PROVE Spec => []SentinelIsLast
<1>1. IInv => SentinelIsLast
  BY DEF IInv, RegionsOK, RegionOK, SentinelIsLast
<1> QED
  BY <1>1, Invariant, PTL

\* No chunk record is lost or listed twice.
THEOREM RecordsKept == ASSUME NoIntOverflow PROVE Spec => []RecordsConserved
<1>1. IInv => RecordsConserved
  BY DEF IInv, RegionsOK, RegionOK, RecordsConserved
<1> QED
  BY <1>1, Invariant, PTL

\* The chunks of a region stay in order and inside the region.
THEOREM OrderKept == ASSUME NoIntOverflow PROVE Spec => []ChunksInOrder
<1>1. IInv => ChunksInOrder
  BY DEF IInv, RegionsOK, RegionOK, ChunksInOrder
<1> QED
  BY <1>1, Invariant, PTL

\* The second invariant holds in every reachable state.
THEOREM ServiceKept == ASSUME NoIntOverflow PROVE Spec => []Service
<1>1. Init => Service
  BY InitService
<1>2. Service /\ [Next]_vars => Service'
  BY NextService
<1> QED
  BY <1>1, <1>2, PTL DEF Spec

\* No assertion of the allocator fails and no free follows a next pointer that is
\* not set: an allocation always succeeds in the region that was made for it, and a
\* free finds its chunk, however the threads interleave.
THEOREM NeverFails == ASSUME NoIntOverflow PROVE Spec => []NoFailure
<1>1. Service => NoFailure
  BY DEF Service
<1> QED
  BY <1>1, ServiceKept, PTL

\* A chunk that is marked as allocated has a buffer that a client holds, waits for
\* or is giving back.
THEOREM NothingLeaks == ASSUME NoIntOverflow PROVE Spec => []NoLeak
<1>1. Service => NoLeak
  BY DEF Service
<1> QED
  BY <1>1, ServiceKept, PTL

\* The steps of a thread t that keep the lock where it is and t inside the locked
\* part, or outside it.
LEMMA LockKept ==
  ASSUME TypeOK, LockGivenBack, NEW t \in Threads, UNCHANGED regions_lock,
         NEW p, pc' = [pc EXCEPT ![t] = p], p \in Locked <=> pc[t] \in Locked
  PROVE  LockGivenBack'
BY DEF TypeOK, LockGivenBack

\* The step of a thread t that leaves the locked part and gives the lock back.
LEMMA LockReturned ==
  ASSUME TypeOK, LockGivenBack, NEW t \in Threads, regions_lock' = None, pc[t] \in Locked,
         NEW p, pc' = [pc EXCEPT ![t] = p], p \notin Locked
  PROVE  LockGivenBack'
<1>1. regions_lock = t /\ \A u \in Threads : u # t => pc[u] \notin Locked
  BY DEF LockGivenBack
<1> QED
  BY <1>1, NoneAssumption DEF TypeOK, LockGivenBack

LEMMA NextLock ==
  ASSUME NoIntOverflow, Service, LockGivenBack, [Next]_vars
  PROVE  LockGivenBack'
<1>1. TypeOK
  BY DEF Service, IInv
<1>2. CASE UNCHANGED vars
  BY <1>2 DEF vars, LockGivenBack
<1>3. ASSUME NEW t \in Threads, NEW h \in Handles, NEW size \in Sizes, Malloc(t, h, size)
      PROVE  LockGivenBack'
  <2>1. /\ regions_lock = None /\ regions_lock' = t /\ pc[t] = "idle"
        /\ \E p \in Locked : pc' = [pc EXCEPT ![t] = p]
    BY <1>3 DEF Malloc, Try, FirstTry, Locked
  <2>2. \A u \in Threads : pc[u] \notin Locked
    BY <2>1, NoneAssumption DEF LockGivenBack
  <2> QED
    BY <1>1, <2>1, <2>2 DEF TypeOK, LockGivenBack
<1>4. ASSUME NEW t \in Threads, NEW h \in Handles, Free(t, h) PROVE LockGivenBack'
  BY <1>1, <1>4, LockKept DEF Free, Locked
<1>5. ASSUME NEW t \in Threads, AppendChunk(t) \/ ReuseChunk(t) PROVE LockGivenBack'
  <2>1. pc[t] \in Locked /\ regions_lock' = regions_lock
    BY <1>5 DEF AppendChunk, ReuseChunk, Locked
  <2>2. \E p : pc' = [pc EXCEPT ![t] = p] /\ p \in Locked \cup {"assert_failed"}
    BY <1>5 DEF AppendChunk, ReuseChunk, Serve, RegionFailed, Try, FirstTry, Locked
  <2>3. pc'[t] # "assert_failed"
    BY NextService DEF Service, NoFailure
  <2> QED
    BY <1>1, <2>1, <2>2, <2>3, LockKept DEF TypeOK
<1>6. ASSUME NEW t \in Threads, NewRegion(t) \/ LinkRegion(t) PROVE LockGivenBack'
  BY <1>1, <1>6, LockKept DEF NewRegion, LinkRegion, Locked
<1>7. ASSUME NEW t \in Threads, NoMemory(t) \/ MallocUnlock(t) PROVE LockGivenBack'
  BY <1>1, <1>7, LockReturned DEF NoMemory, MallocUnlock, Locked
<1>8. ASSUME NEW t \in Threads, MallocReturn(t) \/ FreeInRegion(t) PROVE LockGivenBack'
  <2>1. pc[t] \notin Locked /\ regions_lock' = regions_lock
    BY <1>8 DEF MallocReturn, FreeInRegion, Locked
  <2>2. \E p : pc' = [pc EXCEPT ![t] = p] /\ p \notin Locked
    BY <1>8 DEF MallocReturn, FreeInRegion, Locked
  <2> QED
    BY <1>1, <2>1, <2>2, LockKept
<1> QED
  BY <1>2, <1>3, <1>4, <1>5, <1>6, <1>7, <1>8 DEF Next, Step

\* The lock of the region list is held exactly while its owner is in the locked part
\* of an allocation, however many threads allocate and free, and whether or not the
\* host has memory for a new region.
THEOREM LockReturns == ASSUME NoIntOverflow PROVE Spec => []LockGivenBack
<1>1. Init => LockGivenBack
  BY NoneAssumption DEF Init, LockGivenBack, Locked
<1>2. Service /\ LockGivenBack /\ [Next]_vars => LockGivenBack'
  BY NextLock
<1> QED
  BY <1>1, <1>2, ServiceKept, PTL DEF Spec

\* Where the compiler reads c->next before the inner merge, free_chunk leaves no two
\* unallocated chunks side by side.
THEOREM FreedMerged == ASSUME NoIntOverflow, NextFirst PROVE Spec => []Coalesced
<1>1. Init => Coalesced
  BY DEF Init, Coalesced
<1>2. Service /\ Coalesced /\ [Next]_vars => Coalesced'
  BY NextCoalesced
<1> QED
  BY <1>1, <1>2, ServiceKept, PTL DEF Spec

\* Then a region whose buffers have all been freed is one unallocated chunk again,
\* from its first byte to its last.
THEOREM RegionsReclaimed == ASSUME NoIntOverflow, NextFirst PROVE Spec => []RegionReclaimed
<1>1. Service /\ Coalesced => RegionReclaimed
  BY RegionOneChunk DEF RegionReclaimed
<1> QED
  BY <1>1, ServiceKept, FreedMerged, PTL
=============================================================================
