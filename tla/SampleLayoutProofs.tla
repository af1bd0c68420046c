------------------------- MODULE SampleLayoutProofs -------------------------
(***************************************************************************)
(* Proofs about SampleLayout, for any page size, any chunk and any number  *)
(* of samples.  The k-th sample of a chunk of n lies between the pages of  *)
(* k * R and (k + 1) * R, R being the range of a sample, which is at least *)
(* a page long.                                                            *)
(***************************************************************************)
EXTENDS SampleLayout, TLAPS

-----------------------------------------------------------------------------
(* Arithmetic.                                                             *)

\* A product with more is not less.
LEMMA TimesMono ==
  ASSUME NEW x \in Int, NEW y \in Int, NEW z \in Nat, x <= y
  PROVE  x * z <= y * z
<1> DEFINE d == y - x
<1>1. d \in Nat /\ y = x + d
  OBVIOUS
<1> HIDE DEF d
<1>2. d * z \in Nat
  BY <1>1
<1>3. y * z = x * z + d * z
  BY <1>1
<1> QED
  BY <1>1, <1>2, <1>3

\* Division with a remainder.
LEMMA DivFloor ==
  ASSUME NEW x \in Int, NEW z \in Nat \ {0}
  PROVE  /\ x \div z \in Int
         /\ x \in Nat => x \div z \in Nat
         /\ (x \div z) * z <= x
         /\ x < (x \div z) * z + z
OBVIOUS

\* The quotient is the largest number that fits.
LEMMA DivLargest ==
  ASSUME NEW x \in Nat, NEW z \in Nat \ {0}, NEW q \in Nat, q * z <= x
  PROVE  q <= x \div z
<1> DEFINE d == x \div z
<1>1. d \in Nat /\ x < d * z + z
  BY DivFloor
<1> HIDE DEF d
<1> SUFFICES ASSUME d < q PROVE FALSE
  BY <1>1 DEF d
<1>2. (d + 1) * z <= q * z
  BY <1>1, TimesMono
<1>3. (d + 1) * z = d * z + z
  BY <1>1
<1> QED
  BY <1>1, <1>2, <1>3

\* A page contains the address it is the page of.
LEMMA PageBounds ==
  ASSUME NEW a \in Nat
  PROVE  PageOf(a) \in Nat /\ PageOf(a) <= a /\ a < PageOf(a) + PAGE_SIZE
<1> DEFINE q == a \div PAGE_SIZE
<1>1. PAGE_SIZE \in Nat \ {0}
  BY LayoutAssumption
<1>2. q \in Nat /\ q * PAGE_SIZE <= a /\ a < q * PAGE_SIZE + PAGE_SIZE
  BY <1>1, DivFloor
<1>3. PageOf(a) = q * PAGE_SIZE
  BY DEF PageOf
<1> HIDE DEF q
<1>4. q * PAGE_SIZE \in Nat
  BY <1>1, <1>2
<1> QED
  BY <1>2, <1>3, <1>4

\* Pages have the order of their addresses, and a page further is a page.
LEMMA PageOrder ==
  ASSUME NEW a \in Nat, NEW b \in Nat
  PROVE  /\ a <= b => PageOf(a) <= PageOf(b)
         /\ a + PAGE_SIZE <= b => PageOf(a) + PAGE_SIZE <= PageOf(b)
<1> DEFINE p == a \div PAGE_SIZE
           q == b \div PAGE_SIZE
<1>1. PAGE_SIZE \in Nat \ {0}
  BY LayoutAssumption
<1>2. /\ p \in Nat /\ p * PAGE_SIZE <= a
      /\ q \in Nat
  BY <1>1, DivFloor
<1>3. PageOf(a) = p * PAGE_SIZE /\ PageOf(b) = q * PAGE_SIZE
  BY DEF PageOf
<1>4. p * PAGE_SIZE <= b => p <= q
  BY <1>1, <1>2, DivLargest
<1>5. (p + 1) * PAGE_SIZE <= b => p + 1 <= q
  <2>1. p + 1 \in Nat
    BY <1>2
  <2> HIDE DEF p
  <2> QED
    BY <1>1, <2>1, DivLargest
<1> HIDE DEF p, q
<1>6. (p + 1) * PAGE_SIZE = p * PAGE_SIZE + PAGE_SIZE /\ p * PAGE_SIZE \in Nat
  BY <1>1, <1>2
<1>7. ASSUME a <= b PROVE p * PAGE_SIZE <= q * PAGE_SIZE
  <2>1. p <= q
    BY <1>2, <1>4, <1>6, <1>7
  <2> QED
    BY <1>1, <1>2, <2>1, TimesMono
<1>8. ASSUME a + PAGE_SIZE <= b PROVE p * PAGE_SIZE + PAGE_SIZE <= q * PAGE_SIZE
  <2>1. p + 1 <= q
    BY <1>1, <1>2, <1>5, <1>6, <1>8
  <2>2. (p + 1) * PAGE_SIZE <= q * PAGE_SIZE
    BY <1>1, <1>2, <2>1, TimesMono
  <2> QED
    BY <1>6, <2>2
<1> QED
  BY <1>3, <1>7, <1>8

-----------------------------------------------------------------------------
(* The inductive invariant.                                                *)

\* The range of a sample, per_sample_range.
SampleRange == total_range \div n

ChunkInv ==
    /\ addr \in Nat /\ size \in Nat
    /\ n \in 1..(total_range \div PAGE_SIZE) /\ i \in 0..n

\* The samples taken so far lie before the range of the next one.
SamplesInv ==
    \A p \in samples :
        /\ p \in Nat /\ start_align(addr) <= p
        /\ p + PAGE_SIZE <= start_align(addr) + PageOf(i * SampleRange)

\* A hooked call is under way only when all samples have been taken, and it has
\* no sample where it walked.
BufferInv ==
    /\ buffer.start \in Nat /\ buffer.len \in Nat
    /\ buffer.len # 0 => /\ i = n
                         /\ samples \cap Walked(buffer.start, buffer.len) = {}

IInv == ChunkInv /\ SamplesInv /\ BufferInv

-----------------------------------------------------------------------------
(* Samples.                                                                *)

\* The aligned ends of a chunk lie inside it.
LEMMA Ends ==
  ASSUME addr \in Nat, size \in Nat
  PROVE  /\ start_align(addr) \in Nat /\ addr <= start_align(addr)
         /\ end_align(addr, size) \in Nat /\ end_align(addr, size) <= addr + size
         /\ total_range \in Int
         /\ end_align(addr, size) = start_align(addr) + total_range
<1>1. PAGE_SIZE \in Nat \ {0}
  BY LayoutAssumption
<1> DEFINE s == start_align(addr)
           e == end_align(addr, size)
<1>2. s \in Nat /\ addr <= s
  <2>1. addr + PAGE_SIZE - 1 \in Nat
    BY <1>1
  <2> DEFINE q == PageOf(addr + PAGE_SIZE - 1)
  <2>2. q \in Nat /\ addr + PAGE_SIZE - 1 < q + PAGE_SIZE
    BY <2>1, PageBounds
  <2>3. s = q
    BY DEF start_align, UPPER_PAGE_ALIGN
  <2> HIDE DEF q, s
  <2> QED
    BY <1>1, <2>2, <2>3
<1>3. e \in Nat /\ e <= addr + size
  <2>1. addr + size \in Nat
    OBVIOUS
  <2> QED
    BY <2>1, PageBounds DEF end_align, LOWER_PAGE_ALIGN
<1>4. total_range = e - s
  BY DEF total_range
<1> HIDE DEF s, e
<1>5. total_range \in Int /\ e = s + total_range
  BY <1>2, <1>3, <1>4
<1> QED
  BY <1>2, <1>3, <1>5 DEF s, e

\* The range of a sample is a page at least, and all ranges are in the chunk.
LEMMA Ranges ==
  ASSUME ChunkInv
  PROVE  /\ n \in Nat \ {0} /\ total_range \in Nat /\ SampleRange \in Nat
         /\ PAGE_SIZE <= SampleRange /\ n * SampleRange <= total_range
<1>1. PAGE_SIZE \in Nat \ {0}
  BY LayoutAssumption
<1> DEFINE T == total_range
           q == T \div PAGE_SIZE
<1>2. T \in Int
  BY Ends DEF ChunkInv
<1> HIDE DEF T
<1>3. q \in Int /\ q * PAGE_SIZE <= T
  BY <1>1, <1>2, DivFloor
<1>4. n \in 1..q
  BY DEF ChunkInv, T
<1> HIDE DEF q
<1>5. n \in Nat \ {0} /\ n <= q
  BY <1>3, <1>4
<1>6. n * PAGE_SIZE <= T
  <2>1. n * PAGE_SIZE <= q * PAGE_SIZE
    BY <1>1, <1>3, <1>5, TimesMono
  <2>2. n * PAGE_SIZE \in Int /\ q * PAGE_SIZE \in Int
    BY <1>1, <1>3, <1>5
  <2> QED
    BY <1>2, <1>3, <2>1, <2>2
<1>7. n * PAGE_SIZE \in Nat /\ n * PAGE_SIZE = PAGE_SIZE * n
  BY <1>1, <1>5
<1>8. T \in Nat
  BY <1>2, <1>6, <1>7
<1>9. PAGE_SIZE <= T \div n
  BY <1>1, <1>5, <1>6, <1>7, <1>8, DivLargest
<1>10. T \div n \in Nat /\ (T \div n) * n <= T
  BY <1>5, <1>8, DivFloor
<1>11. (T \div n) * n = n * (T \div n)
  BY <1>5, <1>10
<1> QED
  BY <1>5, <1>8, <1>9, <1>10, <1>11 DEF SampleRange, T

\* get_sample_addr() stays in the range of its sample, whatever rand() gives.
LEMMA SampleInRange ==
  ASSUME ChunkInv, NEW k \in 0..(n - 1), NEW random \in 0..(SampleRange - 1)
  PROVE  LET s == get_sample_addr(k, random)
         IN  /\ s \in Nat
             /\ start_align(addr) + PageOf(k * SampleRange) <= s
             /\ s + PAGE_SIZE <= start_align(addr) + PageOf((k + 1) * SampleRange)
             /\ PageOf((k + 1) * SampleRange) <= total_range
<1> DEFINE P == PAGE_SIZE
           R == SampleRange
           T == total_range
           start == start_align(addr)
           end == end_align(addr, size)
           offset == PageOf(random + k * R)
           bound == PageOf((k + 1) * R)
           first == PageOf(k * R)
           inside == IF offset >= bound THEN bound - P ELSE offset
           sample == start + inside
<1>1. P \in Nat \ {0}
  BY LayoutAssumption
<1>2. start \in Nat /\ end = start + T
  BY Ends DEF ChunkInv
<1>3. n \in Nat \ {0} /\ T \in Nat /\ R \in Nat /\ P <= R /\ n * R <= T
  BY Ranges
<1>4. get_sample_addr(k, random) = IF sample >= end THEN end - P ELSE sample
  BY DEF get_sample_addr, SampleRange
<1>5. random \in Nat
  BY <1>3
<1> HIDE DEF P, R, T, start, end
<1>6. k \in Nat /\ k + 1 \in Nat /\ k + 1 <= n
  BY <1>3
<1>7. /\ k * R \in Nat /\ (k + 1) * R \in Nat /\ (k + 1) * R = k * R + R
      /\ (k + 1) * R <= n * R /\ n * R \in Nat
  <2>1. (k + 1) * R <= n * R
    BY <1>3, <1>6, TimesMono
  <2> QED
    BY <1>3, <1>6, <2>1
<1>8. random + k * R \in Nat /\ k * R <= random + k * R
  <2> DEFINE x == k * R
  <2>1. x \in Nat
    BY <1>7
  <2> HIDE DEF x
  <2>2. random + x \in Nat /\ x <= random + x
    BY <1>5, <2>1
  <2> QED
    BY <2>2 DEF x
<1>9. first \in Nat /\ offset \in Nat /\ bound \in Nat /\ bound <= (k + 1) * R
  BY <1>7, <1>8, PageBounds
<1>10. first <= offset
  BY <1>7, <1>8, PageOrder
<1>11. first + P <= bound
  <2>1. k * R + PAGE_SIZE <= (k + 1) * R
    <3> DEFINE x == k * R
               y == (k + 1) * R
    <3>1. x \in Nat /\ y = x + R
      BY <1>7
    <3> HIDE DEF x, y
    <3>2. x + PAGE_SIZE <= y
      BY <1>1, <1>3, <3>1 DEF P
    <3> QED
      BY <3>2 DEF x, y
  <2> QED
    BY <1>7, <2>1, PageOrder DEF P
<1>12. bound <= T
  BY <1>3, <1>7, <1>9
<1> HIDE DEF first, bound, offset
<1>13. inside \in Nat /\ first <= inside /\ inside + P <= bound
  <2>1. CASE offset >= bound
    BY <1>1, <1>9, <1>11, <2>1
  <2>2. CASE ~(offset >= bound)
    <3>1. offset + P <= bound
      <4>1. PICK x \in Nat : x * P = offset
        <5>1. (random + k * R) \div PAGE_SIZE \in Nat
          BY <1>1, <1>8, DivFloor DEF P
        <5> QED
          BY <5>1 DEF offset, PageOf, P
      <4>2. PICK y \in Nat : y * P = bound
        <5>1. ((k + 1) * R) \div PAGE_SIZE \in Nat
          BY <1>1, <1>7, DivFloor DEF P
        <5> QED
          BY <5>1 DEF bound, PageOf, P
      <4>3. x < y
        <5> SUFFICES ASSUME y <= x PROVE FALSE
          OBVIOUS
        <5>1. y * P <= x * P
          BY <1>1, TimesMono
        <5> QED
          BY <1>9, <2>2, <4>1, <4>2, <5>1
      <4>4. (x + 1) * P <= y * P
        BY <1>1, <4>3, TimesMono
      <4>5. (x + 1) * P = x * P + P
        BY <1>1
      <4> QED
        BY <4>1, <4>2, <4>4, <4>5
    <3> QED
      BY <1>9, <1>10, <2>2, <3>1
  <2> QED
    BY <2>1, <2>2
<1> HIDE DEF inside
<1>14. /\ sample \in Nat /\ start + first <= sample /\ sample + P <= start + bound
       /\ ~(sample >= end)
  BY <1>1, <1>2, <1>3, <1>9, <1>12, <1>13
<1>15. get_sample_addr(k, random) = sample
  BY <1>4, <1>14
<1> HIDE DEF sample
<1> QED
  BY <1>12, <1>14, <1>15 DEF P, R, T, start, first, bound

-----------------------------------------------------------------------------
(* The steps.                                                              *)

\* A chunk before its first sample.
LEMMA InitIInv == Init => IInv
<1> SUFFICES ASSUME Init PROVE IInv
  OBVIOUS
<1>1. addr \in Nat /\ size \in Nat
  BY LayoutAssumption DEF Init
<1>2. ChunkInv
  <2>1. total_range \div PAGE_SIZE \in Int
    BY <1>1, Ends, DivFloor, LayoutAssumption
  <2>2. n \in 1..(total_range \div PAGE_SIZE) /\ i = 0
    BY DEF Init
  <2> QED
    BY <1>1, <2>1, <2>2 DEF ChunkInv
<1>3. SamplesInv /\ BufferInv
  BY <1>1 DEF Init, SamplesInv, BufferInv
<1> QED
  BY <1>2, <1>3 DEF IInv

\* The chunk is what it was, its ends and its ranges too.
LEMMA SameChunk ==
  ASSUME UNCHANGED <<addr, size, n>>
  PROVE  /\ start_align(addr)' = start_align(addr) /\ total_range' = total_range
         /\ SampleRange' = SampleRange
BY DEF start_align, end_align, total_range, SampleRange

\* monit_chunk() goes on to the next sample.
LEMMA AttachKeeps ==
  ASSUME IInv, AttachSample
  PROVE  IInv'
<1> USE DEF IInv
<1>0. i < n /\ i' = i + 1 /\ UNCHANGED <<addr, size, n, buffer>>
  BY DEF AttachSample
<1>1. n \in Nat \ {0} /\ i \in Nat /\ i \in 0..(n - 1) /\ SampleRange \in Nat
  BY <1>0, Ranges DEF ChunkInv
<1>2. PICK random \in 0..(SampleRange - 1) :
        samples' = samples \cup {get_sample_addr(i, random)}
  BY DEF AttachSample, SampleRange
<1> DEFINE s == get_sample_addr(i, random)
           start == start_align(addr)
           first == PageOf(i * SampleRange)
           bound == PageOf((i + 1) * SampleRange)
<1>3. s \in Nat /\ start + first <= s /\ s + PAGE_SIZE <= start + bound
  BY <1>1, SampleInRange
<1>4. start \in Nat /\ PAGE_SIZE \in Nat \ {0}
  BY Ends, LayoutAssumption DEF ChunkInv
<1>5. first \in Nat /\ bound \in Nat /\ first <= bound
  <2>1. i * SampleRange \in Nat /\ (i + 1) * SampleRange \in Nat
        /\ i * SampleRange <= (i + 1) * SampleRange
    BY <1>1, TimesMono
  <2> QED
    BY <2>1, PageBounds, PageOrder
<1>6. SampleRange' = SampleRange /\ start_align(addr)' = start /\ total_range' = total_range
  BY <1>0, SameChunk
<1>7. PageOf(i * SampleRange)' = bound
  BY <1>0, <1>6 DEF PageOf
<1>8. ChunkInv'
  BY <1>0, <1>1, <1>6 DEF ChunkInv
<1>9. SamplesInv'
  <2>1. ASSUME NEW p \in samples
        PROVE  p \in Nat /\ start <= p /\ p + PAGE_SIZE <= start + bound
    <3>1. p \in Nat /\ start <= p /\ p + PAGE_SIZE <= start + first
      BY DEF SamplesInv
    <3> HIDE DEF start, first, bound
    <3> QED
      BY <1>4, <1>5, <3>1
  <2>2. s \in Nat /\ start <= s
    <3> HIDE DEF start, first, s
    <3> QED
      BY <1>3, <1>4, <1>5
  <2>3. \A p \in samples' : p \in Nat /\ start <= p /\ p + PAGE_SIZE <= start + bound
    BY <1>2, <1>3, <2>1, <2>2
  <2> HIDE DEF start, bound
  <2> QED
    BY <1>6, <1>7, <2>3 DEF SamplesInv
<1>10. BufferInv'
  BY <1>0, <1>1 DEF BufferInv
<1> QED
  BY <1>8, <1>9, <1>10

\* The hooked calls take samples away and add none.
LEMMA HookedKeeps ==
  ASSUME IInv,
         \/ \E start \in addr..(addr + size - 1), len \in Lengths : HookedCall(start, len)
         \/ HookedReturn
  PROVE  IInv'
<1> USE DEF IInv
<1>0. UNCHANGED <<addr, size, n, i>> /\ samples' \subseteq samples
  BY DEF HookedCall, HookedReturn
<1>1. SampleRange' = SampleRange /\ start_align(addr)' = start_align(addr)
      /\ total_range' = total_range
  BY <1>0, SameChunk
<1>2. ChunkInv'
  BY <1>0, <1>1 DEF ChunkInv
<1>3. SamplesInv'
  <2>1. PageOf(i * SampleRange)' = PageOf(i * SampleRange)
    BY <1>0, <1>1 DEF PageOf
  <2> QED
    BY <1>0, <1>1, <2>1 DEF SamplesInv
<1>4. BufferInv'
  <2>1. CASE HookedReturn
    BY <2>1 DEF HookedReturn, BufferInv, ChunkInv
  <2>2. ASSUME NEW start \in addr..(addr + size - 1), NEW len \in Lengths,
               HookedCall(start, len)
        PROVE  BufferInv'
    <3>1. start \in Nat /\ len \in Nat
      BY LayoutAssumption DEF ChunkInv
    <3>2. /\ buffer'.start = start /\ buffer'.len = len /\ i' = i /\ n' = n /\ i = n
          /\ samples' = samples \ Walked(start, len)
      BY <2>2 DEF HookedCall
    <3>3. Walked(start, len) = Walked(buffer.start, buffer.len)'
      BY <3>2 DEF Walked, PageOf
    <3> QED
      BY <3>1, <3>2, <3>3 DEF BufferInv
  <2> QED
    BY <2>1, <2>2
<1> QED
  BY <1>2, <1>3, <1>4

\* For every page size, every chunk of at least SMALL_MEMORY_CHUNK bytes wherever
\* it starts, and every number of samples that get_nr_sample() may return, the
\* samples lie in the ranges that monit_chunk() divides the chunk into.
THEOREM LayoutInvariant == Spec => []IInv
<1>1. IInv /\ [Next]_vars => IInv'
  <2> SUFFICES ASSUME IInv, [Next]_vars PROVE IInv'
    OBVIOUS
  <2>1. CASE UNCHANGED vars
    <3> USE <2>1 DEF vars
    <3>1. SampleRange' = SampleRange /\ start_align(addr)' = start_align(addr)
          /\ total_range' = total_range
      BY SameChunk
    <3>2. PageOf(i * SampleRange)' = PageOf(i * SampleRange)
      BY <3>1 DEF PageOf
    <3>3. Walked(buffer.start, buffer.len)' = Walked(buffer.start, buffer.len)
      BY DEF Walked, PageOf
    <3> QED
      BY <3>1, <3>2, <3>3 DEF IInv, ChunkInv, SamplesInv, BufferInv
  <2> QED
    BY <2>1, AttachKeeps, HookedKeeps DEF Next
<1> QED
  BY <1>1, InitIInv, PTL DEF Spec

\* get_sample_addr(): every sampled page is inside the chunk as a whole, so
\* mprotect() never takes a page away from a neighbour.
THEOREM SamplesAlwaysInChunk == Spec => []SamplesInChunk
<1>1. IInv => SamplesInChunk
  <2> SUFFICES ASSUME IInv, NEW p \in samples
               PROVE  addr <= p /\ p + PAGE_SIZE <= addr + size
    BY DEF SamplesInChunk
  <2> DEFINE start == start_align(addr)
             end == end_align(addr, size)
             last == PageOf(i * SampleRange)
             T == total_range
  <2>0. addr \in Nat /\ size \in Nat /\ PAGE_SIZE \in Nat
    BY LayoutAssumption DEF IInv, ChunkInv
  <2>1. /\ start \in Nat /\ addr <= start /\ end \in Nat /\ end <= addr + size
        /\ end = start + T
    BY <2>0, Ends
  <2>2. p \in Nat /\ start <= p /\ p + PAGE_SIZE <= start + last
    BY DEF IInv, SamplesInv
  <2>3. last \in Nat /\ last <= T /\ T \in Nat
    <3>1. /\ n \in Nat \ {0} /\ T \in Nat /\ SampleRange \in Nat
          /\ n * SampleRange <= T /\ i \in Nat /\ i <= n
      BY Ranges DEF IInv, ChunkInv
    <3>2. i * SampleRange <= n * SampleRange /\ i * SampleRange \in Nat
      BY <3>1, TimesMono
    <3>3. last \in Nat /\ last <= i * SampleRange
      BY <3>2, PageBounds
    <3>4. n * SampleRange \in Nat
      BY <3>1
    <3> HIDE DEF last, T
    <3> QED
      BY <3>1, <3>2, <3>3, <3>4
  <2> HIDE DEF start, end, last, T
  <2> QED
    BY <2>0, <2>1, <2>2, <2>3
<1> QED
  BY <1>1, LayoutInvariant, PTL

\* monit_chunk(): the next sample lies after all the others, whatever rand()
\* gives: attach_page_sample() never meets a sample of the same chunk.
THEOREM SamplesAlwaysDistinct == Spec => []SamplesDistinct
<1>1. IInv => SamplesDistinct
  <2> SUFFICES ASSUME IInv, i < n, NEW p \in samples, NEW random \in 0..(SampleRange - 1)
               PROVE  p < get_sample_addr(i, random)
    BY DEF SamplesDistinct, SampleRange
  <2> DEFINE s == get_sample_addr(i, random)
             start == start_align(addr)
             first == PageOf(i * SampleRange)
  <2>1. i \in 0..(n - 1) /\ i \in Nat /\ SampleRange \in Nat
    BY Ranges DEF IInv, ChunkInv
  <2>2. s \in Nat /\ start + first <= s
    BY <2>1, SampleInRange DEF IInv
  <2>3. p \in Nat /\ p + PAGE_SIZE <= start + first
    BY DEF IInv, SamplesInv
  <2>4. start \in Nat /\ PAGE_SIZE \in Nat \ {0}
    BY Ends, LayoutAssumption DEF IInv, ChunkInv
  <2>5. first \in Nat
    BY <2>1, PageBounds
  <2> HIDE DEF s, start, first
  <2>6. p < s
    BY <2>2, <2>3, <2>4, <2>5
  <2> QED
    BY <2>6 DEF s
<1> QED
  BY <1>1, LayoutInvariant, PTL

\* remove_sample_range() steps by pages from the start of the buffer: if that is
\* the start of a page, the steps meet every page of the buffer.
LEMMA AlignedWalk ==
  ASSUME NEW start \in Nat, NEW len \in Nat \ {0}, start = PageOf(start),
         NEW a \in start .. (start + len - 1)
  PROVE  PageOf(a) \in Walked(start, len)
<1> DEFINE P == PAGE_SIZE
           q == start \div PAGE_SIZE
           b == a - start
           k == b \div PAGE_SIZE
<1>1. P \in Nat \ {0}
  BY LayoutAssumption
<1>2. start = q * P /\ q \in Nat
  BY <1>1, DivFloor DEF PageOf
<1>3. b \in Nat /\ a = start + b /\ b < len
  OBVIOUS
<1> HIDE DEF b, q
<1>4. k \in Nat /\ k * P <= b /\ b < k * P + P
  BY <1>1, <1>3, DivFloor
<1> HIDE DEF k
<1>5. k * P \in Nat /\ k <= k * P
  BY <1>1, <1>4
<1>6. k \in 0..len /\ k * P <= len
  BY <1>3, <1>4, <1>5
<1>7. start + k * P = (q + k) * P /\ q + k \in Nat
  BY <1>1, <1>2, <1>4
<1>8. PageOf(start + k * P) = (q + k) * P
  <2>1. ((q + k) * P) \div PAGE_SIZE = q + k
    <3> DEFINE x == q + k
    <3>1. x \in Nat
      BY <1>7
    <3> HIDE DEF x
    <3>2. (x * P) \div P = x
      BY <1>1, <3>1
    <3> QED
      BY <3>2 DEF x, P
  <2> QED
    BY <1>7, <2>1 DEF PageOf, P
<1>9. PageOf(a) = (q + k) * P
  <2> DEFINE x == q + k
             d == a \div PAGE_SIZE
             y == x * P
  <2>1. x \in Nat /\ y \in Nat
    BY <1>1, <1>7
  <2>2. y <= a /\ a < y + P
    <3>1. y = start + k * P
      BY <1>7
    <3> HIDE DEF y
    <3> QED
      BY <1>1, <1>3, <1>4, <1>5, <2>1, <3>1
  <2>3. d \in Nat /\ d * P <= a /\ a < d * P + P
    BY <1>1, DivFloor DEF P
  <2>4. x <= d
    BY <1>1, <2>1, <2>2, DivLargest DEF P
  <2>5. ~(x + 1 <= d)
    <3> SUFFICES ASSUME x + 1 <= d PROVE FALSE
      OBVIOUS
    <3> HIDE DEF d, x
    <3>1. (x + 1) * P <= d * P
      BY <1>1, <2>1, <2>3, TimesMono
    <3>2. (x + 1) * P = x * P + P /\ d * P \in Nat
      BY <1>1, <2>1, <2>3
    <3> QED
      BY <1>1, <2>1, <2>2, <2>3, <3>1, <3>2
  <2>6. d = x
    <3> HIDE DEF d, x
    <3> QED
      BY <2>1, <2>3, <2>4, <2>5
  <2> QED
    BY <2>6 DEF PageOf, P
<1> QED
  BY <1>6, <1>8, <1>9 DEF Walked

\* __hooked_read() and the others: with a buffer that starts a page, no page that
\* the kernel touches is still protected by a sample.
THEOREM AlignedBufferAlwaysOpen == Spec => []AlignedBufferOpen
<1>1. IInv => AlignedBufferOpen
  <2> SUFFICES ASSUME IInv, buffer.len # 0, buffer.start = PageOf(buffer.start),
                      NEW a \in Buffer
               PROVE  PageOf(a) \notin samples
    BY DEF AlignedBufferOpen
  <2>1. buffer.start \in Nat /\ buffer.len \in Nat \ {0}
    BY DEF IInv, BufferInv
  <2>2. PageOf(a) \in Walked(buffer.start, buffer.len)
    BY <2>1, AlignedWalk DEF Buffer
  <2> QED
    BY <2>2 DEF IInv, BufferInv
<1> QED
  BY <1>1, LayoutInvariant, PTL
=============================================================================
