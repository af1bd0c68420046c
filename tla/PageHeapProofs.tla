--------------------------- MODULE PageHeapProofs ---------------------------
(***************************************************************************)
(* Proofs about PageHeap, for an address space of any size, any lengths    *)
(* asked for and any growth of the heaps.                                  *)
(***************************************************************************)
EXTENDS PageHeap, FiniteSetTheorems, WellFoundedInduction, TLAPS

-----------------------------------------------------------------------------
(* Counting up, for the loop of ReleaseAtLeastNPages().                    *)

\* A set of numbers that is not empty has a least one: the intervals from 0
\* are finite sets, and those are well-founded under inclusion.
LEMMA LeastNumber ==
    ASSUME NEW F, F \subseteq Nat, F # {}
    PROVE  \E x \in F : \A y \in F : x <= y
<1> DEFINE T == {0 .. x : x \in F}
           R == StrictSubsetOrdering(Nat)
<1>2. T \subseteq FiniteSubsetsOf(Nat) /\ T # {}
  <2>1. \A x \in F : (0 .. x) \subseteq Nat /\ IsFiniteSet(0 .. x)
    BY FS_Interval
  <2> QED
    BY <2>1 DEF FiniteSubsetsOf
<1>3. PICK I \in T : \A J \in T : <<J, I>> \notin R
  <2>1. IsWellFoundedOn(R, FiniteSubsetsOf(Nat))
    BY FS_StrictSubsetOrderingWellFounded
  <2> HIDE DEF R, T
  <2> QED
    BY <1>2, <2>1, WFMin
<1>4. PICK x \in F : I = 0 .. x
  OBVIOUS
<1>5. ASSUME NEW y \in F PROVE x <= y
  <2> SUFFICES ASSUME y < x PROVE FALSE
    OBVIOUS
  <2>1. (0 .. y) \subseteq (0 .. x) /\ x \in (0 .. x) /\ x \notin (0 .. y)
    OBVIOUS
  <2>2. (0 .. y) \subseteq Nat /\ (0 .. x) \subseteq Nat /\ (0 .. y) # (0 .. x)
    BY <2>1
  <2>3. <<0 .. y, 0 .. x>> \in R
    BY <2>1, <2>2 DEF StrictSubsetOrdering
  <2>4. (0 .. y) \in T
    OBVIOUS
  <2> QED
    BY <1>3, <1>4, <2>3, <2>4
<1> QED
  BY <1>5

\* What holds at 0, and with a number at the next, holds up to n.
LEMMA UpTo ==
    ASSUME NEW n \in Nat, NEW S, 0 \in S, \A k \in 0 .. n : k + 1 \in 0 .. n /\ k \in S => k + 1 \in S
    PROVE  0 .. n \subseteq S
<1> SUFFICES ASSUME (0 .. n) \ S # {} PROVE FALSE
  OBVIOUS
<1> DEFINE F == (0 .. n) \ S
<1>1. F \subseteq Nat /\ F # {}
  OBVIOUS
<1>2. PICK x \in F : \A y \in F : x <= y
  <2> HIDE DEF F
  <2> QED
    BY <1>1, LeastNumber
<1>3. x # 0 /\ x - 1 \in 0 .. n /\ x - 1 \notin F
  BY <1>2
<1> QED
  BY <1>3

\* The state in which the loop begins.
Before(s) == [s |-> s, released |-> 0, left |-> {}, over |-> "NO"]

\* The results of the rounds, one after the other.
IsRounds(f, s, h, num) ==
    f = [k \in 0 .. 2 * NPages + 2 |-> IF k = 0 THEN Before(s) ELSE ReleaseRound(f[k - 1], h, num)]

\* The loop has a result: after every round there is one.
LEMMA RoundsExist ==
    ASSUME NEW s, NEW h, NEW num
    PROVE  \E f : IsRounds(f, s, h, num)
<1> DEFINE M == 2 * NPages + 2
           base == Before(s)
           Rounds(f, n) == f = [k \in 0 .. n |-> IF k = 0 THEN base
                                                 ELSE ReleaseRound(f[k - 1], h, num)]
           S == {n \in 0 .. M : \E f : Rounds(f, n)}
<1>0. M \in Nat
  BY PageHeapAssumption
<1> HIDE DEF M
<1>1. 0 \in S
  <2> DEFINE f == [k \in 0 .. 0 |-> base]
  <2>1. Rounds(f, 0)
    OBVIOUS
  <2>2. \E g : Rounds(g, 0)
    <3> HIDE DEF f, Rounds
    <3> QED
      BY <2>1
  <2> QED
    BY <1>0, <2>2
<1>2. ASSUME NEW n \in 0 .. M, n + 1 \in 0 .. M, n \in S PROVE n + 1 \in S
  <2>1. PICK g : Rounds(g, n)
    BY <1>2
  <2> DEFINE f == [k \in 0 .. n + 1 |-> IF k <= n THEN g[k] ELSE ReleaseRound(g[n], h, num)]
  <2>2. \A k \in 0 .. n : g[k] = IF k = 0 THEN base ELSE ReleaseRound(g[k - 1], h, num)
    BY <2>1
  <2> HIDE DEF base
  <2>3. \A k \in 0 .. n + 1 : f[k] = IF k = 0 THEN base ELSE ReleaseRound(f[k - 1], h, num)
    <3> SUFFICES ASSUME NEW k \in 0 .. n + 1
                 PROVE  f[k] = IF k = 0 THEN base ELSE ReleaseRound(f[k - 1], h, num)
      OBVIOUS
    <3>1. CASE k = 0
      BY <2>2, <3>1
    <3>2. CASE k # 0
      <4>1. f[k - 1] = g[k - 1]
        BY <3>2
      <4> QED
        BY <2>2, <3>2, <4>1
    <3> QED
      BY <3>1, <3>2
  <2>4. Rounds(f, n + 1)
    <3>1. f = [k \in 0 .. n + 1 |-> f[k]]
      OBVIOUS
    <3> HIDE DEF f
    <3> QED
      BY <2>3, <3>1
  <2> QED
    BY <1>2, <2>4
<1>3. 0 .. M \subseteq S
  <2> HIDE DEF S
  <2> QED
    BY <1>0, <1>1, <1>2, UpTo
<1>4. M \in S
  <2> HIDE DEF S
  <2> QED
  BY <1>0, <1>3
<1> QED
  BY <1>4 DEF IsRounds, M

\* What holds before the loop and is kept by its rounds holds after it.
LEMMA RoundsKeep ==
    ASSUME NEW s, NEW h, NEW num, NEW R,
           Before(s) \in R,
           \A r \in R : ReleaseRound(r, h, num) \in R
    PROVE  ReleaseAtLeastNPages(s, h, num) \in R
<1> DEFINE M == 2 * NPages + 2
           f == CHOOSE g : IsRounds(g, s, h, num)
           S == {k \in 0 .. M : f[k] \in R}
<1>0. M \in Nat
  BY PageHeapAssumption
<1> HIDE DEF M
<1>1. f = [k \in 0 .. M |-> IF k = 0 THEN Before(s) ELSE ReleaseRound(f[k - 1], h, num)]
  <2>1. IsRounds(f, s, h, num)
    BY RoundsExist
  <2> HIDE DEF f
  <2> QED
    BY <2>1 DEF IsRounds, M
<1>2. ReleaseAtLeastNPages(s, h, num) = f[M]
  BY DEF ReleaseAtLeastNPages, IsRounds, Before, M
<1> HIDE DEF f
<1>3. 0 \in S
  BY <1>0, <1>1
<1>4. \A k \in 0 .. M : k + 1 \in 0 .. M /\ k \in S => k + 1 \in S
  <2> SUFFICES ASSUME NEW k \in 0 .. M, k + 1 \in 0 .. M, k \in S
               PROVE  k + 1 \in S
    OBVIOUS
  <2>1. f[k + 1] = ReleaseRound(f[k], h, num)
    BY <1>1
  <2> QED
    BY <2>1
<1>5. 0 .. M \subseteq S
  <2> HIDE DEF S
  <2> QED
    BY <1>0, <1>3, <1>4, UpTo
<1> QED
  BY <1>0, <1>2, <1>5

-----------------------------------------------------------------------------
(* The tiling.  sp stands for the spans of a heap, pm for its page map, m  *)
(* for the mapping.                                                        *)

Marks == {0} \cup Classes
Locations == {"NONE", "IN_USE", "NORMAL", "RETURNED"}
SpanRecord == [start : 0 .. NPages, length : 0 .. NPages, location : Locations,
               heaptype : Types, list : Types, from : Types, sizeclass : Marks]
Mappings == Types \cup {"NONE", "LOST"}

LiveIn(sp) == {i \in Pages : sp[i].location # "NONE"}
End(sp, i) == i + sp[i].length - 1

Placed(sp) ==
    \A i \in LiveIn(sp) : sp[i].start = i /\ sp[i].length >= 1 /\ End(sp, i) <= NPages
Disjoint(sp) == \A i, j \in LiveIn(sp) : i < j => End(sp, i) < j
Covering(sp, m) ==
    \A p \in Pages : m[p] \in Types <=> \E i \in LiveIn(sp) : i <= p /\ p <= End(sp, i)
Led(sp, pm, m) ==
    /\ \A i \in LiveIn(sp) :
          /\ pm[i] = i /\ pm[End(sp, i)] = i
          /\ sp[i].sizeclass # 0 =>
                /\ sp[i].location = "IN_USE"
                /\ \A p \in i .. End(sp, i) : pm[p] = i
    /\ \A p \in 0 .. NPages + 1 : (p \notin Pages \/ m[p] \notin Types) => pm[p] = 0

Tiling(sp, pm, m) ==
    /\ sp \in [Pages -> SpanRecord] /\ pm \in [0 .. NPages + 1 -> 0 .. NPages]
    /\ m \in [Pages -> Mappings]
    /\ Placed(sp) /\ Disjoint(sp) /\ Covering(sp, m) /\ Led(sp, pm, m)

\* What the page map says of the neighbours of a span is right: the entry of
\* the page before it leads to the span that ends there, the entry of the page
\* after it to the span that starts there, and 0 means that there is none.
Neighbours(sp, pm, i) ==
    LET prev == pm[i - 1]
        next == pm[End(sp, i) + 1]
    IN  /\ prev # 0 => prev \in LiveIn(sp) /\ prev < i /\ End(sp, prev) = i - 1
        /\ \A j \in LiveIn(sp) : End(sp, j) = i - 1 => prev = j
        /\ next # 0 => next \in LiveIn(sp) /\ next = End(sp, i) + 1
        /\ \A j \in LiveIn(sp) : j = End(sp, i) + 1 => next = j

\* A span of a tiling has at least one page, and all its pages.
LEMMA TilingBounds ==
    ASSUME NEW sp, NEW pm, NEW m, Tiling(sp, pm, m), NEW i \in LiveIn(sp)
    PROVE  /\ i \in Int /\ 1 <= i /\ i <= End(sp, i) /\ End(sp, i) <= NPages
           /\ End(sp, i) \in Int /\ sp[i].length \in Int /\ sp[i].length >= 1
           /\ End(sp, i) = i + sp[i].length - 1 /\ sp[i].start = i
           /\ sp[i] \in SpanRecord /\ i \in Pages /\ End(sp, i) \in Pages /\ NPages \in Int
<1>1. NPages \in Nat /\ i \in Pages /\ sp[i] \in SpanRecord
  BY PageHeapAssumption DEF Tiling, LiveIn
<1>2. sp[i].length \in Int
  BY <1>1 DEF SpanRecord
<1>3. sp[i].length >= 1 /\ End(sp, i) <= NPages /\ sp[i].start = i
  BY DEF Tiling, Placed
<1>4. i \in Int /\ 1 <= i
  BY <1>1 DEF Pages
<1> QED
  BY <1>1, <1>2, <1>3, <1>4 DEF End, Pages

\* In a tiling the page map finds the neighbours.
LEMMA TilingNeighbours ==
    ASSUME NEW sp, NEW pm, NEW m, Tiling(sp, pm, m), NEW i \in LiveIn(sp)
    PROVE  Neighbours(sp, pm, i)
<1> DEFINE e == End(sp, i)
<1>0. NPages \in Nat /\ NPages > 0
  BY PageHeapAssumption
<1>1. i \in Int /\ i >= 1 /\ i <= NPages /\ e \in Int /\ i <= e /\ e <= NPages
  BY TilingBounds
<1>2. \A j \in LiveIn(sp) : j \in Int /\ j >= 1 /\ j <= End(sp, j) /\ End(sp, j) \in Int /\ End(sp, j) <= NPages
  BY TilingBounds
<1> HIDE DEF e
<1>3. pm[i - 1] # 0 =>
        pm[i - 1] \in LiveIn(sp) /\ pm[i - 1] < i /\ End(sp, pm[i - 1]) = i - 1
  <2> SUFFICES ASSUME pm[i - 1] # 0
               PROVE  pm[i - 1] \in LiveIn(sp) /\ pm[i - 1] < i /\ End(sp, pm[i - 1]) = i - 1
    OBVIOUS
  <2>1. i - 1 \in Pages /\ m[i - 1] \in Types
    BY <1>0, <1>1 DEF Tiling, Led
  <2>2. PICK j \in LiveIn(sp) : j <= i - 1 /\ i - 1 <= End(sp, j)
    BY <2>1 DEF Tiling, Covering
  <2>3. End(sp, j) = i - 1
    BY <1>1, <1>2, <2>2 DEF Tiling, Disjoint
  <2>4. pm[i - 1] = j
    BY <2>3 DEF Tiling, Led
  <2> QED
    BY <1>1, <1>2, <2>2, <2>3, <2>4
<1>4. ASSUME NEW j \in LiveIn(sp), End(sp, j) = i - 1 PROVE pm[i - 1] = j
  BY <1>4 DEF Tiling, Led
<1>5. pm[e + 1] # 0 => pm[e + 1] \in LiveIn(sp) /\ pm[e + 1] = e + 1
  <2> SUFFICES ASSUME pm[e + 1] # 0 PROVE pm[e + 1] \in LiveIn(sp) /\ pm[e + 1] = e + 1
    OBVIOUS
  <2>1. e + 1 \in Pages /\ m[e + 1] \in Types
    BY <1>0, <1>1 DEF Tiling, Led
  <2>2. PICK j \in LiveIn(sp) : j <= e + 1 /\ e + 1 <= End(sp, j)
    BY <2>1 DEF Tiling, Covering
  <2>3. j = e + 1
    <3>1. ~ (j < i)
      BY <1>1, <1>2, <2>2 DEF Tiling, Disjoint
    <3>2. j # i
      BY <1>1, <1>2, <2>2 DEF e
    <3>3. e < j
      BY <1>1, <1>2, <3>1, <3>2 DEF Tiling, Disjoint, e
    <3> QED
      BY <1>1, <1>2, <2>2, <3>3
  <2>4. pm[e + 1] = j
    BY <2>3 DEF Tiling, Led
  <2> QED
    BY <1>1, <1>2, <2>2, <2>3, <2>4
<1> USE DEF e
<1>6. ASSUME NEW j \in LiveIn(sp), j = e + 1 PROVE pm[e + 1] = j
  BY <1>6 DEF Tiling, Led
<1> QED
  BY <1>3, <1>4, <1>5, <1>6 DEF Neighbours

\* A span that keeps its place, and whose page map entries stay as they are,
\* may get new marks.
LEMMA TilingRelabel ==
    ASSUME NEW sp, NEW pm, NEW m, Tiling(sp, pm, m), NEW x \in LiveIn(sp), NEW r \in SpanRecord,
           r.start = sp[x].start, r.length = sp[x].length, r.location # "NONE",
           r.sizeclass # 0 => r.location = "IN_USE" /\ sp[x].sizeclass # 0
    PROVE  Tiling([sp EXCEPT ![x] = r], pm, m)
<1> DEFINE t == [sp EXCEPT ![x] = r]
<1>1. t \in [Pages -> SpanRecord] /\ pm \in [0 .. NPages + 1 -> 0 .. NPages] /\ m \in [Pages -> Mappings]
  BY DEF Tiling
<1>2. LiveIn(t) = LiveIn(sp) /\ \A i \in LiveIn(sp) : End(t, i) = End(sp, i)
  BY DEF Tiling, LiveIn, End
<1>3. \A i \in LiveIn(sp) : t[i].start = sp[i].start /\ t[i].length = sp[i].length
  BY DEF Tiling, LiveIn
<1>4. \A i \in LiveIn(sp) : t[i].sizeclass # 0 => t[i].location = "IN_USE" /\ sp[i].sizeclass # 0
  BY DEF Tiling, LiveIn, Led
<1> HIDE DEF t
<1>5. Placed(t) /\ Disjoint(t)
  BY <1>2, <1>3 DEF Tiling, Placed, Disjoint
<1>6. Covering(t, m)
  BY <1>2 DEF Tiling, Covering
<1>7. Led(t, pm, m)
  BY <1>2, <1>4 DEF Tiling, Led
<1> QED
  BY <1>1, <1>5, <1>6, <1>7 DEF Tiling, t

\* What is not between a and b.
LEMMA Outside ==
    \A a, b, p \in Int : a <= b /\ (p < a \/ b < p) => p # a /\ p # b /\ p \notin a + 1 .. b - 1
OBVIOUS

\* The page map q is pm with a span from a to b recorded.
Recorded(q, pm, a, b) ==
    /\ q \in [0 .. NPages + 1 -> 0 .. NPages]
    /\ q[a] = a /\ q[b] = a
    /\ \A p \in 0 .. NPages + 1 : p < a \/ b < p => q[p] = pm[p]

\* The entries of the page map after RecordSpan() of the pages a to b.
LEMMA EndsValues ==
    ASSUME NEW pm \in [0 .. NPages + 1 -> 0 .. NPages], NEW r \in SpanRecord,
           NEW a \in Pages, NEW b \in Pages, a <= b,
           r.start = a, r.length = b - a + 1
    PROVE  Recorded(Ends(pm, r), pm, a, b)
<1>0. NPages \in Nat /\ a \in Int /\ b \in Int /\ 1 <= a /\ a <= b /\ b <= NPages
  BY PageHeapAssumption DEF Pages
<1>1. Last(r) = b
  BY <1>0 DEF Last
<1>2. Ends(pm, r) = [p \in 0 .. NPages + 1 |->
                       IF p = a \/ p = b THEN a
                       ELSE IF p \in a + 1 .. b - 1 THEN 0 ELSE pm[p]]
  <2>1. DOMAIN pm = 0 .. NPages + 1
    OBVIOUS
  <2>2. \A p \in 0 .. NPages + 1 :
           (CASE p \in {r.start, Last(r)} -> r.start
              [] p \in r.start + 1 .. Last(r) - 1 -> 0
              [] OTHER -> pm[p])
           = IF p = a \/ p = b THEN a ELSE IF p \in a + 1 .. b - 1 THEN 0 ELSE pm[p]
    BY <1>0, <1>1
  <2> QED
    BY <2>1, <2>2 DEF Ends
<1> DEFINE q == Ends(pm, r)
<1>3. \A p \in 0 .. NPages + 1 : q[p] = IF p = a \/ p = b THEN a
                                       ELSE IF p \in a + 1 .. b - 1 THEN 0 ELSE pm[p]
  BY <1>2
<1>4. q = [p \in 0 .. NPages + 1 |-> q[p]]
  BY <1>2
<1> HIDE DEF q
<1>5. ASSUME NEW p \in 0 .. NPages + 1 PROVE q[p] \in 0 .. NPages
  <2>1. a \in 0 .. NPages /\ 0 \in 0 .. NPages
    BY <1>0
  <2>2. pm[p] \in 0 .. NPages
    OBVIOUS
  <2> QED
    BY <1>3, <2>1, <2>2
<1>6. a \in 0 .. NPages + 1 /\ b \in 0 .. NPages + 1
  BY <1>0
<1>7. q[a] = a /\ q[b] = a
  BY <1>3, <1>6
<1>8. ASSUME NEW p \in 0 .. NPages + 1, p < a \/ b < p PROVE q[p] = pm[p]
  <2>1. p \in Int
    BY <1>0
  <2>2. p # a /\ p # b /\ p \notin a + 1 .. b - 1
    BY <1>0, <1>8, <2>1, Outside
  <2> QED
    BY <1>3, <2>2
<1> QED
  BY <1>4, <1>5, <1>7, <1>8 DEF q, Recorded

\* The spans i and j become the span r.
JoinTiles(sp, pm, m, i, j, r) ==
    LET t == [sp EXCEPT ![j] = NoSpan, ![i] = r]
    IN  Tiling(t, Ends(pm, r), m) /\ End(t, i) = End(sp, j) /\ LiveIn(t) = LiveIn(sp) \ {j}

\* Two neighbours become one span.
LEMMA TilingJoin ==
    ASSUME NEW sp, NEW pm, NEW m, Tiling(sp, pm, m),
           NEW i \in LiveIn(sp), NEW j \in LiveIn(sp), j = End(sp, i) + 1,
           NEW r \in SpanRecord, r.start = i, r.length = sp[i].length + sp[j].length,
           r.location # "NONE", r.sizeclass = 0
    PROVE  JoinTiles(sp, pm, m, i, j, r)
<1> DEFINE t == [sp EXCEPT ![j] = NoSpan, ![i] = r]
           q == Ends(pm, r)
           b == End(sp, j)
<1>0. NPages \in Nat
  BY PageHeapAssumption
<1>1. /\ i \in Int /\ j \in Int /\ b \in Int /\ 1 <= i /\ i < j /\ j <= b /\ b <= NPages
      /\ i \in Pages /\ j \in Pages /\ b \in Pages
      /\ r.length = b - i + 1
  <2>1. /\ i \in Int /\ 1 <= i /\ i <= End(sp, i) /\ End(sp, i) \in Int /\ sp[i].length \in Int
        /\ End(sp, i) = i + sp[i].length - 1 /\ i \in Pages
    BY TilingBounds
  <2>2. /\ j \in Int /\ j <= b /\ b <= NPages /\ b \in Int /\ sp[j].length \in Int
        /\ b = j + sp[j].length - 1 /\ j \in Pages /\ b \in Pages
    BY TilingBounds
  <2> HIDE DEF b
  <2> QED
    BY <2>1, <2>2
<1>2. NoSpan \in SpanRecord /\ NoSpan.location = "NONE"
  BY <1>0 DEF NoSpan, SpanRecord, Locations, Types
<1>3. /\ t \in [Pages -> SpanRecord] /\ t[i] = r /\ t[j] = NoSpan
      /\ \A k \in Pages \ {i, j} : t[k] = sp[k]
  BY <1>1, <1>2 DEF Tiling
<1>4. LiveIn(t) = LiveIn(sp) \ {j}
  BY <1>1, <1>2, <1>3 DEF LiveIn
<1>5. End(t, i) = b
  <2> HIDE DEF t, b
  <2> QED
    BY <1>1, <1>3 DEF End
<1>6. \A k \in LiveIn(sp) \ {i, j} : k \in Pages /\ t[k] = sp[k] /\ End(t, k) = End(sp, k)
  BY <1>3 DEF LiveIn, End
<1>7. \A k \in LiveIn(sp) : k \in Int /\ 1 <= k /\ k <= End(sp, k) /\ End(sp, k) <= NPages
                            /\ End(sp, k) \in Int /\ k \in Pages /\ End(sp, k) \in Pages
  BY TilingBounds
<1>8. \A k \in LiveIn(sp) \ {i, j} : End(sp, k) < i \/ b < k
  BY <1>1, <1>7 DEF Tiling, Disjoint, b
<1>9. /\ q \in [0 .. NPages + 1 -> 0 .. NPages] /\ q[i] = i /\ q[b] = i
      /\ \A p \in 0 .. NPages + 1 : p < i \/ b < p => q[p] = pm[p]
  <2>1. pm \in [0 .. NPages + 1 -> 0 .. NPages] /\ i <= b
    BY <1>1 DEF Tiling
  <2> HIDE DEF b
  <2>2. Recorded(q, pm, i, b)
    BY <1>1, <2>1, EndsValues
  <2> QED
    BY <2>2 DEF Recorded
<1> HIDE DEF t, q, b
<1>10. ASSUME NEW k \in LiveIn(sp) \ {i, j}, NEW p \in k .. End(sp, k)
       PROVE  p \in 0 .. NPages + 1 /\ q[p] = pm[p]
  <2>1. k \in Int /\ 1 <= k /\ End(sp, k) <= NPages /\ End(sp, k) \in Int
    BY <1>7
  <2>2. p \in 0 .. NPages + 1 /\ (p < i \/ b < p)
    BY <1>0, <1>1, <1>8, <2>1
  <2> QED
    BY <1>9, <2>2
<1>11. Placed(t)
  <2> SUFFICES ASSUME NEW k \in LiveIn(t)
               PROVE  t[k].start = k /\ t[k].length >= 1 /\ End(t, k) <= NPages
    BY DEF Placed
  <2>1. CASE k = i
    <3>1. sp[i].length \in Int /\ sp[i].length >= 1 /\ sp[j].length \in Int /\ sp[j].length >= 1
      BY TilingBounds
    <3> QED
      BY <1>1, <1>3, <1>5, <2>1, <3>1
  <2>2. CASE k # i
    BY <1>4, <1>6, <2>2 DEF Tiling, Placed
  <2> QED
    BY <2>1, <2>2
<1>12. Disjoint(t)
  <2> SUFFICES ASSUME NEW k \in LiveIn(t), NEW l \in LiveIn(t), k < l PROVE End(t, k) < l
    BY DEF Disjoint
  <2>1. CASE k = i
    BY <1>1, <1>4, <1>5, <1>7, <1>8, <2>1
  <2>2. CASE l = i
    BY <1>1, <1>4, <1>6, <1>7, <1>8, <2>2
  <2>3. CASE k # i /\ l # i
    BY <1>4, <1>6, <2>3 DEF Tiling, Disjoint
  <2> QED
    BY <2>1, <2>2, <2>3
<1>13. Covering(t, m)
  <2> SUFFICES ASSUME NEW p \in Pages
               PROVE  (\E k \in LiveIn(sp) : k <= p /\ p <= End(sp, k))
                        <=> (\E k \in LiveIn(t) : k <= p /\ p <= End(t, k))
    BY DEF Tiling, Covering
  <2>0. p \in Int
    BY DEF Pages
  <2>1. ASSUME NEW k \in LiveIn(sp), k <= p, p <= End(sp, k)
        PROVE  \E l \in LiveIn(t) : l <= p /\ p <= End(t, l)
    <3>1. CASE k \in {i, j}
      <4>1. i \in LiveIn(t) /\ i <= p /\ p <= End(t, i)
        BY <1>1, <1>4, <1>5, <1>7, <2>0, <2>1, <3>1 DEF b
      <4> QED
        BY <4>1
    <3>2. CASE k \notin {i, j}
      BY <1>4, <1>6, <2>1, <3>2
    <3> QED
      BY <3>1, <3>2
  <2>2. ASSUME NEW k \in LiveIn(t), k <= p, p <= End(t, k)
        PROVE  \E l \in LiveIn(sp) : l <= p /\ p <= End(sp, l)
    <3>1. CASE k = i
      <4>1. p <= End(sp, i) \/ (j <= p /\ p <= End(sp, j))
        BY <1>1, <1>5, <1>7, <2>0, <2>2, <3>1 DEF b
      <4> QED
        BY <2>2, <3>1, <4>1
    <3>2. CASE k # i
      BY <1>4, <1>6, <2>2, <3>2
    <3> QED
      BY <3>1, <3>2
  <2> QED
    BY <2>1, <2>2
<1>14. Led(t, q, m)
  <2>1. ASSUME NEW k \in LiveIn(t)
        PROVE  /\ q[k] = k /\ q[End(t, k)] = k
               /\ t[k].sizeclass # 0 => /\ t[k].location = "IN_USE"
                                        /\ \A p \in k .. End(t, k) : q[p] = k
    <3>1. CASE k = i
      BY <1>3, <1>5, <1>9, <3>1
    <3>2. CASE k # i
      <4>1. k \in LiveIn(sp) \ {i, j} /\ t[k] = sp[k] /\ End(t, k) = End(sp, k)
        BY <1>4, <1>6, <3>2
      <4>2. k \in k .. End(sp, k) /\ End(sp, k) \in k .. End(sp, k)
        <5>1. k \in Int /\ End(sp, k) \in Int /\ k <= End(sp, k)
          BY <1>7, <4>1
        <5> QED
          BY <5>1
      <4>3. q[k] = pm[k] /\ q[End(sp, k)] = pm[End(sp, k)]
        BY <1>10, <4>1, <4>2
      <4> QED
        BY <1>10, <4>1, <4>3 DEF Tiling, Led
    <3> QED
      BY <3>1, <3>2
  <2>2. ASSUME NEW p \in 0 .. NPages + 1, p \notin Pages \/ m[p] \notin Types PROVE q[p] = 0
    <3>1. p < i \/ b < p
      <4> SUFFICES ASSUME i <= p, p <= b PROVE FALSE
        BY <1>0, <1>1
      <4>1. p \in Pages
        BY <1>0, <1>1 DEF Pages
      <4>2. i \in LiveIn(t) /\ i <= p /\ p <= End(t, i)
        BY <1>1, <1>4, <1>5
      <4>3. m[p] \in Types
        BY <1>13, <4>1, <4>2 DEF Covering
      <4> QED
        BY <2>2, <4>1, <4>3
    <3> QED
      BY <1>9, <2>2, <3>1 DEF Tiling, Led
  <2> QED
    BY <2>1, <2>2 DEF Led
<1>15. Tiling(t, q, m)
  BY <1>3, <1>9, <1>11, <1>12, <1>13, <1>14 DEF Tiling
<1> QED
  BY <1>4, <1>5, <1>15 DEF JoinTiles, t, q, b

\* The span i becomes the spans a, of n pages, and c.
CutTiles(sp, pm, m, i, n, a, c) ==
    LET t == [sp EXCEPT ![i] = a, ![i + n] = c]
    IN  /\ Tiling(t, Ends(Ends(pm, a), c), m)
        /\ LiveIn(t) = LiveIn(sp) \cup {i + n} /\ i + n \in Pages \ LiveIn(sp)

\* A span is cut in two.
LEMMA TilingCut ==
    ASSUME NEW sp, NEW pm, NEW m, Tiling(sp, pm, m), NEW i \in LiveIn(sp),
           NEW n \in Int, 1 <= n, n < sp[i].length,
           NEW a \in SpanRecord, NEW c \in SpanRecord,
           a.start = i, a.length = n, a.location # "NONE", a.sizeclass = 0,
           c.start = i + n, c.length = sp[i].length - n, c.location # "NONE", c.sizeclass = 0
    PROVE  CutTiles(sp, pm, m, i, n, a, c)
<1> DEFINE j == i + n
           t == [sp EXCEPT ![i] = a, ![j] = c]
           q1 == Ends(pm, a)
           q == Ends(q1, c)
           b == End(sp, i)
<1>0. NPages \in Nat
  BY PageHeapAssumption
<1>1. /\ i \in Int /\ j \in Int /\ b \in Int /\ 1 <= i /\ i < j /\ j <= b /\ b <= NPages
      /\ c.length = b - j + 1 /\ j - 1 \in Int
  <2>1. /\ i \in Int /\ 1 <= i /\ b <= NPages /\ b \in Int /\ sp[i].length \in Int
        /\ b = i + sp[i].length - 1
    BY TilingBounds
  <2> HIDE DEF b
  <2> QED
    BY <2>1
<1>2. i \in Pages /\ j \in Pages /\ j - 1 \in Pages /\ b \in Pages
  <2> HIDE DEF j, b
  <2> QED
    BY <1>0, <1>1 DEF Pages
<1>3. \A k \in LiveIn(sp) : k \in Int /\ 1 <= k /\ k <= End(sp, k) /\ End(sp, k) <= NPages
                            /\ End(sp, k) \in Int /\ k \in Pages /\ End(sp, k) \in Pages
  BY TilingBounds
<1>4. \A k \in LiveIn(sp) \ {i} : k # j /\ (End(sp, k) < i \/ b < k)
  <2> SUFFICES ASSUME NEW k \in LiveIn(sp) \ {i} PROVE k # j /\ (End(sp, k) < i \/ b < k)
    OBVIOUS
  <2>1. (i < k => b < k) /\ (k < i => End(sp, k) < i)
    BY DEF Tiling, Disjoint
  <2> HIDE DEF j, b
  <2> QED
    BY <1>1, <1>3, <2>1
<1>5. /\ t \in [Pages -> SpanRecord] /\ t[i] = a /\ t[j] = c
      /\ \A k \in Pages \ {i, j} : t[k] = sp[k]
  <2>1. sp \in [Pages -> SpanRecord] /\ i # j
    BY <1>1 DEF Tiling
  <2> HIDE DEF j
  <2> QED
    BY <1>2, <2>1
<1>6. Recorded(q, q1, j, b) /\ Recorded(q1, pm, i, j - 1)
  <2>1. pm \in [0 .. NPages + 1 -> 0 .. NPages] /\ i <= j - 1 /\ a.length = (j - 1) - i + 1
    BY <1>1 DEF Tiling
  <2>2. c.start = j /\ j <= b
    BY <1>1
  <2> HIDE DEF b, j
  <2>3. Recorded(q1, pm, i, j - 1)
    BY <1>2, <2>1, EndsValues
  <2>4. q1 \in [0 .. NPages + 1 -> 0 .. NPages]
    BY <2>3 DEF Recorded
  <2> HIDE DEF q1
  <2>5. Recorded(q, q1, j, b)
    BY <1>1, <1>2, <2>2, <2>4, EndsValues
  <2> QED
    BY <2>3, <2>5
<1>7. End(t, i) = j - 1 /\ End(t, j) = b
  <2>1. j - 1 = i + a.length - 1 /\ b = j + c.length - 1
    BY <1>1
  <2> HIDE DEF t, b, j
  <2> QED
    BY <1>5, <2>1 DEF End
<1> HIDE DEF t, q, q1, b, j
<1>8. LiveIn(t) = LiveIn(sp) \cup {j}
  <2>1. \A k \in Pages : t[k].location # "NONE" <=> sp[k].location # "NONE" \/ k = j
    BY <1>5 DEF LiveIn
  <2> QED
    BY <1>2, <2>1 DEF LiveIn
<1>9. \A k \in LiveIn(sp) \ {i} : k # j /\ t[k] = sp[k] /\ End(t, k) = End(sp, k)
  BY <1>3, <1>4, <1>5 DEF End
<1>10. ASSUME NEW k \in LiveIn(sp) \ {i}, NEW p \in k .. End(sp, k)
       PROVE  p \in 0 .. NPages + 1 /\ q[p] = pm[p]
  <2>1. k \in Int /\ 1 <= k /\ End(sp, k) <= NPages /\ End(sp, k) \in Int
    BY <1>3
  <2>2. p \in 0 .. NPages + 1 /\ (p < i \/ b < p)
    BY <1>0, <1>1, <1>4, <2>1
  <2>3. (p < j \/ b < p) /\ (p < i \/ j - 1 < p)
    BY <1>0, <1>1, <2>2
  <2> QED
    BY <1>6, <2>2, <2>3 DEF Recorded
<1>11. Placed(t)
  <2> SUFFICES ASSUME NEW k \in LiveIn(t)
               PROVE  t[k].start = k /\ t[k].length >= 1 /\ End(t, k) <= NPages
    BY DEF Placed
  <2>1. CASE k = i
    <3>1. j - 1 <= NPages /\ n >= 1
      BY <1>0, <1>1
    <3> QED
      BY <1>5, <1>7, <2>1, <3>1
  <2>2. CASE k = j
    BY <1>1, <1>5, <1>7, <2>2 DEF j
  <2>3. CASE k \notin {i, j}
    BY <1>8, <1>9, <2>3 DEF Tiling, Placed
  <2> QED
    BY <2>1, <2>2, <2>3
<1>12. Disjoint(t)
  <2> SUFFICES ASSUME NEW k \in LiveIn(t), NEW l \in LiveIn(t), k < l PROVE End(t, k) < l
    BY DEF Disjoint
  <2>1. CASE k \in {i, j} /\ l \in {i, j}
    BY <1>1, <1>7, <2>1
  <2>2. CASE k \in {i, j} /\ l \notin {i, j}
    <3>1. l \in Int /\ l <= End(sp, l) /\ End(sp, l) \in Int /\ (End(sp, l) < i \/ b < l)
      BY <1>3, <1>4, <1>8, <2>2
    <3> QED
      BY <1>1, <1>7, <2>2, <3>1
  <2>3. CASE k \notin {i, j} /\ l \in {i, j}
    <3>1. k \in Int /\ k <= End(sp, k) /\ End(sp, k) \in Int /\ (End(sp, k) < i \/ b < k) /\ End(t, k) = End(sp, k)
      BY <1>3, <1>4, <1>8, <1>9, <2>3
    <3> QED
      BY <1>1, <2>3, <3>1
  <2>4. CASE k \notin {i, j} /\ l \notin {i, j}
    BY <1>8, <1>9, <2>4 DEF Tiling, Disjoint
  <2> QED
    BY <2>1, <2>2, <2>3, <2>4
<1>13. Covering(t, m)
  <2> SUFFICES ASSUME NEW p \in Pages
               PROVE  (\E k \in LiveIn(sp) : k <= p /\ p <= End(sp, k))
                        <=> (\E k \in LiveIn(t) : k <= p /\ p <= End(t, k))
    BY DEF Tiling, Covering
  <2>0. p \in Int
    BY DEF Pages
  <2>1. ASSUME NEW k \in LiveIn(sp), k <= p, p <= End(sp, k)
        PROVE  \E l \in LiveIn(t) : l <= p /\ p <= End(t, l)
    <3>1. CASE k = i
      <4>1. (i <= p /\ p <= End(t, i)) \/ (j <= p /\ p <= End(t, j))
        BY <1>1, <1>7, <2>0, <2>1, <3>1 DEF b
      <4> QED
        BY <1>8, <4>1
    <3>2. CASE k # i
      BY <1>8, <1>9, <2>1, <3>2
    <3> QED
      BY <3>1, <3>2
  <2>2. ASSUME NEW k \in LiveIn(t), k <= p, p <= End(t, k)
        PROVE  \E l \in LiveIn(sp) : l <= p /\ p <= End(sp, l)
    <3>1. CASE k \in {i, j}
      <4>1. i <= p /\ p <= End(sp, i)
        BY <1>1, <1>7, <2>0, <2>2, <3>1 DEF b
      <4> QED
        BY <4>1
    <3>2. CASE k \notin {i, j}
      BY <1>8, <1>9, <2>2, <3>2
    <3> QED
      BY <3>1, <3>2
  <2> QED
    BY <2>1, <2>2
<1>14. Led(t, q, m)
  <2>0. /\ q[j] = j /\ q[b] = j /\ q[i] = i /\ q[j - 1] = i
        /\ \A p \in 0 .. NPages + 1 : p < i \/ b < p => q[p] = pm[p]
    <3>1. q[j] = j /\ q[b] = j /\ q1[i] = i /\ q1[j - 1] = i
      BY <1>6 DEF Recorded
    <3>2. i \in 0 .. NPages + 1 /\ j - 1 \in 0 .. NPages + 1 /\ i < j /\ j - 1 < j
      BY <1>0, <1>1
    <3>3. q[i] = q1[i] /\ q[j - 1] = q1[j - 1]
      BY <1>6, <3>2 DEF Recorded
    <3>4. ASSUME NEW p \in 0 .. NPages + 1, p < i \/ b < p PROVE q[p] = pm[p]
      <4>1. (p < j \/ b < p) /\ (p < i \/ j - 1 < p)
        BY <1>0, <1>1, <3>4
      <4> QED
        BY <1>6, <4>1 DEF Recorded
    <3> QED
      BY <3>1, <3>3, <3>4
  <2>1. ASSUME NEW k \in LiveIn(t)
        PROVE  /\ q[k] = k /\ q[End(t, k)] = k
               /\ t[k].sizeclass # 0 => /\ t[k].location = "IN_USE"
                                        /\ \A p \in k .. End(t, k) : q[p] = k
    <3>1. CASE k \in {i, j}
      BY <1>5, <1>7, <2>0, <3>1
    <3>2. CASE k \notin {i, j}
      <4>1. k \in LiveIn(sp) \ {i} /\ t[k] = sp[k] /\ End(t, k) = End(sp, k)
        BY <1>8, <1>9, <3>2
      <4>2. k \in k .. End(sp, k) /\ End(sp, k) \in k .. End(sp, k)
        <5>1. k \in Int /\ End(sp, k) \in Int /\ k <= End(sp, k)
          BY <1>3, <4>1
        <5> QED
          BY <5>1
      <4>3. q[k] = pm[k] /\ q[End(sp, k)] = pm[End(sp, k)]
        BY <1>10, <4>1, <4>2
      <4> QED
        BY <1>10, <4>1, <4>3 DEF Tiling, Led
    <3> QED
      BY <3>1, <3>2
  <2>2. ASSUME NEW p \in 0 .. NPages + 1, p \notin Pages \/ m[p] \notin Types PROVE q[p] = 0
    <3>1. p < i \/ b < p
      <4> SUFFICES ASSUME i <= p, p <= b PROVE FALSE
        BY <1>0, <1>1
      <4>1. p \in Pages
        BY <1>0, <1>1 DEF Pages
      <4>3. m[p] \in Types
        BY <4>1 DEF Tiling, Covering, b
      <4> QED
        BY <2>2, <4>1, <4>3
    <3> QED
      BY <2>0, <2>2, <3>1 DEF Tiling, Led
  <2> QED
    BY <2>1, <2>2 DEF Led
<1>15. Tiling(t, q, m)
  BY <1>5, <1>6, <1>11, <1>12, <1>13, <1>14 DEF Tiling, Recorded
<1>16. j \in Pages \ LiveIn(sp)
  BY <1>1, <1>2, <1>4
<1> QED
  BY <1>8, <1>15, <1>16 DEF CutTiles, t, q, q1, j

\* The mapping with the pages x to y mapped for h.
Mapping(m, x, y, h) == [p \in Pages |-> IF p \in x .. y THEN h ELSE m[p]]

\* There is a span r more, on new pages from x to y.
GrowTiles(sp, pm, m, x, y, r, h) ==
    LET t == [sp EXCEPT ![x] = r]
    IN  /\ Tiling(t, Ends(pm, r), Mapping(m, x, y, h))
        /\ LiveIn(t) = LiveIn(sp) \cup {x} /\ x \notin LiveIn(sp)

\* The system gives the pages x to y, which become a span.
LEMMA TilingGrow ==
    ASSUME NEW sp, NEW pm, NEW m, Tiling(sp, pm, m), NEW x \in Pages, NEW y \in Pages, x <= y,
           \A p \in x .. y : m[p] = "NONE",
           NEW r \in SpanRecord, r.start = x, r.length = y - x + 1,
           r.location # "NONE", r.sizeclass = 0, NEW h \in Types
    PROVE  GrowTiles(sp, pm, m, x, y, r, h)
<1> DEFINE t == [sp EXCEPT ![x] = r]
           q == Ends(pm, r)
           w == [p \in Pages |-> IF p \in x .. y THEN h ELSE m[p]]
<1>0. NPages \in Nat /\ x \in Int /\ y \in Int /\ 1 <= x /\ y <= NPages
  BY PageHeapAssumption DEF Pages
<1>1. \A k \in LiveIn(sp) : k \in Int /\ 1 <= k /\ k <= End(sp, k) /\ End(sp, k) <= NPages
                            /\ End(sp, k) \in Int /\ k \in Pages /\ End(sp, k) \in Pages
  BY TilingBounds
<1>2. ASSUME NEW k \in LiveIn(sp) PROVE k # x /\ (End(sp, k) < x \/ y < k)
  <2>0. \A p \in x .. y : m[p] \notin Types
    BY DEF Types
  <2>1. \A p \in Pages : k <= p /\ p <= End(sp, k) => p \notin x .. y
    BY <2>0 DEF Tiling, Covering
  <2>2. k \notin x .. y
    BY <1>1, <2>1
  <2>3. ~ (k <= x /\ x <= End(sp, k))
    BY <1>0, <2>1
  <2> QED
    BY <1>0, <1>1, <2>2, <2>3
<1>3. x \notin LiveIn(sp)
  BY <1>2
<1>4. /\ t \in [Pages -> SpanRecord] /\ t[x] = r
      /\ \A k \in Pages \ {x} : t[k] = sp[k]
  BY DEF Tiling
<1>5. Recorded(q, pm, x, y)
  <2>1. pm \in [0 .. NPages + 1 -> 0 .. NPages]
    BY DEF Tiling
  <2> QED
    BY <2>1, EndsValues
<1>6. w \in [Pages -> Mappings] /\ \A p \in Pages : w[p] \in Types <=> p \in x .. y \/ m[p] \in Types
  BY DEF Tiling, Mappings, Types
<1>7. End(t, x) = y
  <2> HIDE DEF t
  <2> QED
    BY <1>0, <1>4 DEF End
<1> HIDE DEF t, q, w
<1>8. LiveIn(t) = LiveIn(sp) \cup {x}
  BY <1>4 DEF LiveIn
<1>9. \A k \in LiveIn(sp) : t[k] = sp[k] /\ End(t, k) = End(sp, k)
  BY <1>1, <1>3, <1>4 DEF End
<1>10. Placed(t)
  <2> SUFFICES ASSUME NEW k \in LiveIn(t)
               PROVE  t[k].start = k /\ t[k].length >= 1 /\ End(t, k) <= NPages
    BY DEF Placed
  <2>1. CASE k = x
    BY <1>0, <1>4, <1>7, <2>1
  <2>2. CASE k # x
    BY <1>8, <1>9, <2>2 DEF Tiling, Placed
  <2> QED
    BY <2>1, <2>2
<1>11. Disjoint(t)
  <2> SUFFICES ASSUME NEW k \in LiveIn(t), NEW l \in LiveIn(t), k < l PROVE End(t, k) < l
    BY DEF Disjoint
  <2>1. CASE k = x
    <3>1. l \in LiveIn(sp)
      BY <1>0, <1>8, <2>1
    <3> QED
      BY <1>0, <1>1, <1>2, <1>7, <2>1, <3>1
  <2>2. CASE l = x
    <3>1. k \in LiveIn(sp)
      BY <1>0, <1>8, <2>2
    <3> QED
      BY <1>0, <1>1, <1>2, <1>9, <2>2, <3>1
  <2>3. CASE k # x /\ l # x
    BY <1>8, <1>9, <2>3 DEF Tiling, Disjoint
  <2> QED
    BY <2>1, <2>2, <2>3
<1>12. Covering(t, w)
  <2> SUFFICES ASSUME NEW p \in Pages
               PROVE  (p \in x .. y \/ \E k \in LiveIn(sp) : k <= p /\ p <= End(sp, k))
                        <=> (\E k \in LiveIn(t) : k <= p /\ p <= End(t, k))
    BY <1>6 DEF Tiling, Covering
  <2>0. p \in Int /\ (p \in x .. y <=> x <= p /\ p <= End(t, x))
    BY <1>0, <1>7 DEF Pages
  <2> QED
    BY <2>0, <1>8, <1>9
<1>13. ASSUME NEW k \in LiveIn(sp), NEW p \in k .. End(sp, k) PROVE q[p] = pm[p]
  <2>1. k \in Int /\ 1 <= k /\ End(sp, k) <= NPages /\ End(sp, k) \in Int
    BY <1>1
  <2>2. p \in 0 .. NPages + 1 /\ (p < x \/ y < p)
    BY <1>0, <1>2, <2>1
  <2> QED
    BY <1>5, <2>2 DEF Recorded
<1>14. Led(t, q, w)
  <2>1. ASSUME NEW k \in LiveIn(t)
        PROVE  /\ q[k] = k /\ q[End(t, k)] = k
               /\ t[k].sizeclass # 0 => /\ t[k].location = "IN_USE"
                                        /\ \A p \in k .. End(t, k) : q[p] = k
    <3>1. CASE k = x
      BY <1>4, <1>5, <1>7, <3>1 DEF Recorded
    <3>2. CASE k # x
      <4>1. k \in LiveIn(sp) /\ t[k] = sp[k] /\ End(t, k) = End(sp, k)
        BY <1>8, <1>9, <3>2
      <4>2. k \in k .. End(sp, k) /\ End(sp, k) \in k .. End(sp, k)
        <5>1. k \in Int /\ End(sp, k) \in Int /\ k <= End(sp, k)
          BY <1>1, <4>1
        <5> QED
          BY <5>1
      <4>3. q[k] = pm[k] /\ q[End(sp, k)] = pm[End(sp, k)]
        BY <1>13, <4>1, <4>2
      <4> QED
        BY <1>13, <4>1, <4>3 DEF Tiling, Led
    <3> QED
      BY <3>1, <3>2
  <2>2. ASSUME NEW p \in 0 .. NPages + 1, p \notin Pages \/ w[p] \notin Types PROVE q[p] = 0
    <3>1. p < x \/ y < p
      <4> SUFFICES ASSUME x <= p, p <= y PROVE FALSE
        BY <1>0
      <4>1. p \in Pages /\ p \in x .. y
        BY <1>0 DEF Pages
      <4> QED
        BY <1>6, <2>2, <4>1
    <3>2. p \notin Pages \/ m[p] \notin Types
      BY <1>6, <2>2
    <3> QED
      BY <1>5, <2>2, <3>1, <3>2 DEF Tiling, Led, Recorded
  <2> QED
    BY <2>1, <2>2 DEF Led
<1>15. Tiling(t, q, w)
  BY <1>4, <1>5, <1>6, <1>10, <1>11, <1>12, <1>14 DEF Tiling, Recorded
<1> QED
  BY <1>3, <1>8, <1>15 DEF GrowTiles, Mapping, t, q, w

\* The system gives the pages x to y, but the page map has no entries for them.
LEMMA TilingLose ==
    ASSUME NEW sp, NEW pm, NEW m, Tiling(sp, pm, m), NEW x, NEW y,
           \A p \in x .. y : m[p] = "NONE"
    PROVE  Tiling(sp, pm, Mapping(m, x, y, "LOST"))
<1> DEFINE w == Mapping(m, x, y, "LOST")
<1>1. w \in [Pages -> Mappings]
  BY DEF Tiling, Mapping, Mappings
<1>2. \A p \in Pages : w[p] \in Types <=> m[p] \in Types
  BY DEF Mapping, Types
<1> HIDE DEF w
<1>3. Covering(sp, w)
  BY <1>2 DEF Tiling, Covering
<1>4. Led(sp, pm, w)
  BY <1>2 DEF Tiling, Led
<1> QED
  BY <1>1, <1>3, <1>4 DEF Tiling, w

\* All pages of a span in use lead to it, and it has a size class.
LEMMA TilingFill ==
    ASSUME NEW sp, NEW pm, NEW m, Tiling(sp, pm, m), NEW x \in LiveIn(sp), NEW r \in SpanRecord,
           r.start = sp[x].start, r.length = sp[x].length, r.location = "IN_USE"
    PROVE  Tiling([sp EXCEPT ![x] = r],
                  [p \in DOMAIN pm |-> IF p \in x .. End(sp, x) THEN x ELSE pm[p]], m)
<1> DEFINE t == [sp EXCEPT ![x] = r]
           q == [p \in DOMAIN pm |-> IF p \in x .. End(sp, x) THEN x ELSE pm[p]]
<1>0. NPages \in Nat
  BY PageHeapAssumption
<1>1. \A k \in LiveIn(sp) : k \in Int /\ 1 <= k /\ k <= End(sp, k) /\ End(sp, k) <= NPages
                            /\ End(sp, k) \in Int /\ k \in Pages /\ End(sp, k) \in Pages
  BY TilingBounds
<1>2. t \in [Pages -> SpanRecord] /\ m \in [Pages -> Mappings] /\ DOMAIN pm = 0 .. NPages + 1
  BY DEF Tiling
<1>3. q \in [0 .. NPages + 1 -> 0 .. NPages]
  <2>1. x \in Int /\ 1 <= x /\ x <= NPages
    BY <1>0, <1>1
  <2>2. x \in 0 .. NPages
    BY <1>0, <2>1
  <2>3. \A p \in 0 .. NPages + 1 : pm[p] \in 0 .. NPages
    BY DEF Tiling
  <2> QED
    BY <1>2, <2>2, <2>3
<1>4. \A p \in 0 .. NPages + 1 : q[p] = IF p \in x .. End(sp, x) THEN x ELSE pm[p]
  BY <1>2
<1>5. LiveIn(t) = LiveIn(sp) /\ \A i \in LiveIn(sp) : End(t, i) = End(sp, i)
  BY DEF Tiling, LiveIn, End
<1>6. \A i \in LiveIn(sp) : t[i].start = sp[i].start /\ t[i].length = sp[i].length
  BY DEF Tiling, LiveIn
<1>7. t[x] = r /\ \A i \in LiveIn(sp) \ {x} : t[i] = sp[i]
  BY DEF Tiling, LiveIn
<1> HIDE DEF t, q
<1>8. Placed(t) /\ Disjoint(t)
  BY <1>5, <1>6 DEF Tiling, Placed, Disjoint
<1>9. Covering(t, m)
  BY <1>5 DEF Tiling, Covering
<1>10. ASSUME NEW k \in LiveIn(sp), NEW p \in k .. End(sp, k)
       PROVE  q[p] = IF k = x THEN x ELSE pm[p]
  <2>1. k \in Int /\ 1 <= k /\ End(sp, k) <= NPages /\ End(sp, k) \in Int
    BY <1>1
  <2>2. p \in 0 .. NPages + 1
    BY <1>0, <2>1
  <2>3. k # x => p \notin x .. End(sp, x)
    BY <1>1, <2>1 DEF Tiling, Disjoint
  <2> QED
    BY <1>4, <2>2, <2>3
<1>11. Led(t, q, m)
  <2>1. ASSUME NEW k \in LiveIn(t)
        PROVE  /\ q[k] = k /\ q[End(t, k)] = k
               /\ t[k].sizeclass # 0 => /\ t[k].location = "IN_USE"
                                        /\ \A p \in k .. End(t, k) : q[p] = k
    <3>1. k \in LiveIn(sp) /\ End(t, k) = End(sp, k)
      BY <1>5
    <3>2. k \in k .. End(sp, k) /\ End(sp, k) \in k .. End(sp, k)
      <4>1. k \in Int /\ End(sp, k) \in Int /\ k <= End(sp, k)
        BY <1>1, <3>1
      <4> QED
        BY <4>1
    <3>3. CASE k = x
      BY <1>7, <1>10, <3>1, <3>2, <3>3
    <3>4. CASE k # x
      <4>1. q[k] = pm[k] /\ q[End(sp, k)] = pm[End(sp, k)] /\ \A p \in k .. End(sp, k) : q[p] = pm[p]
        BY <1>10, <3>1, <3>2, <3>4
      <4> QED
        BY <1>7, <3>1, <3>4, <4>1 DEF Tiling, Led
    <3> QED
      BY <3>3, <3>4
  <2>2. ASSUME NEW p \in 0 .. NPages + 1, p \notin Pages \/ m[p] \notin Types PROVE q[p] = 0
    <3>1. p \notin x .. End(sp, x)
      <4> SUFFICES ASSUME p \in x .. End(sp, x) PROVE FALSE
        OBVIOUS
      <4>1. p \in Pages /\ x <= p /\ p <= End(sp, x)
        BY <1>0, <1>1 DEF Pages
      <4> QED
        BY <2>2, <4>1 DEF Tiling, Covering
    <3> QED
      BY <1>4, <2>2, <3>1 DEF Tiling, Led
  <2> QED
    BY <2>1, <2>2 DEF Led
<1> QED
  BY <1>2, <1>3, <1>8, <1>9, <1>11 DEF Tiling, t, q

-----------------------------------------------------------------------------
(* What the operations on the heaps do to the fields of the state.         *)

\* In a strict program the loop ends.
Loops == IF strict THEN {"ENDS"} ELSE {"ENDS", "SPINS"}
StatsRecord == [system : Int, free : Int, unmapped : Int, committed : Int]
Heap == [span : [Pages -> SpanRecord], pagemap : [0 .. NPages + 1 -> 0 .. NPages],
         stats : [Types -> StatsRecord], loop : Loops]

\* The counters of a heap when n pages come to a list, or leave it.
Count(st, loc, n) ==
    IF loc = "NORMAL" THEN [st EXCEPT !.free = @ + n] ELSE [st EXCEPT !.unmapped = @ + n]

\* What the counters are then.
LEMMA CountFields ==
    ASSUME NEW st \in StatsRecord, NEW loc, NEW n \in Int
    PROVE  /\ Count(st, loc, n) \in StatsRecord
           /\ Count(st, loc, n).system = st.system
           /\ Count(st, loc, n).committed = st.committed
           /\ Count(st, loc, n).free = st.free + (IF loc = "NORMAL" THEN n ELSE 0)
           /\ Count(st, loc, n).unmapped = st.unmapped + (IF loc = "NORMAL" THEN 0 ELSE n)
<1>1. CASE loc = "NORMAL"
  BY <1>1 DEF Count, StatsRecord
<1>2. CASE loc # "NORMAL"
  BY <1>2 DEF Count, StatsRecord
<1> QED
  BY <1>1, <1>2

\* The fields of a heap.
LEMMA HeapFields ==
    ASSUME NEW s \in Heap
    PROVE  /\ s.span \in [Pages -> SpanRecord]
           /\ s.pagemap \in [0 .. NPages + 1 -> 0 .. NPages]
           /\ s.stats \in [Types -> StatsRecord]
BY DEF Heap

\* A span off its list: only the counter of the heap changes.
LEMMA RemoveFields ==
    ASSUME NEW s \in Heap, NEW h \in Types, NEW i \in Pages
    PROVE  LET t == RemoveFromFreeList(s, h, i)
           IN  /\ t \in Heap /\ t.span = s.span /\ t.pagemap = s.pagemap
               /\ t.stats = [s.stats EXCEPT
                     ![h] = Count(s.stats[h], s.span[i].location, -s.span[i].length)]
<1> DEFINE n == s.span[i].length
           c == Count(s.stats[h], s.span[i].location, -n)
           t == RemoveFromFreeList(s, h, i)
<1>1. n \in Int /\ -n \in Int
  BY HeapFields, PageHeapAssumption DEF SpanRecord
<1>2. s.stats[h] \in StatsRecord /\ s.stats[h].free \in Int /\ s.stats[h].unmapped \in Int
  BY HeapFields DEF StatsRecord
<1>3. c \in StatsRecord
  <2> HIDE DEF n
  <2> QED
    BY <1>1, <1>2, CountFields
<1>4. t = [s EXCEPT !.stats = [s.stats EXCEPT ![h] = c]]
  <2>1. CASE s.span[i].location = "NORMAL"
    <3>1. c = [s.stats[h] EXCEPT !.free = @ - n]
      BY <1>1, <1>2, <2>1 DEF Count
    <3> QED
      BY <2>1, <3>1 DEF RemoveFromFreeList, Heap
  <2>2. CASE s.span[i].location # "NORMAL"
    <3>1. c = [s.stats[h] EXCEPT !.unmapped = @ - n]
      BY <1>1, <1>2, <2>2 DEF Count
    <3> QED
      BY <2>2, <3>1 DEF RemoveFromFreeList, Heap
  <2> QED
    BY <2>1, <2>2
<1> HIDE DEF c, t
<1> QED
  BY <1>3, <1>4 DEF Heap, t, c, n

\* A span to the list of the heap.
LEMMA PrependFields ==
    ASSUME NEW s \in Heap, NEW h \in Types, NEW i \in Pages
    PROVE  LET t == PrependToFreeList(s, h, i)
           IN  /\ t \in Heap /\ t.pagemap = s.pagemap
               /\ t.span = [s.span EXCEPT ![i] = [s.span[i] EXCEPT !.list = h]]
               /\ t.stats = [s.stats EXCEPT
                     ![h] = Count(s.stats[h], s.span[i].location, s.span[i].length)]
<1> DEFINE n == s.span[i].length
           c == Count(s.stats[h], s.span[i].location, n)
           r == [s.span[i] EXCEPT !.list = h]
           t == PrependToFreeList(s, h, i)
<1>1. n \in Int
  <2>1. s.span[i] \in SpanRecord
    BY HeapFields
  <2> QED
    BY <2>1, PageHeapAssumption DEF SpanRecord
<1>2. s.stats[h] \in StatsRecord /\ s.stats[h].free \in Int /\ s.stats[h].unmapped \in Int
  BY HeapFields DEF StatsRecord
<1>3. c \in StatsRecord
  <2> HIDE DEF n
  <2> QED
    BY <1>1, <1>2, CountFields
<1>4. r \in SpanRecord
  <2>1. s.span[i] \in SpanRecord
    BY HeapFields
  <2> QED
    BY <2>1 DEF SpanRecord
<1>5. t = [s EXCEPT !.span = [s.span EXCEPT ![i] = r], !.stats = [s.stats EXCEPT ![h] = c]]
  <2>1. CASE s.span[i].location = "NORMAL"
    <3>1. c = [s.stats[h] EXCEPT !.free = @ + n]
      BY <1>1, <1>2, <2>1 DEF Count
    <3> QED
      BY <2>1, <3>1 DEF PrependToFreeList, Heap
  <2>2. CASE s.span[i].location # "NORMAL"
    <3>1. c = [s.stats[h] EXCEPT !.unmapped = @ + n]
      BY <1>1, <1>2, <2>2 DEF Count
    <3> QED
      BY <2>2, <3>1 DEF PrependToFreeList, Heap
  <2> QED
    BY <2>1, <2>2
<1> HIDE DEF c, t, r
<1>6. /\ t.span = [s.span EXCEPT ![i] = r] /\ t.stats = [s.stats EXCEPT ![h] = c]
      /\ t.pagemap = s.pagemap
  BY <1>5 DEF Heap
<1>7. t \in Heap
  BY <1>3, <1>4, <1>5 DEF Heap
<1> QED
  BY <1>6, <1>7 DEF t, c, n, r

\* The span i, free or about to be, takes over the free span j next to it.
Merged(a, b) == [a EXCEPT !.start = Min({a.start, b.start}), !.length = a.length + b.length]

\* What Absorb() does to the fields.
AbsorbEffect(s, h, i, j) ==
    LET t == Absorb(s, h, i, j)
        r == Merged(s.span[i], s.span[j])
    IN  /\ t \in Heap /\ t.pagemap = Ends(s.pagemap, r)
        /\ t.span = [s.span EXCEPT ![Max({i, j})] = NoSpan, ![Min({i, j})] = r]
        /\ t.stats = [s.stats EXCEPT
              ![h] = Count(s.stats[h], s.span[j].location, -s.span[j].length)]

\* Which fields Absorb() changes.
LEMMA AbsorbFields ==
    ASSUME NEW s \in Heap, NEW h \in Types, NEW i \in Pages, NEW j \in Pages,
           Merged(s.span[i], s.span[j]) \in SpanRecord,
           Ends(s.pagemap, Merged(s.span[i], s.span[j])) \in [0 .. NPages + 1 -> 0 .. NPages],
           Min({i, j}) \in Pages, Max({i, j}) \in Pages
    PROVE  AbsorbEffect(s, h, i, j)
<1> DEFINE u == RemoveFromFreeList(s, h, j)
           r == Merged(s.span[i], s.span[j])
           t == Absorb(s, h, i, j)
           sp == [s.span EXCEPT ![Max({i, j})] = NoSpan, ![Min({i, j})] = r]
           st == [s.stats EXCEPT
                     ![h] = Count(s.stats[h], s.span[j].location, -s.span[j].length)]
<1>1. u \in Heap /\ u.span = s.span /\ u.pagemap = s.pagemap /\ u.stats = st
  BY RemoveFields
<1>2. t = [u EXCEPT !.span = [u.span EXCEPT ![Max({i, j})] = NoSpan, ![Min({i, j})] = r],
                    !.pagemap = Ends(u.pagemap, r)]
  BY DEF Absorb, Merged
<1>3. NoSpan \in SpanRecord
  BY PageHeapAssumption DEF NoSpan, SpanRecord, Locations, Types, Marks
<1>4. sp \in [Pages -> SpanRecord]
  BY <1>3, HeapFields
<1> HIDE DEF u, r, t, st
<1>5. t = [u EXCEPT !.span = sp, !.pagemap = Ends(s.pagemap, r)]
  BY <1>1, <1>2
<1> HIDE DEF sp
<1>6. t.span = sp /\ t.pagemap = Ends(s.pagemap, r) /\ t.stats = st
  BY <1>1, <1>5 DEF Heap
<1>7. t \in Heap
  BY <1>1, <1>4, <1>5 DEF Heap, r
<1> QED
  BY <1>6, <1>7 DEF AbsorbEffect, t, r, sp, st

-----------------------------------------------------------------------------
(* What is to hold of the heaps besides the tiling.  X has the span, if    *)
(* any, which an operation works on and which is on no list meanwhile.     *)

Idle(sp) == {i \in LiveIn(sp) : sp[i].location # "IN_USE"}

SpanApart(sp, m, i) ==
    /\ \A p \in i .. End(sp, i) : m[p] = sp[i].heaptype
    /\ sp[i].location = "IN_USE" => sp[i].from = sp[i].heaptype
    /\ sp[i].location # "IN_USE" => sp[i].list = sp[i].heaptype
Apart(sp, m, X) == strict => \A i \in LiveIn(sp) \ X : SpanApart(sp, m, i)

Mergeable(a, b) == a.heaptype = b.heaptype /\ (aggressive \/ a.location = b.location)
Compact(sp, X) ==
    strict => \A i, j \in Idle(sp) \ X : j = End(sp, i) + 1 => ~Mergeable(sp[i], sp[j])

\* When free spans are released at once, none is normal.
Drained(sp, X) == aggressive => \A i \in LiveIn(sp) \ X : sp[i].location # "NORMAL"

\* The pages on the lists of the heap g.
FreeIn(sp, g, loc, X) ==
    {p \in Pages : \E i \in Idle(sp) \ X :
        sp[i].list = g /\ sp[i].location = loc /\ i <= p /\ p <= End(sp, i)}
Pages2(sp, loc, X) ==
    Cardinality(FreeIn(sp, "RESTRICT", loc, X)) + Cardinality(FreeIn(sp, "OPEN", loc, X))

Counts(sp, st, X) ==
    /\ strict => \A g \in Types :
          /\ st[g].free = Cardinality(FreeIn(sp, g, "NORMAL", X))
          /\ st[g].unmapped = Cardinality(FreeIn(sp, g, "RETURNED", X))
    /\ st["RESTRICT"].free + st["OPEN"].free = Pages2(sp, "NORMAL", X)
    /\ st["RESTRICT"].unmapped + st["OPEN"].unmapped = Pages2(sp, "RETURNED", X)

\* The counters of a heap agree with each other, but for d released pages of h
\* which are on no list.
Balanced(st, h, d) ==
    \A g \in Types :
        st[g].unmapped + st[g].committed + (IF g = h THEN d ELSE 0) = st[g].system

SystemPages(st, m) ==
    st["RESTRICT"].system + st["OPEN"].system = Cardinality({p \in Pages : m[p] # "NONE"})

HeapOK(s, m, X, h, d) ==
    /\ s \in Heap /\ Tiling(s.span, s.pagemap, m)
    /\ Apart(s.span, m, X) /\ Compact(s.span, X) /\ Drained(s.span, X)
    /\ Counts(s.span, s.stats, X) /\ Balanced(s.stats, h, d) /\ SystemPages(s.stats, m)

\* Spans in use stay what they are, and where they are.
UseKept(sp, t) ==
    \A i \in Pages : sp[i].location = "IN_USE" \/ t[i].location = "IN_USE" => t[i] = sp[i]

-----------------------------------------------------------------------------
(* Counting the pages on the lists.                                        *)

\* Lists with the same spans have the same pages.
LEMMA FreeInSame ==
    ASSUME NEW sp, NEW t, NEW X, NEW Y, Idle(sp) \ X = Idle(t) \ Y,
           \A i \in Idle(sp) \ X : t[i] = sp[i]
    PROVE  \A g, loc : FreeIn(sp, g, loc, X) = FreeIn(t, g, loc, Y)
<1> SUFFICES ASSUME NEW g, NEW loc PROVE FreeIn(sp, g, loc, X) = FreeIn(t, g, loc, Y)
  OBVIOUS
<1>1. \A i \in Idle(sp) \ X : End(t, i) = End(sp, i)
  BY DEF End
<1> QED
  BY <1>1 DEF FreeIn

\* A list is a finite set of pages.
LEMMA FreeInFinite ==
    ASSUME NEW sp, NEW g, NEW loc, NEW X
    PROVE  IsFiniteSet(FreeIn(sp, g, loc, X)) /\ Cardinality(FreeIn(sp, g, loc, X)) \in Nat
<1>1. IsFiniteSet(Pages)
  BY PageHeapAssumption, FS_Interval DEF Pages
<1>2. FreeIn(sp, g, loc, X) \subseteq Pages
  BY DEF FreeIn
<1> QED
  BY <1>1, <1>2, FS_Subset, FS_CardinalityType

\* A free span accounts for its length on the list it is on.
LEMMA FreeInDrop ==
    ASSUME NEW sp, NEW pm, NEW m, Tiling(sp, pm, m), NEW X, NEW j \in Idle(sp) \ X,
           NEW g, NEW loc
    PROVE  Cardinality(FreeIn(sp, g, loc, X))
             = Cardinality(FreeIn(sp, g, loc, X \cup {j}))
                 + (IF sp[j].list = g /\ sp[j].location = loc THEN sp[j].length ELSE 0)
<1> DEFINE A == FreeIn(sp, g, loc, X)
           B == FreeIn(sp, g, loc, X \cup {j})
           C == j .. End(sp, j)
<1>0. IsFiniteSet(A) /\ IsFiniteSet(B) /\ Cardinality(B) \in Nat
  BY FreeInFinite
<1>1. j \in LiveIn(sp)
  BY DEF Idle
<1>2. /\ j \in Int /\ 1 <= j /\ j <= End(sp, j) /\ End(sp, j) <= NPages /\ End(sp, j) \in Int
      /\ End(sp, j) = j + sp[j].length - 1 /\ NPages \in Int /\ sp[j].length \in Int
  BY <1>1, TilingBounds
<1>3. CASE sp[j].list = g /\ sp[j].location = loc
  <2>1. C \subseteq Pages
    BY <1>2 DEF Pages
  <2>2. A = B \cup C
    <3>1. \A p \in Pages : p \in C <=> j <= p /\ p <= End(sp, j)
      BY <1>2 DEF Pages
    <3> HIDE DEF C
    <3> QED
      BY <1>3, <2>1, <3>1 DEF FreeIn
  <2>3. B \cap C = {}
    <3> SUFFICES ASSUME NEW p \in B, p \in C PROVE FALSE
      OBVIOUS
    <3>1. PICK i \in Idle(sp) \ (X \cup {j}) : i <= p /\ p <= End(sp, i)
      BY DEF FreeIn
    <3>2. i \in LiveIn(sp) /\ i # j
      BY <3>1 DEF Idle
    <3>3. i \in Int /\ End(sp, i) \in Int /\ i <= End(sp, i)
      BY <3>2, TilingBounds
    <3>4. (i < j => End(sp, i) < j) /\ (j < i => End(sp, j) < i)
      BY <1>1, <3>2 DEF Tiling, Disjoint
    <3> QED
      BY <1>2, <3>1, <3>2, <3>3, <3>4
  <2>4. IsFiniteSet(C) /\ Cardinality(C) = sp[j].length
    <3>1. IsFiniteSet(C) /\ Cardinality(C) = IF j > End(sp, j) THEN 0 ELSE End(sp, j) - j + 1
      BY <1>2, FS_Interval
    <3> QED
      BY <1>2, <3>1
  <2>5. Cardinality(B \cap C) = 0
    BY <2>3, FS_EmptySet
  <2> HIDE DEF A, B, C
  <2>6. Cardinality(B \cup C) = Cardinality(B) + Cardinality(C) - Cardinality(B \cap C)
    BY <1>0, <2>4, FS_Union
  <2> QED
    BY <1>0, <1>2, <1>3, <2>2, <2>4, <2>5, <2>6 DEF A, B
<1>4. CASE ~ (sp[j].list = g /\ sp[j].location = loc)
  <2>1. A = B
    BY <1>4 DEF FreeIn
  <2> QED
    BY <1>0, <1>4, <2>1
<1> QED
  BY <1>3, <1>4

\* The same for all lists at once.
Dropped(sp, X, j) ==
    \A g, loc :
        Cardinality(FreeIn(sp, g, loc, X))
          = Cardinality(FreeIn(sp, g, loc, X \cup {j}))
              + (IF sp[j].list = g /\ sp[j].location = loc THEN sp[j].length ELSE 0)

\* A free span accounts for its length on the list it is on, whatever list.
LEMMA FreeInDropped ==
    ASSUME NEW sp, NEW pm, NEW m, Tiling(sp, pm, m), NEW X, NEW j \in Idle(sp) \ X
    PROVE  Dropped(sp, X, j)
BY FreeInDrop DEF Dropped

\* A free span is on one of two lists.
LEMMA IdleSpan ==
    ASSUME NEW sp, NEW pm, NEW m, Tiling(sp, pm, m), NEW j \in Idle(sp)
    PROVE  /\ j \in LiveIn(sp) /\ sp[j].location \in {"NORMAL", "RETURNED"}
           /\ sp[j].list \in {"RESTRICT", "OPEN"} /\ sp[j].length \in Int
<1>1. j \in LiveIn(sp) /\ sp[j] \in SpanRecord
  BY DEF Idle, LiveIn, Tiling
<1> QED
  BY <1>1, PageHeapAssumption DEF Idle, LiveIn, SpanRecord, Locations, Types

\* The counters follow when a span leaves a list, of the heap that is told
\* (in a strict program the heap whose list it is).
LEMMA CountsRemove ==
    ASSUME NEW sp, NEW pm, NEW m, Tiling(sp, pm, m), NEW X, NEW j \in Idle(sp) \ X,
           NEW st \in [Types -> StatsRecord], NEW h \in Types, strict => sp[j].list = h,
           Counts(sp, st, X)
    PROVE  Counts(sp, [st EXCEPT ![h] = Count(st[h], sp[j].location, -sp[j].length)], X \cup {j})
<1> DEFINE n == sp[j].length
           c == Count(st[h], sp[j].location, -n)
           u == [st EXCEPT ![h] = c]
           Y == X \cup {j}
           N(g, Z) == Cardinality(FreeIn(sp, g, "NORMAL", Z))
           U(g, Z) == Cardinality(FreeIn(sp, g, "RETURNED", Z))
           a == IF sp[j].location = "NORMAL" THEN n ELSE 0
           b == IF sp[j].location = "NORMAL" THEN 0 ELSE n
<1>1. /\ sp[j].location \in {"NORMAL", "RETURNED"} /\ sp[j].list \in {"RESTRICT", "OPEN"}
      /\ n \in Int /\ -n \in Int /\ a \in Int /\ b \in Int
  BY IdleSpan
<1>2. c.free = st[h].free - a /\ c.unmapped = st[h].unmapped - b
  <2>1. st[h] \in StatsRecord /\ st[h].free \in Int /\ st[h].unmapped \in Int
    BY DEF StatsRecord
  <2> HIDE DEF n
  <2>2. /\ c.free = st[h].free + (IF sp[j].location = "NORMAL" THEN -n ELSE 0)
        /\ c.unmapped = st[h].unmapped + (IF sp[j].location = "NORMAL" THEN 0 ELSE -n)
    BY <1>1, <2>1, CountFields
  <2> HIDE DEF c
  <2> QED
    BY <1>1, <2>1, <2>2
<1>3. \A g \in Types : u[g] = IF g = h THEN c ELSE st[g]
  OBVIOUS
<1>4. ASSUME NEW g \in Types
      PROVE  /\ N(g, X) = N(g, Y) + (IF sp[j].list = g THEN a ELSE 0)
             /\ U(g, X) = U(g, Y) + (IF sp[j].list = g THEN b ELSE 0)
             /\ N(g, Y) \in Int /\ U(g, Y) \in Int
  <2>1. /\ N(g, X) = N(g, Y) + (IF sp[j].list = g /\ sp[j].location = "NORMAL" THEN n ELSE 0)
        /\ U(g, X) = U(g, Y) + (IF sp[j].list = g /\ sp[j].location = "RETURNED" THEN n ELSE 0)
    <3>1. Dropped(sp, X, j)
      BY FreeInDropped
    <3> QED
      BY <3>1 DEF Dropped
  <2>2. N(g, Y) \in Nat /\ U(g, Y) \in Nat
    BY FreeInFinite
  <2> HIDE DEF N, U, n
  <2> QED
    BY <1>1, <2>1, <2>2
<1>5. \A g \in Types : st[g].free \in Int /\ st[g].unmapped \in Int
  BY DEF StatsRecord
<1>6. \A g \in Types : strict => st[g].free = N(g, X) /\ st[g].unmapped = U(g, X)
  BY DEF Counts
<1>7. /\ st["RESTRICT"].free + st["OPEN"].free = N("RESTRICT", X) + N("OPEN", X)
      /\ st["RESTRICT"].unmapped + st["OPEN"].unmapped = U("RESTRICT", X) + U("OPEN", X)
  BY DEF Counts, Pages2
<1> HIDE DEF N, U, a, b, c, u, Y, n
<1>8. ASSUME strict, NEW g \in Types PROVE u[g].free = N(g, Y) /\ u[g].unmapped = U(g, Y)
  BY <1>1, <1>2, <1>3, <1>4, <1>5, <1>6, <1>8
<1>9. "RESTRICT" \in Types /\ "OPEN" \in Types /\ h \in {"RESTRICT", "OPEN"}
  BY DEF Types
<1>10. /\ u["RESTRICT"].free + u["OPEN"].free = N("RESTRICT", Y) + N("OPEN", Y)
       /\ u["RESTRICT"].unmapped + u["OPEN"].unmapped = U("RESTRICT", Y) + U("OPEN", Y)
  <2>1. /\ u["RESTRICT"].free + u["OPEN"].free = st["RESTRICT"].free + st["OPEN"].free - a
        /\ u["RESTRICT"].unmapped + u["OPEN"].unmapped
             = st["RESTRICT"].unmapped + st["OPEN"].unmapped - b
    BY <1>1, <1>2, <1>3, <1>5, <1>9
  <2>2. /\ N("RESTRICT", X) + N("OPEN", X) = N("RESTRICT", Y) + N("OPEN", Y) + a
        /\ U("RESTRICT", X) + U("OPEN", X) = U("RESTRICT", Y) + U("OPEN", Y) + b
    BY <1>1, <1>4, <1>9
  <2>3. N("RESTRICT", Y) + N("OPEN", Y) \in Int /\ U("RESTRICT", Y) + U("OPEN", Y) \in Int
    BY <1>4, <1>9
  <2> DEFINE nx == N("RESTRICT", X) + N("OPEN", X)
             ny == N("RESTRICT", Y) + N("OPEN", Y)
             ux == U("RESTRICT", X) + U("OPEN", X)
             uy == U("RESTRICT", Y) + U("OPEN", Y)
             fs == st["RESTRICT"].free + st["OPEN"].free
             fu == u["RESTRICT"].free + u["OPEN"].free
             rs == st["RESTRICT"].unmapped + st["OPEN"].unmapped
             ru == u["RESTRICT"].unmapped + u["OPEN"].unmapped
  <2>4. fu = fs - a /\ ru = rs - b /\ nx = ny + a /\ ux = uy + b /\ fs = nx /\ rs = ux
    <3>1. fu = fs - a /\ ru = rs - b
      BY <1>1, <1>5, <1>9, <2>1
    <3>2. nx = ny + a /\ ux = uy + b
      BY <2>2
    <3>3. fs = nx /\ rs = ux
      BY <1>7
    <3> QED
      BY <3>1, <3>2, <3>3
  <2>5. ny \in Int /\ uy \in Int
    BY <2>3
  <2> HIDE DEF nx, ny, ux, uy, fs, fu, rs, ru
  <2>6. fu = ny /\ ru = uy
    BY <1>1, <2>4, <2>5
  <2> QED
    BY <2>6 DEF ny, uy, fu, ru
<1> QED
  BY <1>8, <1>10 DEF Counts, Pages2, N, U, u, c, n, Y

\* The counters follow when a span comes to a list of the heap.
LEMMA CountsAdd ==
    ASSUME NEW sp, NEW pm, NEW m, Tiling(sp, pm, m), NEW X, NEW j \in Idle(sp) \ X,
           NEW st \in [Types -> StatsRecord], NEW h \in Types, sp[j].list = h,
           Counts(sp, st, X \cup {j})
    PROVE  Counts(sp, [st EXCEPT ![h] = Count(st[h], sp[j].location, sp[j].length)], X)
<1> DEFINE n == sp[j].length
           c == Count(st[h], sp[j].location, n)
           u == [st EXCEPT ![h] = c]
           Y == X \cup {j}
           N(g, Z) == Cardinality(FreeIn(sp, g, "NORMAL", Z))
           U(g, Z) == Cardinality(FreeIn(sp, g, "RETURNED", Z))
           a == IF sp[j].location = "NORMAL" THEN n ELSE 0
           b == IF sp[j].location = "NORMAL" THEN 0 ELSE n
<1>1. /\ sp[j].location \in {"NORMAL", "RETURNED"}
      /\ n \in Int /\ a \in Int /\ b \in Int
  BY IdleSpan
<1>2. c.free = st[h].free + a /\ c.unmapped = st[h].unmapped + b
  <2>1. st[h] \in StatsRecord
    OBVIOUS
  <2> HIDE DEF n
  <2> QED
    BY <1>1, <2>1, CountFields
<1>3. \A g \in Types : u[g] = IF g = h THEN c ELSE st[g]
  OBVIOUS
<1>4. ASSUME NEW g \in Types
      PROVE  /\ N(g, X) = N(g, Y) + (IF g = h THEN a ELSE 0)
             /\ U(g, X) = U(g, Y) + (IF g = h THEN b ELSE 0)
             /\ N(g, Y) \in Int /\ U(g, Y) \in Int
  <2>0. Dropped(sp, X, j)
    BY FreeInDropped
  <2>1. /\ N(g, X) = N(g, Y) + (IF sp[j].list = g /\ sp[j].location = "NORMAL" THEN n ELSE 0)
        /\ U(g, X) = U(g, Y) + (IF sp[j].list = g /\ sp[j].location = "RETURNED" THEN n ELSE 0)
    BY <2>0 DEF Dropped
  <2>2. N(g, Y) \in Nat /\ U(g, Y) \in Nat
    BY FreeInFinite
  <2> HIDE DEF N, U, n
  <2> QED
    BY <1>1, <2>1, <2>2
<1>5. \A g \in Types : st[g].free \in Int /\ st[g].unmapped \in Int
  BY DEF StatsRecord
<1>6. \A g \in Types : strict => st[g].free = N(g, Y) /\ st[g].unmapped = U(g, Y)
  BY DEF Counts
<1>7. /\ st["RESTRICT"].free + st["OPEN"].free = N("RESTRICT", Y) + N("OPEN", Y)
      /\ st["RESTRICT"].unmapped + st["OPEN"].unmapped = U("RESTRICT", Y) + U("OPEN", Y)
  BY DEF Counts, Pages2
<1> HIDE DEF N, U, a, b, c, u, Y, n
<1>8. ASSUME strict, NEW g \in Types PROVE u[g].free = N(g, X) /\ u[g].unmapped = U(g, X)
  BY <1>1, <1>2, <1>3, <1>4, <1>5, <1>6, <1>8
<1>9. "RESTRICT" \in Types /\ "OPEN" \in Types /\ h \in {"RESTRICT", "OPEN"}
  BY DEF Types
<1>10. /\ u["RESTRICT"].free + u["OPEN"].free = N("RESTRICT", X) + N("OPEN", X)
       /\ u["RESTRICT"].unmapped + u["OPEN"].unmapped = U("RESTRICT", X) + U("OPEN", X)
  <2>1. /\ u["RESTRICT"].free + u["OPEN"].free = st["RESTRICT"].free + st["OPEN"].free + a
        /\ u["RESTRICT"].unmapped + u["OPEN"].unmapped
             = st["RESTRICT"].unmapped + st["OPEN"].unmapped + b
    BY <1>1, <1>2, <1>3, <1>5, <1>9
  <2>2. /\ N("RESTRICT", X) + N("OPEN", X) = N("RESTRICT", Y) + N("OPEN", Y) + a
        /\ U("RESTRICT", X) + U("OPEN", X) = U("RESTRICT", Y) + U("OPEN", Y) + b
    BY <1>1, <1>4, <1>9
  <2> QED
    BY <1>7, <2>1, <2>2
<1> QED
  BY <1>8, <1>10 DEF Counts, Pages2, N, U, u, c, n, Y

\* The counts are of the spans on the lists alone.
LEMMA CountsSame ==
    ASSUME NEW sp, NEW t, NEW X, NEW Y, NEW st, Idle(sp) \ X = Idle(t) \ Y,
           \A i \in Idle(sp) \ X : t[i] = sp[i], Counts(sp, st, X)
    PROVE  Counts(t, st, Y)
<1>1. \A g, loc : FreeIn(sp, g, loc, X) = FreeIn(t, g, loc, Y)
  BY FreeInSame
<1> QED
  BY <1>1 DEF Counts, Pages2

-----------------------------------------------------------------------------
(* Merging.                                                                *)

\* The smaller and the larger of two numbers.
LEMMA MinMaxOfTwo ==
    ASSUME NEW i \in Int, NEW j \in Int, i < j
    PROVE  Min({i, j}) = i /\ Max({i, j}) = j /\ Min({j, i}) = i /\ Max({j, i}) = j
<1>1. \A x \in {i, j} : (\A y \in {i, j} : x <= y) <=> x = i
  OBVIOUS
<1>2. \A x \in {i, j} : (\A y \in {i, j} : x >= y) <=> x = j
  OBVIOUS
<1>3. {i, j} = {j, i}
  OBVIOUS
<1> QED
  BY <1>1, <1>2, <1>3 DEF Min, Max

\* The span i is free and on no list; it is to go to a list of h.
Working(sp, m, i, h) ==
    /\ i \in Idle(sp)
    /\ strict => sp[i].heaptype = h /\ \A p \in i .. End(sp, i) : m[p] = h

\* The released pages among those of a span.
ReturnedOf(r) == IF r.location = "RETURNED" THEN r.length ELSE 0

\* The lower span lo and the span hi after it have become one, which goes on
\* as the span i of the two; j is the other one.
Joined(sp, t, lo, hi, i, j) ==
    /\ LiveIn(t) = LiveIn(sp) \ {hi} /\ End(t, lo) = End(sp, hi)
    /\ t[lo].location = sp[i].location /\ t[lo].heaptype = sp[i].heaptype
    /\ t[lo].length = sp[i].length + sp[j].length
    /\ \A l \in Pages \ {lo, hi} : t[l] = sp[l]

\* The heaps t after Absorb().
AbsorbDone(s, t, m, h, lo, hi, i, j) ==
    /\ t \in Heap /\ Tiling(t.span, t.pagemap, m) /\ Joined(s.span, t.span, lo, hi, i, j)
    /\ t.stats = [s.stats EXCEPT ![h] = Count(s.stats[h], s.span[j].location, -s.span[j].length)]

\* The result of Absorb(), given which of the two spans is the lower one.
LEMMA AbsorbJoins ==
    ASSUME NEW s \in Heap, NEW m, Tiling(s.span, s.pagemap, m), NEW h \in Types,
           NEW lo \in Idle(s.span), NEW hi \in Idle(s.span), hi = End(s.span, lo) + 1,
           NEW i, NEW j, (i = lo /\ j = hi) \/ (i = hi /\ j = lo)
    PROVE  AbsorbDone(s, Absorb(s, h, i, j), m, h, lo, hi, i, j)
<1> DEFINE sp == s.span
           t == Absorb(s, h, i, j)
           r == Merged(sp[i], sp[j])
<1>0. NPages \in Nat
  BY PageHeapAssumption
<1>1. lo \in LiveIn(sp) /\ hi \in LiveIn(sp)
  BY DEF Idle
<1>2. /\ lo \in Int /\ 1 <= lo /\ lo <= End(sp, lo) /\ End(sp, lo) \in Int
      /\ sp[lo].length \in Int /\ sp[lo].length >= 1 /\ End(sp, lo) = lo + sp[lo].length - 1
      /\ sp[lo].start = lo /\ sp[lo] \in SpanRecord /\ lo \in Pages
  BY <1>1, TilingBounds
<1>3. /\ hi \in Int /\ hi <= End(sp, hi) /\ End(sp, hi) <= NPages /\ End(sp, hi) \in Int
      /\ sp[hi].length \in Int /\ sp[hi].length >= 1 /\ End(sp, hi) = hi + sp[hi].length - 1
      /\ sp[hi].start = hi /\ sp[hi] \in SpanRecord /\ hi \in Pages
  BY <1>1, TilingBounds
<1>4. lo < hi /\ Min({i, j}) = lo /\ Max({i, j}) = hi /\ Min({sp[i].start, sp[j].start}) = lo
  <2>1. lo < hi
    BY <1>2, <1>3
  <2>2. Min({lo, hi}) = lo /\ Max({lo, hi}) = hi /\ Min({hi, lo}) = lo /\ Max({hi, lo}) = hi
    BY <1>2, <1>3, <2>1, MinMaxOfTwo
  <2> QED
    BY <1>2, <1>3, <2>1, <2>2
<1>5. sp[i] \in SpanRecord /\ i \in Pages /\ j \in Pages /\ sp[i].length \in Int /\ sp[j].length \in Int
  BY <1>2, <1>3
<1> DEFINE n == sp[i].length + sp[j].length
<1>6. n = sp[lo].length + sp[hi].length /\ n \in 0 .. NPages /\ lo \in 0 .. NPages
  <2>1. n = sp[lo].length + sp[hi].length
    BY <1>2, <1>3
  <2>2. sp[lo].length + sp[hi].length = End(sp, hi) - lo + 1
    BY <1>2, <1>3
  <2>3. sp[lo].length + sp[hi].length \in 0 .. NPages
    BY <1>0, <1>2, <1>3, <2>2
  <2>4. lo \in 0 .. NPages
    BY <1>0, <1>2, <1>3
  <2> QED
    BY <2>1, <2>3, <2>4
<1>7. /\ r \in SpanRecord /\ r.start = lo /\ r.length = sp[lo].length + sp[hi].length
      /\ r.location = sp[i].location /\ r.heaptype = sp[i].heaptype /\ r.sizeclass = sp[i].sizeclass
      /\ r.length = n
  <2> DEFINE q == sp[i]
  <2>1. r = [q EXCEPT !.start = lo, !.length = n]
    BY <1>4 DEF Merged
  <2>2. q \in SpanRecord
    BY <1>5
  <2> HIDE DEF q, n, r
  <2>3. /\ r \in SpanRecord /\ r.start = lo /\ r.length = n
        /\ r.location = q.location /\ r.heaptype = q.heaptype /\ r.sizeclass = q.sizeclass
    BY <1>6, <2>1, <2>2 DEF SpanRecord
  <2> QED
    BY <1>6, <2>3 DEF q
<1>8. r.location # "NONE" /\ r.sizeclass = 0
  <2>1. i \in LiveIn(sp) /\ sp[i].location # "IN_USE"
    BY <1>1 DEF Idle
  <2>2. sp[i].sizeclass = 0
    BY <2>1 DEF Tiling, Led
  <2> QED
    BY <1>7, <2>1, <2>2 DEF LiveIn
<1> HIDE DEF r, n
<1> DEFINE u == [sp EXCEPT ![hi] = NoSpan, ![lo] = r]
<1>9. Tiling(u, Ends(s.pagemap, r), m) /\ End(u, lo) = End(sp, hi) /\ LiveIn(u) = LiveIn(sp) \ {hi}
  <2>1. JoinTiles(sp, s.pagemap, m, lo, hi, r)
    BY <1>1, <1>7, <1>8, TilingJoin
  <2> QED
    BY <2>1 DEF JoinTiles
<1>10. Ends(s.pagemap, r) \in [0 .. NPages + 1 -> 0 .. NPages]
  BY <1>9 DEF Tiling
<1>11. /\ t \in Heap /\ t.pagemap = Ends(s.pagemap, r)
       /\ t.span = [s.span EXCEPT ![Max({i, j})] = NoSpan, ![Min({i, j})] = r]
       /\ t.stats = [s.stats EXCEPT
                     ![h] = Count(s.stats[h], s.span[j].location, -s.span[j].length)]
  <2>1. r \in SpanRecord /\ Min({i, j}) \in Pages /\ Max({i, j}) \in Pages
    BY <1>2, <1>3, <1>4, <1>7
  <2>2. AbsorbEffect(s, h, i, j)
    BY <1>5, <1>10, <2>1, AbsorbFields DEF r
  <2> QED
    BY <2>2 DEF AbsorbEffect, r
<1>12. t.span = u
  BY <1>4, <1>11
<1>13. u[lo] = r /\ \A l \in Pages \ {lo, hi} : u[l] = sp[l]
  BY <1>2, <1>3, <1>4, HeapFields
<1> HIDE DEF u, t
<1>14. Joined(sp, t.span, lo, hi, i, j)
  BY <1>7, <1>9, <1>12, <1>13 DEF Joined, n
<1>15. Tiling(t.span, t.pagemap, m)
  BY <1>9, <1>11, <1>12
<1> QED
  BY <1>11, <1>14, <1>15 DEF AbsorbDone, t

\* The spans that an operation leaves alone stay as they should be.
LEMMA OthersSame ==
    ASSUME NEW sp, NEW t, NEW m, NEW X, NEW Y, LiveIn(sp) \ X = LiveIn(t) \ Y,
           \A l \in LiveIn(sp) \ X : t[l] = sp[l]
    PROVE  /\ Apart(sp, m, X) => Apart(t, m, Y)
           /\ Compact(sp, X) => Compact(t, Y)
           /\ Drained(sp, X) => Drained(t, Y)
<1>1. \A l \in LiveIn(sp) \ X : t[l] = sp[l] /\ End(t, l) = End(sp, l)
  BY DEF End
<1>2. Apart(sp, m, X) => Apart(t, m, Y)
  BY <1>1 DEF Apart, SpanApart
<1>3. Idle(sp) \ X = Idle(t) \ Y
  BY <1>1 DEF Idle
<1>4. \A l \in Idle(sp) \ X : t[l] = sp[l] /\ End(t, l) = End(sp, l)
  BY <1>1 DEF Idle
<1>5. Compact(sp, X) => Compact(t, Y)
  BY <1>3, <1>4 DEF Compact
<1>6. Drained(sp, X) => Drained(t, Y)
  BY <1>1 DEF Drained
<1> QED
  BY <1>2, <1>5, <1>6

\* And so do the counts.
LEMMA OthersCounted ==
    ASSUME NEW sp, NEW t, NEW st, NEW X, NEW Y, LiveIn(sp) \ X = LiveIn(t) \ Y,
           \A l \in LiveIn(sp) \ X : t[l] = sp[l], Counts(sp, st, X)
    PROVE  Counts(t, st, Y)
<1>1. Idle(sp) \ X = Idle(t) \ Y
  BY DEF Idle
<1>2. \A l \in Idle(sp) \ X : t[l] = sp[l]
  BY DEF Idle
<1> QED
  BY <1>1, <1>2, CountsSame

\* The balance of a heap's counters when pages come to a list or leave it.
LEMMA BalancedCount ==
    ASSUME NEW st \in [Types -> StatsRecord], NEW h \in Types, NEW d \in Int, NEW n \in Int,
           NEW loc, Balanced(st, h, d)
    PROVE  /\ [st EXCEPT ![h] = Count(st[h], loc, n)] \in [Types -> StatsRecord]
           /\ Balanced([st EXCEPT ![h] = Count(st[h], loc, n)], h,
                       d - (IF loc = "NORMAL" THEN 0 ELSE n))
           /\ \A m : SystemPages(st, m) => SystemPages([st EXCEPT ![h] = Count(st[h], loc, n)], m)
<1> DEFINE c == Count(st[h], loc, n)
           u == [st EXCEPT ![h] = c]
<1>1. /\ c \in StatsRecord /\ c.system = st[h].system /\ c.committed = st[h].committed
      /\ c.unmapped = st[h].unmapped + (IF loc = "NORMAL" THEN 0 ELSE n)
  BY CountFields
<1>2. \A g \in Types : st[g].system \in Int /\ st[g].committed \in Int /\ st[g].unmapped \in Int
  BY DEF StatsRecord
<1> HIDE DEF c
<1>3. u \in [Types -> StatsRecord] /\ \A g \in Types : u[g] = IF g = h THEN c ELSE st[g]
  BY <1>1
<1> HIDE DEF u
<1>4. Balanced(u, h, d - (IF loc = "NORMAL" THEN 0 ELSE n))
  <2> SUFFICES ASSUME NEW g \in Types
               PROVE  u[g].unmapped + u[g].committed
                        + (IF g = h THEN d - (IF loc = "NORMAL" THEN 0 ELSE n) ELSE 0) = u[g].system
    BY DEF Balanced
  <2>1. st[g].unmapped + st[g].committed + (IF g = h THEN d ELSE 0) = st[g].system
    BY DEF Balanced
  <2>2. CASE g = h
    BY <1>1, <1>2, <1>3, <2>1, <2>2
  <2>3. CASE g # h
    BY <1>3, <2>1, <2>3
  <2> QED
    BY <2>2, <2>3
<1>5. \A m : SystemPages(st, m) => SystemPages(u, m)
  <2>1. "RESTRICT" \in Types /\ "OPEN" \in Types
    BY DEF Types
  <2>2. u["RESTRICT"].system = st["RESTRICT"].system /\ u["OPEN"].system = st["OPEN"].system
    BY <1>1, <1>3, <2>1
  <2> QED
    BY <2>2 DEF SystemPages
<1> QED
  BY <1>3, <1>4, <1>5 DEF u, c

\* Absorb() keeps what is to hold of the heaps, the merged span excepted.
LEMMA AbsorbOK ==
    ASSUME NEW s, NEW m, NEW h \in Types, NEW d \in Int,
           NEW lo \in Idle(s.span), NEW hi \in Idle(s.span), hi = End(s.span, lo) + 1,
           NEW i, NEW j, (i = lo /\ j = hi) \/ (i = hi /\ j = lo),
           HeapOK(s, m, {i}, h, d), Working(s.span, m, i, h),
           s.span[i].heaptype = s.span[j].heaptype
    PROVE  LET t == Absorb(s, h, i, j)
           IN  /\ HeapOK(t, m, {lo}, h, d + ReturnedOf(s.span[j]))
               /\ Working(t.span, m, lo, h)
               /\ Joined(s.span, t.span, lo, hi, i, j)
<1> DEFINE sp == s.span
           t == Absorb(s, h, i, j)
           u == t.span
           st == [s.stats EXCEPT ![h] = Count(s.stats[h], sp[j].location, -sp[j].length)]
<1>1. s \in Heap /\ Tiling(sp, s.pagemap, m) /\ s.stats \in [Types -> StatsRecord]
  BY HeapFields DEF HeapOK
<1>2. /\ t \in Heap /\ Tiling(u, t.pagemap, m) /\ Joined(sp, u, lo, hi, i, j)
      /\ t.stats = st
  <2>1. AbsorbDone(s, t, m, h, lo, hi, i, j)
    BY <1>1, AbsorbJoins
  <2> QED
    BY <2>1 DEF AbsorbDone
<1>3. lo \in LiveIn(sp) /\ hi \in LiveIn(sp) /\ lo # hi /\ lo \in Int /\ i \in LiveIn(sp)
      /\ j \in Idle(sp) \ {i}
  <2>1. lo \in LiveIn(sp) /\ hi \in LiveIn(sp)
    BY DEF Idle
  <2>2. lo \in Int /\ End(sp, lo) \in Int /\ lo <= End(sp, lo)
    BY <1>1, <2>1, TilingBounds
  <2> QED
    BY <2>1, <2>2
<1> HIDE DEF t, u, st, sp
<1>4. LiveIn(sp) \ {i, j} = LiveIn(u) \ {lo} /\ \A l \in LiveIn(sp) \ {i, j} : u[l] = sp[l]
  BY <1>2, <1>3 DEF Joined, LiveIn
<1>5. /\ sp[j].location \in {"NORMAL", "RETURNED"} /\ sp[j].length \in Int
      /\ -sp[j].length \in Int
  <2>1. sp[j].location \in {"NORMAL", "RETURNED"} /\ sp[j].length \in Int
    BY <1>1, <1>3, IdleSpan
  <2> QED
    BY <2>1
<1>6. strict => sp[j].list = h
  <2>1. strict => SpanApart(sp, m, j)
    BY <1>3 DEF HeapOK, Apart, Idle, sp
  <2> QED
    BY <1>3, <2>1 DEF SpanApart, Working, Idle, sp
<1>7. Counts(u, st, {lo})
  <2>1. Counts(sp, s.stats, {i})
    BY DEF HeapOK, sp
  <2>2. Counts(sp, st, {i} \cup {j})
    BY <1>1, <1>3, <1>6, <2>1, CountsRemove DEF st
  <2>3. {i} \cup {j} = {i, j}
    OBVIOUS
  <2> QED
    BY <1>4, <2>2, <2>3, OthersCounted
<1>8. Apart(u, m, {lo}) /\ Compact(u, {lo}) /\ Drained(u, {lo})
  <2>1. Apart(sp, m, {i, j}) /\ Compact(sp, {i, j}) /\ Drained(sp, {i, j})
    BY DEF HeapOK, Apart, Compact, Drained, sp
  <2> QED
    BY <1>4, <2>1, OthersSame
<1>9. Balanced(st, h, d + ReturnedOf(sp[j])) /\ SystemPages(st, m)
  <2>1. Balanced(s.stats, h, d) /\ SystemPages(s.stats, m)
    BY DEF HeapOK
  <2>2. /\ Balanced(st, h, d - (IF sp[j].location = "NORMAL" THEN 0 ELSE -sp[j].length))
        /\ SystemPages(st, m)
    BY <1>1, <1>5, <2>1, BalancedCount DEF st
  <2>3. d - (IF sp[j].location = "NORMAL" THEN 0 ELSE -sp[j].length) = d + ReturnedOf(sp[j])
    BY <1>5 DEF ReturnedOf
  <2> QED
    BY <2>2, <2>3
<1>10. HeapOK(t, m, {lo}, h, d + ReturnedOf(sp[j]))
  BY <1>2, <1>7, <1>8, <1>9 DEF HeapOK, u
<1>11. Working(u, m, lo, h)
  <2>1. i \in Idle(sp) /\ lo \in Pages
    BY <1>3 DEF LiveIn, sp, Idle
  <2>2. lo \in Idle(u)
    BY <1>2, <1>3, <2>1 DEF Joined, Idle
  <2>3. ASSUME strict
        PROVE  u[lo].heaptype = h /\ \A p \in lo .. End(u, lo) : m[p] = h
    <3>1. sp[i].heaptype = h /\ \A p \in i .. End(sp, i) : m[p] = h
      BY <2>3 DEF Working, sp
    <3>2. SpanApart(sp, m, j) /\ sp[j].heaptype = h
      BY <1>3, <2>3, <3>1 DEF HeapOK, Apart, Idle, sp
    <3>3. \A p \in j .. End(sp, j) : m[p] = h
      BY <3>2 DEF SpanApart
    <3>4. \A p \in lo .. End(sp, hi) : p \in lo .. End(sp, lo) \/ p \in hi .. End(sp, hi)
      <4>1. End(sp, lo) \in Int /\ End(sp, hi) \in Int /\ hi = End(sp, lo) + 1
        BY <1>1, <1>3, TilingBounds DEF sp
      <4> QED
        BY <1>3, <4>1
    <3>5. End(u, lo) = End(sp, hi) /\ u[lo].heaptype = sp[i].heaptype
      BY <1>2 DEF Joined
    <3> QED
      BY <3>1, <3>3, <3>4, <3>5
  <2> QED
    BY <2>2, <2>3 DEF Working
<1> QED
  BY <1>2, <1>10, <1>11 DEF t, u, sp

\* No free span before k, or after it, could be merged with it.
LeftDone(sp, k) ==
    strict => \A l \in Idle(sp) \ {k} : k = End(sp, l) + 1 => ~Mergeable(sp[l], sp[k])
RightDone(sp, k) ==
    strict => \A l \in Idle(sp) \ {k} : l = End(sp, k) + 1 => ~Mergeable(sp[k], sp[l])

\* MayMergeSpans() for a free span: the other one is free as well.
LEMMA MayMergeIdle ==
    ASSUME NEW s, NEW i \in Idle(s.span), NEW j \in LiveIn(s.span)
    PROVE  MayMergeSpans(s, i, j) <=> j \in Idle(s.span) /\ Mergeable(s.span[i], s.span[j])
BY DEF MayMergeSpans, Mergeable, Idle

\* Merging changes no span in use.
LEMMA JoinedKeepsUse ==
    ASSUME NEW sp, NEW t, NEW lo \in Idle(sp), NEW hi \in Idle(sp), NEW i \in {lo, hi}, NEW j,
           Joined(sp, t, lo, hi, i, j), lo # hi
    PROVE  UseKept(sp, t)
<1>1. sp[lo].location # "IN_USE" /\ sp[hi].location # "IN_USE" /\ hi \in Pages
  BY DEF Idle, LiveIn
<1>2. t[lo].location # "IN_USE"
  BY <1>1 DEF Joined
<1>3. t[hi].location # "IN_USE"
  BY <1>1 DEF Joined, LiveIn
<1> QED
  BY <1>1, <1>2, <1>3 DEF UseKept, Joined

\* What the first half of MergeIntoFreeList() leads to: s1 with the span k,
\* which is i with the preceding span if they could be merged.
PrevMerged(s, m, i, h, d, s1, k, len, back) ==
    /\ HeapOK(s1, m, {k}, h, d + back) /\ Working(s1.span, m, k, h) /\ LeftDone(s1.span, k)
    /\ s1.span[k].location = s.span[i].location /\ s1.span[k].heaptype = s.span[i].heaptype
    /\ End(s1.span, k) = End(s.span, i) /\ s1.span[k].length = s.span[i].length + len
    /\ \A l \in Pages : l > i => s1.span[l] = s.span[l] \/ l = k
    /\ UseKept(s.span, s1.span)
    /\ k <= i /\ k \in Pages
    /\ LiveIn(s1.span) = LiveIn(s.span) \ {IF k = i THEN 0 ELSE i}

\* The preceding span is merged when it may be.
LEMMA MergePrev ==
    ASSUME NEW s, NEW m, NEW h \in Types, NEW d \in Int, NEW i,
           HeapOK(s, m, {i}, h, d), Working(s.span, m, i, h)
    PROVE  LET prev == s.pagemap[i - 1]
               joins == prev # 0 /\ MayMergeSpans(s, i, prev)
           IN  PrevMerged(s, m, i, h, d, IF joins THEN Absorb(s, h, i, prev) ELSE s,
                          IF joins THEN prev ELSE i, IF joins THEN s.span[prev].length ELSE 0,
                          IF joins THEN ReturnedOf(s.span[prev]) ELSE 0)
<1> DEFINE sp == s.span
           prev == s.pagemap[i - 1]
           joins == prev # 0 /\ MayMergeSpans(s, i, prev)
<1>1. Tiling(sp, s.pagemap, m) /\ i \in Idle(sp) /\ i \in LiveIn(sp)
  BY DEF HeapOK, Working, Idle
<1>2. Neighbours(sp, s.pagemap, i)
  BY <1>1, TilingNeighbours
<1>3. /\ prev # 0 => prev \in LiveIn(sp) /\ prev < i /\ End(sp, prev) = i - 1
      /\ \A j \in LiveIn(sp) : End(sp, j) = i - 1 => prev = j
  BY <1>2 DEF Neighbours
<1>4. i \in Int /\ i \in Pages /\ sp[i].length \in Int /\ 1 <= i
  BY <1>1, TilingBounds
<1> HIDE DEF prev
<1>5. CASE joins
  <2>1. prev \in Idle(sp) /\ Mergeable(sp[i], sp[prev]) /\ prev < i /\ prev \in LiveIn(sp)
    BY <1>1, <1>3, <1>5, MayMergeIdle
  <2>2. prev \in Int /\ End(sp, prev) \in Int /\ prev \in Pages /\ i = End(sp, prev) + 1
    BY <1>1, <1>3, <1>4, <2>1, TilingBounds
  <2> DEFINE t == Absorb(s, h, i, prev)
  <2>3. /\ HeapOK(t, m, {prev}, h, d + ReturnedOf(sp[prev])) /\ Working(t.span, m, prev, h)
        /\ Joined(sp, t.span, prev, i, i, prev)
    <3>1. sp[i].heaptype = sp[prev].heaptype
      BY <2>1 DEF Mergeable
    <3> QED
      BY <1>1, <2>1, <2>2, <3>1, AbsorbOK
  <2> HIDE DEF t
  <2>4. UseKept(sp, t.span)
    <3>1. prev # i
      BY <1>4, <2>1, <2>2
    <3> QED
    BY <1>1, <2>1, <2>3, <3>1, JoinedKeepsUse
  <2>5. LeftDone(t.span, prev)
    <3> SUFFICES ASSUME strict, NEW l \in Idle(t.span) \ {prev}, prev = End(t.span, l) + 1,
                        Mergeable(t.span[l], t.span[prev])
                 PROVE  FALSE
      BY DEF LeftDone
    <3>1. l \in LiveIn(sp) /\ l \in Pages \ {prev, i} /\ t.span[l] = sp[l]
      BY <2>3 DEF Joined, Idle, LiveIn
    <3>2. l \in Idle(sp) \ {i} /\ End(sp, l) = End(t.span, l)
      BY <3>1 DEF Idle, End
    <3>3. prev \in Idle(sp) \ {i}
      BY <1>4, <2>1, <2>2
    <3>4. ~Mergeable(sp[l], sp[prev])
      BY <3>2, <3>3 DEF HeapOK, Compact
    <3> QED
      BY <2>1, <2>3, <3>1, <3>4 DEF Mergeable, Joined
  <2>6. LiveIn(t.span) = LiveIn(sp) \ {i} /\ prev # i
    BY <1>4, <2>1, <2>2, <2>3 DEF Joined
  <2>7. \A l \in Pages : l > i => t.span[l] = sp[l]
    BY <1>4, <2>1, <2>2, <2>3 DEF Joined, Pages
  <2>8. prev <= i
    BY <1>4, <2>1, <2>2
  <2>9. PrevMerged(s, m, i, h, d, t, prev, sp[prev].length, ReturnedOf(sp[prev]))
    BY <2>2, <2>3, <2>4, <2>5, <2>6, <2>7, <2>8 DEF PrevMerged, Joined
  <2> QED
    BY <1>5, <2>9 DEF t, prev
<1>6. CASE ~joins
  <2>1. LeftDone(sp, i)
    <3> SUFFICES ASSUME strict, NEW l \in Idle(sp) \ {i}, i = End(sp, l) + 1,
                        Mergeable(sp[l], sp[i])
                 PROVE  FALSE
      BY DEF LeftDone
    <3>1. l \in LiveIn(sp) /\ l \in Int /\ 1 <= l /\ End(sp, l) \in Int
      BY <1>1, TilingBounds DEF Idle
    <3>2. prev = l /\ prev # 0
      BY <1>3, <1>4, <3>1
    <3>3. MayMergeSpans(s, i, prev)
      BY <1>1, <3>1, <3>2, MayMergeIdle DEF Mergeable
    <3> QED
      BY <1>6, <3>2, <3>3
  <2>2. HeapOK(s, m, {i}, h, d + 0) /\ sp[i].length = sp[i].length + 0 /\ i <= i
    BY <1>4
  <2>3. UseKept(sp, sp) /\ LiveIn(sp) = LiveIn(sp) \ {0}
    BY <1>1, TilingBounds DEF UseKept
  <2>4. PrevMerged(s, m, i, h, d, s, i, 0, 0)
    BY <1>4, <2>1, <2>2, <2>3 DEF PrevMerged
  <2> QED
    BY <1>6, <2>4 DEF prev
<1> QED
  BY <1>5, <1>6

\* And the second half: s2, with the following span merged into k if it may be.
NextMerged(s, m, k, h, d, s2, len, back) ==
    /\ HeapOK(s2, m, {k}, h, d + back) /\ Working(s2.span, m, k, h)
    /\ LeftDone(s2.span, k) /\ RightDone(s2.span, k)
    /\ s2.span[k].location = s.span[k].location /\ s2.span[k].heaptype = s.span[k].heaptype
    /\ s2.span[k].length = s.span[k].length + len
    /\ UseKept(s.span, s2.span)

\* The following span is merged when it may be.
LEMMA MergeNext ==
    ASSUME NEW s, NEW m, NEW h \in Types, NEW d \in Int, NEW k, NEW next,
           HeapOK(s, m, {k}, h, d), Working(s.span, m, k, h), LeftDone(s.span, k),
           next # 0 => next \in LiveIn(s.span) /\ next = End(s.span, k) + 1,
           \A j \in LiveIn(s.span) : j = End(s.span, k) + 1 => next = j
    PROVE  LET joins == next # 0 /\ MayMergeSpans(s, k, next)
           IN  NextMerged(s, m, k, h, d, IF joins THEN Absorb(s, h, k, next) ELSE s,
                          IF joins THEN s.span[next].length ELSE 0,
                          IF joins THEN ReturnedOf(s.span[next]) ELSE 0)
<1> DEFINE sp == s.span
           joins == next # 0 /\ MayMergeSpans(s, k, next)
<1>1. Tiling(sp, s.pagemap, m) /\ k \in Idle(sp) /\ k \in LiveIn(sp)
  BY DEF HeapOK, Working, Idle
<1>2. k \in Int /\ k \in Pages /\ sp[k].length \in Int /\ 1 <= k /\ End(sp, k) \in Int /\ k <= End(sp, k)
  BY <1>1, TilingBounds
<1>3. CASE joins
  <2>1. next \in Idle(sp) /\ Mergeable(sp[k], sp[next]) /\ next \in LiveIn(sp) /\ next = End(sp, k) + 1
    BY <1>1, <1>3, MayMergeIdle
  <2>2. next \in Int /\ End(sp, next) \in Int /\ next \in Pages /\ k < next /\ next # k
        /\ next <= End(sp, next)
    BY <1>1, <1>2, <2>1, TilingBounds
  <2> DEFINE t == Absorb(s, h, k, next)
  <2>3. /\ HeapOK(t, m, {k}, h, d + ReturnedOf(sp[next])) /\ Working(t.span, m, k, h)
        /\ Joined(sp, t.span, k, next, k, next)
    <3>1. sp[k].heaptype = sp[next].heaptype
      BY <2>1 DEF Mergeable
    <3> QED
      BY <1>1, <2>1, <3>1, AbsorbOK
  <2> HIDE DEF t
  <2>4. UseKept(sp, t.span)
    BY <1>1, <2>1, <2>2, <2>3, JoinedKeepsUse
  <2>5. ASSUME NEW l \in Idle(t.span) \ {k}
        PROVE  /\ l \in Idle(sp) \ {k, next} /\ t.span[l] = sp[l]
               /\ End(sp, l) = End(t.span, l)
    <3>1. l \in LiveIn(sp) /\ l \in Pages \ {k, next} /\ t.span[l] = sp[l]
      BY <2>3 DEF Joined, Idle, LiveIn
    <3> QED
      BY <3>1 DEF Idle, End
  <2>6. LeftDone(t.span, k)
    <3> SUFFICES ASSUME strict, NEW l \in Idle(t.span) \ {k}, k = End(t.span, l) + 1
                 PROVE  ~Mergeable(t.span[l], t.span[k])
      BY DEF LeftDone
    <3>1. l \in Idle(sp) \ {k} /\ t.span[l] = sp[l] /\ k = End(sp, l) + 1
      BY <2>5
    <3>2. ~Mergeable(sp[l], sp[k])
      BY <3>1 DEF LeftDone
    <3> QED
      BY <2>3, <3>1, <3>2 DEF Mergeable, Joined
  <2>7. RightDone(t.span, k)
    <3> SUFFICES ASSUME strict, NEW l \in Idle(t.span) \ {k}, l = End(t.span, k) + 1
                 PROVE  ~Mergeable(t.span[k], t.span[l])
      BY DEF RightDone
    <3>1. l \in Idle(sp) \ {k} /\ t.span[l] = sp[l]
      BY <2>5
    <3>2. l = End(sp, next) + 1
      BY <2>3 DEF Joined
    <3>3. next \in Idle(sp) \ {k}
      BY <2>1, <2>2
    <3>4. ~Mergeable(sp[next], sp[l])
      BY <3>1, <3>2, <3>3 DEF HeapOK, Compact
    <3> QED
      BY <2>1, <2>3, <3>1, <3>4 DEF Mergeable, Joined
  <2>8. NextMerged(s, m, k, h, d, t, sp[next].length, ReturnedOf(sp[next]))
    BY <2>3, <2>4, <2>6, <2>7 DEF NextMerged, Joined
  <2> QED
    BY <1>3, <2>8 DEF t
<1>4. CASE ~joins
  <2>1. RightDone(sp, k)
    <3> SUFFICES ASSUME strict, NEW l \in Idle(sp) \ {k}, l = End(sp, k) + 1,
                        Mergeable(sp[k], sp[l])
                 PROVE  FALSE
      BY DEF RightDone
    <3>1. l \in LiveIn(sp) /\ l \in Int /\ 1 <= l
      BY <1>1, TilingBounds DEF Idle
    <3>2. next = l /\ next # 0
      BY <3>1
    <3>3. MayMergeSpans(s, k, next)
      BY <1>1, <3>1, <3>2, MayMergeIdle
    <3> QED
      BY <1>4, <3>2, <3>3
  <2>2. HeapOK(s, m, {k}, h, d + 0) /\ sp[k].length = sp[k].length + 0
    BY <1>2
  <2>3. UseKept(sp, sp)
    BY DEF UseKept
  <2>4. NextMerged(s, m, k, h, d, s, 0, 0)
    BY <2>1, <2>2, <2>3 DEF NextMerged
  <2> QED
    BY <1>4, <2>4
<1> QED
  BY <1>3, <1>4

\* A span gets a new mark or is on a list, and the rest stays: what this means
\* for the spans other than k.
LEMMA Remarked ==
    ASSUME NEW sp, NEW k \in LiveIn(sp), NEW r, r.location # "NONE", r.length = sp[k].length,
           sp \in [Pages -> SpanRecord]
    PROVE  LET t == [sp EXCEPT ![k] = r]
           IN  /\ LiveIn(t) = LiveIn(sp) /\ t[k] = r /\ k \in Pages
               /\ \A l \in Pages \ {k} : t[l] = sp[l]
               /\ \A l \in Pages : End(t, l) = End(sp, l)
               /\ LiveIn(sp) \ {k} = LiveIn(t) \ {k}
               /\ \A l \in LiveIn(sp) \ {k} : t[l] = sp[l]
<1> DEFINE t == [sp EXCEPT ![k] = r]
<1>1. k \in Pages
  BY DEF LiveIn
<1>2. t[k] = r /\ \A l \in Pages \ {k} : t[l] = sp[l]
  BY <1>1
<1> HIDE DEF t
<1>3. LiveIn(t) = LiveIn(sp)
  BY <1>1, <1>2 DEF LiveIn
<1>4. \A l \in Pages : End(t, l) = End(sp, l)
  BY <1>2 DEF End
<1>5. \A l \in LiveIn(sp) \ {k} : t[l] = sp[l]
  BY <1>2 DEF LiveIn
<1> QED
  BY <1>1, <1>2, <1>3, <1>4, <1>5 DEF t

\* DecommitMerged() releases all of the merged span, or is not called for.
LEMMA DecommitOK ==
    ASSUME NEW s, NEW m, NEW h \in Types, NEW d \in Int, NEW k,
           HeapOK(s, m, {k}, h, d), Working(s.span, m, k, h),
           LeftDone(s.span, k), RightDone(s.span, k), aggressive => releases,
           ~aggressive => d = ReturnedOf(s.span[k])
    PROVE  LET t == DecommitMerged(s, h, k, d)
           IN  /\ HeapOK(t, m, {k}, h, ReturnedOf(t.span[k])) /\ Working(t.span, m, k, h)
               /\ LeftDone(t.span, k) /\ RightDone(t.span, k)
               /\ aggressive => t.span[k].location # "NORMAL"
               /\ UseKept(s.span, t.span)
<1> DEFINE t == DecommitMerged(s, h, k, d)
           sp == s.span
<1>1. CASE ~aggressive
  <2>1. t = s
    BY <1>1 DEF DecommitMerged
  <2>2. UseKept(sp, sp)
    BY DEF UseKept
  <2> QED
    BY <1>1, <2>1, <2>2
<1>2. CASE aggressive
  <2>0. s \in Heap /\ Tiling(sp, s.pagemap, m) /\ k \in Idle(sp) /\ k \in LiveIn(sp)
    BY DEF HeapOK, Working, Idle
  <2>1. /\ sp \in [Pages -> SpanRecord] /\ s.stats \in [Types -> StatsRecord] /\ k \in Pages
        /\ sp[k] \in SpanRecord /\ sp[k].length \in Int /\ sp[k].start = k
    BY <2>0, HeapFields, TilingBounds
  <2> DEFINE n == sp[k].length
             r == [sp[k] EXCEPT !.location = "RETURNED"]
             c == [s.stats[h] EXCEPT !.committed = @ - (n - d)]
             u == [sp EXCEPT ![k] = r]
             st == [s.stats EXCEPT ![h] = c]
  <2>2. t = [s EXCEPT !.span = u, !.stats = st]
    BY <1>2, <2>0 DEF DecommitMerged, Heap
  <2>3. /\ r \in SpanRecord /\ r.location = "RETURNED" /\ r.start = sp[k].start /\ r.length = n
        /\ r.sizeclass = sp[k].sizeclass /\ r.heaptype = sp[k].heaptype
    BY <2>1 DEF SpanRecord, Locations
  <2>4. /\ \A g \in Types : s.stats[g].system \in Int /\ s.stats[g].committed \in Int
                            /\ s.stats[g].unmapped \in Int /\ s.stats[g] \in StatsRecord
    BY <2>1 DEF StatsRecord
  <2>5. /\ c \in StatsRecord /\ c.system = s.stats[h].system /\ c.unmapped = s.stats[h].unmapped
        /\ c.free = s.stats[h].free /\ c.committed = s.stats[h].committed - (n - d)
    <3>1. s.stats[h] \in StatsRecord /\ s.stats[h].committed - (n - d) \in Int
      BY <2>1, <2>4
    <3> QED
      BY <3>1 DEF StatsRecord
  <2> HIDE DEF r, c
  <2>6. /\ u \in [Pages -> SpanRecord] /\ st \in [Types -> StatsRecord]
        /\ st[h] = c /\ \A g \in Types \ {h} : st[g] = s.stats[g]
    BY <2>1, <2>3, <2>5
  <2>7. /\ LiveIn(u) = LiveIn(sp) /\ u[k] = r /\ \A l \in Pages \ {k} : u[l] = sp[l]
        /\ \A l \in Pages : End(u, l) = End(sp, l)
        /\ LiveIn(sp) \ {k} = LiveIn(u) \ {k}
        /\ \A l \in LiveIn(sp) \ {k} : u[l] = sp[l]
    <3>1. r.location # "NONE"
      BY <2>3
    <3> QED
      BY <2>0, <2>1, <2>3, <3>1, Remarked
  <2> DEFINE tp == s.pagemap
  <2>8. Tiling(u, tp, m)
    <3>1. sp[k].sizeclass = 0
      BY <2>0 DEF Tiling, Led, Idle
    <3>2. r.location # "NONE" /\ (r.sizeclass # 0 => r.location = "IN_USE" /\ sp[k].sizeclass # 0)
      BY <2>3, <3>1
    <3> QED
      BY <2>0, <2>3, <3>2, TilingRelabel
  <2> HIDE DEF u, st
  <2>9. t.span = u /\ t.stats = st /\ t.pagemap = s.pagemap /\ t \in Heap
    <3>1. t.span = u /\ t.stats = st /\ t.pagemap = s.pagemap
      BY <2>0, <2>2 DEF Heap
    <3>2. t \in Heap
      BY <2>0, <2>2, <2>6 DEF Heap
    <3> QED
      BY <3>1, <3>2
  <2>10. Apart(u, m, {k}) /\ Compact(u, {k}) /\ Drained(u, {k})
    BY <2>7, OthersSame DEF HeapOK
  <2>11. Counts(u, st, {k})
    <3>1. Counts(u, s.stats, {k})
      BY <2>7, OthersCounted DEF HeapOK
    <3>2. \A g \in Types : st[g].free = s.stats[g].free /\ st[g].unmapped = s.stats[g].unmapped
      BY <2>5, <2>6
    <3>3. "RESTRICT" \in Types /\ "OPEN" \in Types
      BY DEF Types
    <3> QED
      BY <3>1, <3>2, <3>3 DEF Counts
  <2>12. Balanced(st, h, n)
    <3> SUFFICES ASSUME NEW g \in Types
                 PROVE  st[g].unmapped + st[g].committed + (IF g = h THEN n ELSE 0) = st[g].system
      BY DEF Balanced
    <3>1. s.stats[g].unmapped + s.stats[g].committed + (IF g = h THEN d ELSE 0) = s.stats[g].system
      BY DEF HeapOK, Balanced
    <3>2. CASE g = h
      <4> HIDE DEF n
      <4>1. n \in Int
        BY <2>1 DEF n
      <4> QED
      BY <2>4, <2>5, <2>6, <3>1, <3>2, <4>1
    <3>3. CASE g # h
      BY <2>6, <3>1, <3>3
    <3> QED
      BY <3>2, <3>3
  <2>13. SystemPages(st, m)
    <3>1. \A g \in Types : st[g].system = s.stats[g].system
      BY <2>5, <2>6
    <3>2. "RESTRICT" \in Types /\ "OPEN" \in Types
      BY DEF Types
    <3> QED
      BY <3>1, <3>2 DEF HeapOK, SystemPages
  <2>14. ReturnedOf(u[k]) = n
    BY <2>3, <2>7 DEF ReturnedOf
  <2>15. HeapOK(t, m, {k}, h, ReturnedOf(u[k]))
    BY <2>8, <2>9, <2>10, <2>11, <2>12, <2>13, <2>14 DEF HeapOK
  <2>16. Idle(u) = Idle(sp)
    BY <2>0, <2>3, <2>7 DEF Idle, LiveIn
  <2>17. Working(u, m, k, h)
    BY <2>1, <2>3, <2>7, <2>16 DEF Working
  <2>18. LeftDone(u, k) /\ RightDone(u, k)
    <3>1. \A l \in Idle(sp) \ {k} : /\ u[l] = sp[l] /\ l \in Pages
                                    /\ Mergeable(u[l], u[k]) <=> Mergeable(sp[l], sp[k])
                                    /\ Mergeable(u[k], u[l]) <=> Mergeable(sp[k], sp[l])
      BY <1>2, <2>3, <2>7 DEF Mergeable, Idle, LiveIn
    <3> QED
      BY <2>1, <2>7, <2>16, <3>1 DEF LeftDone, RightDone
  <2>19. UseKept(sp, u)
    BY <2>0, <2>3, <2>7 DEF UseKept, Idle
  <2> QED
    BY <2>3, <2>7, <2>9, <2>15, <2>17, <2>18, <2>19
<1> QED
  BY <1>1, <1>2

\* Spans in use stay the same over several steps.
LEMMA UseKeptTrans ==
    ASSUME NEW sp, NEW t, NEW u, UseKept(sp, t), UseKept(t, u)
    PROVE  UseKept(sp, u)
BY DEF UseKept

\* Of e released pages that are on no list all but x are those of the span k.
Owed(s, k, e, x) == x \in Int /\ e = ReturnedOf(s.span[k]) + x

\* A span goes to the list of the heap, and all is well again, but for x pages
\* that are to be committed.
LEMMA PrependOK ==
    ASSUME NEW s, NEW m, NEW h \in Types, NEW k, NEW x, NEW e,
           HeapOK(s, m, {k}, h, e), Owed(s, k, e, x), Working(s.span, m, k, h),
           LeftDone(s.span, k), RightDone(s.span, k),
           aggressive => s.span[k].location # "NORMAL"
    PROVE  LET t == PrependToFreeList(s, h, k)
           IN  HeapOK(t, m, {}, h, x) /\ UseKept(s.span, t.span)
<1>a. x \in Int /\ e = ReturnedOf(s.span[k]) + x
  BY DEF Owed
<1> DEFINE t == PrependToFreeList(s, h, k)
           sp == s.span
           n == sp[k].length
           r == [sp[k] EXCEPT !.list = h]
           u == [sp EXCEPT ![k] = r]
           c == Count(s.stats[h], sp[k].location, n)
           st == [s.stats EXCEPT ![h] = c]
<1>0. s \in Heap /\ Tiling(sp, s.pagemap, m) /\ k \in Idle(sp) /\ k \in LiveIn(sp)
  BY DEF HeapOK, Working, Idle
<1>1. /\ sp \in [Pages -> SpanRecord] /\ s.stats \in [Types -> StatsRecord] /\ k \in Pages
      /\ sp[k] \in SpanRecord /\ n \in Int /\ sp[k].location \in {"NORMAL", "RETURNED"}
  BY <1>0, HeapFields, TilingBounds, IdleSpan
<1>2. t \in Heap /\ t.pagemap = s.pagemap /\ t.span = u /\ t.stats = st
  BY <1>0, <1>1, PrependFields
<1>3. /\ r \in SpanRecord /\ r.location = sp[k].location /\ r.start = sp[k].start /\ r.length = n
      /\ r.sizeclass = sp[k].sizeclass /\ r.heaptype = sp[k].heaptype /\ r.list = h
  BY <1>1 DEF SpanRecord
<1> HIDE DEF r, t
<1>4. /\ LiveIn(u) = LiveIn(sp) /\ u[k] = r /\ \A l \in Pages \ {k} : u[l] = sp[l]
      /\ \A l \in Pages : End(u, l) = End(sp, l)
      /\ LiveIn(sp) \ {k} = LiveIn(u) \ {k}
      /\ \A l \in LiveIn(sp) \ {k} : u[l] = sp[l]
  <2>1. r.location # "NONE"
    BY <1>1, <1>3
  <2> QED
    BY <1>0, <1>1, <1>3, <2>1, Remarked
<1>5. Tiling(u, s.pagemap, m)
  <2>1. sp[k].sizeclass = 0
    BY <1>0 DEF Tiling, Led, Idle
  <2>2. r.location # "NONE" /\ (r.sizeclass # 0 => r.location = "IN_USE" /\ sp[k].sizeclass # 0)
    BY <1>1, <1>3, <2>1
  <2> QED
    BY <1>0, <1>3, <2>2, TilingRelabel
<1> HIDE DEF u
<1>6. Idle(u) = Idle(sp) /\ k \in Idle(u) \ {}
  BY <1>0, <1>3, <1>4 DEF Idle, LiveIn
<1>7. Counts(u, st, {})
  <2>1. Counts(u, s.stats, {k})
    BY <1>4, OthersCounted DEF HeapOK
  <2>2. {k} = {} \cup {k}
    OBVIOUS
  <2>3. Counts(u, [s.stats EXCEPT ![h] = Count(s.stats[h], u[k].location, u[k].length)], {})
    <3>1. Counts(u, s.stats, {} \cup {k}) /\ u[k].list = h
      BY <1>3, <1>4, <2>1, <2>2
    <3> QED
      BY <1>1, <1>5, <1>6, <3>1, CountsAdd
  <2>4. u[k].location = sp[k].location /\ u[k].length = n
    BY <1>3, <1>4
  <2> QED
    BY <2>3, <2>4
<1>8. Balanced(st, h, x) /\ SystemPages(st, m)
  <2> DEFINE d == ReturnedOf(sp[k])
  <2>1. Balanced(s.stats, h, d + x) /\ SystemPages(s.stats, m)
    BY <1>a DEF HeapOK
  <2>2. d = (IF sp[k].location = "NORMAL" THEN 0 ELSE n) /\ d \in Int
    BY <1>1 DEF ReturnedOf
  <2> HIDE DEF d
  <2>3. /\ Balanced(st, h, (d + x) - (IF sp[k].location = "NORMAL" THEN 0 ELSE n))
        /\ SystemPages(st, m)
    <3>1. d + x \in Int
      BY <1>a, <2>2
    <3> QED
      BY <1>1, <2>1, <3>1, BalancedCount
  <2>4. (d + x) - (IF sp[k].location = "NORMAL" THEN 0 ELSE n) = x
    BY <1>a, <1>1, <2>2
  <2> QED
    BY <2>3, <2>4
<1>9. Apart(u, m, {})
  <2>1. Apart(u, m, {k})
    BY <1>4, OthersSame DEF HeapOK
  <2>2. strict => SpanApart(u, m, k)
    BY <1>0, <1>1, <1>3, <1>4 DEF SpanApart, Working, Idle
  <2> QED
    BY <2>1, <2>2 DEF Apart
<1>10. Drained(u, {})
  <2>1. Drained(u, {k})
    BY <1>4, OthersSame DEF HeapOK
  <2> QED
    BY <1>3, <1>4, <2>1 DEF Drained
<1>11. Compact(u, {})
  <2>0. Compact(u, {k})
    BY <1>4, OthersSame DEF HeapOK
  <2> SUFFICES ASSUME strict, NEW i \in Idle(u), NEW j \in Idle(u), j = End(u, i) + 1
               PROVE  ~Mergeable(u[i], u[j])
    BY DEF Compact
  <2>1. i \in LiveIn(sp) /\ i \in Int /\ End(sp, i) \in Int /\ i <= End(sp, i) /\ End(u, i) = End(sp, i)
        /\ i \in Pages
    BY <1>0, <1>4, <1>6, TilingBounds DEF Idle, LiveIn
  <2>2. i # j
    BY <2>1
  <2>3. \A l \in Idle(sp) \ {k} : u[l] = sp[l]
    BY <1>4 DEF Idle
  <2>4. CASE i = k
    <3>1. j \in Idle(sp) \ {k} /\ j = End(sp, k) + 1
      BY <1>6, <2>1, <2>2, <2>4
    <3> QED
      BY <1>3, <1>4, <2>3, <2>4, <3>1 DEF RightDone, Mergeable
  <2>5. CASE j = k
    <3>1. i \in Idle(sp) \ {k} /\ k = End(sp, i) + 1
      BY <1>6, <2>1, <2>2, <2>5
    <3> QED
      BY <1>3, <1>4, <2>3, <2>5, <3>1 DEF LeftDone, Mergeable
  <2>6. CASE i # k /\ j # k
    BY <2>0, <2>6 DEF Compact
  <2> QED
    BY <2>4, <2>5, <2>6
<1>12. UseKept(sp, u)
  BY <1>0, <1>3, <1>4 DEF UseKept, Idle
<1> QED
  BY <1>2, <1>5, <1>7, <1>8, <1>9, <1>10, <1>11, <1>12 DEF HeapOK, t

\* MergeIntoFreeList() as a whole.
LEMMA MergeOK ==
    ASSUME NEW s, NEW m, NEW h \in Types, NEW i,
           HeapOK(s, m, {i}, h, ReturnedOf(s.span[i])), Working(s.span, m, i, h),
           aggressive => releases, aggressive => s.span[i].location = "NORMAL"
    PROVE  LET t == MergeIntoFreeList(s, h, i)
           IN  HeapOK(t, m, {}, h, 0) /\ UseKept(s.span, t.span)
<1> DEFINE sp == s.span
           prev == s.pagemap[i - 1]
           next == s.pagemap[End(sp, i) + 1]
           jp == prev # 0 /\ MayMergeSpans(s, i, prev)
           jn == next # 0 /\ MayMergeSpans(s, i, next)
           bp == IF jp THEN ReturnedOf(sp[prev]) ELSE 0
           bn == IF jn THEN ReturnedOf(sp[next]) ELSE 0
           lp == IF jp THEN sp[prev].length ELSE 0
           ln == IF jn THEN sp[next].length ELSE 0
           k == IF jp THEN prev ELSE i
           s1 == IF jp THEN Absorb(s, h, i, prev) ELSE s
           s2 == IF jn THEN Absorb(s1, h, k, next) ELSE s1
           d == ReturnedOf(sp[i])
<1>0. s \in Heap /\ Tiling(sp, s.pagemap, m) /\ i \in Idle(sp) /\ i \in LiveIn(sp)
  BY DEF HeapOK, Working, Idle
<1>1. /\ i \in Int /\ 1 <= i /\ i <= End(sp, i) /\ End(sp, i) \in Int /\ sp[i].length \in Int
      /\ sp[i].start = i /\ End(sp, i) = i + sp[i].length - 1
  BY <1>0, TilingBounds
<1>2. MergeIntoFreeList(s, h, i) = PrependToFreeList(DecommitMerged(s2, h, k, bp + bn), h, k)
  <2>1. sp[i].start - 1 = i - 1 /\ Last(sp[i]) + 1 = End(sp, i) + 1
    BY <1>1 DEF Last
  <2>2. /\ bp = IF jp /\ sp[prev].location = "RETURNED" THEN sp[prev].length ELSE 0
        /\ bn = IF jn /\ sp[next].location = "RETURNED" THEN sp[next].length ELSE 0
    BY DEF ReturnedOf
  <2> HIDE DEF bp, bn
  <2> QED
    BY <2>1, <2>2 DEF MergeIntoFreeList
<1>3. Neighbours(sp, s.pagemap, i)
  BY <1>0, TilingNeighbours
<1>4. /\ prev # 0 => prev \in LiveIn(sp)
      /\ next # 0 => next \in LiveIn(sp) /\ next = End(sp, i) + 1
      /\ \A j \in LiveIn(sp) : j = End(sp, i) + 1 => next = j
  BY <1>3 DEF Neighbours
<1>5. /\ prev # 0 => sp[prev].length \in Int
      /\ next # 0 => sp[next].length \in Int /\ next \in Int /\ next \in Pages
  BY <1>0, <1>4, TilingBounds
<1>6. bp \in Int /\ bn \in Int /\ d \in Int /\ lp \in Int /\ ln \in Int
  BY <1>1, <1>5 DEF ReturnedOf
<1>7. PrevMerged(s, m, i, h, d, s1, k, lp, bp)
  <2> HIDE DEF d
  <2>1. HeapOK(s, m, {i}, h, d)
    BY DEF d
  <2> QED
    BY <1>6, <2>1, MergePrev
<1>8. ~aggressive => bp = ReturnedOf([sp[i] EXCEPT !.length = lp])
                     /\ bn = ReturnedOf([sp[i] EXCEPT !.length = ln])
  BY DEF MayMergeSpans, ReturnedOf
<1> HIDE DEF prev, next, s1, k, bp, bn, lp, ln, d
<1>9. jn <=> next # 0 /\ MayMergeSpans(s1, k, next)
  <2> SUFFICES ASSUME next # 0 PROVE MayMergeSpans(s1, k, next) <=> MayMergeSpans(s, i, next)
    OBVIOUS
  <2>1. next > i /\ next # k
    <3>1. k <= i /\ k \in Pages /\ k \in Int
      BY <1>7 DEF PrevMerged, Pages
    <3> QED
      BY <1>1, <1>4, <1>5, <3>1
  <2>2. s1.span[next] = sp[next]
    BY <1>5, <1>7, <2>1 DEF PrevMerged
  <2> QED
    BY <1>7, <2>2 DEF PrevMerged, MayMergeSpans
<1>10. next # 0 => s1.span[next] = sp[next]
  <2> SUFFICES ASSUME next # 0 PROVE s1.span[next] = sp[next]
    OBVIOUS
  <2>1. next > i /\ next # k
    <3>1. k <= i /\ k \in Pages /\ k \in Int
      BY <1>7 DEF PrevMerged, Pages
    <3> QED
      BY <1>1, <1>4, <1>5, <3>1
  <2> QED
    BY <1>5, <1>7, <2>1 DEF PrevMerged
<1>11. NextMerged(s1, m, k, h, d + bp, s2, ln, bn)
  <2>1. next # 0 => next \in LiveIn(s1.span) /\ next = End(s1.span, k) + 1
    BY <1>1, <1>4, <1>7 DEF PrevMerged
  <2>2. \A j \in LiveIn(s1.span) : j = End(s1.span, k) + 1 => next = j
    BY <1>4, <1>7 DEF PrevMerged
  <2>3. d + bp \in Int
    BY <1>6
  <2>4. HeapOK(s1, m, {k}, h, d + bp) /\ Working(s1.span, m, k, h) /\ LeftDone(s1.span, k)
    BY <1>7 DEF PrevMerged
  <2> DEFINE joins == next # 0 /\ MayMergeSpans(s1, k, next)
  <2>5. NextMerged(s1, m, k, h, d + bp, IF joins THEN Absorb(s1, h, k, next) ELSE s1,
                   IF joins THEN s1.span[next].length ELSE 0,
                   IF joins THEN ReturnedOf(s1.span[next]) ELSE 0)
    BY <2>1, <2>2, <2>3, <2>4, MergeNext
  <2>6. /\ s2 = IF joins THEN Absorb(s1, h, k, next) ELSE s1
        /\ ln = IF joins THEN s1.span[next].length ELSE 0
        /\ bn = IF joins THEN ReturnedOf(s1.span[next]) ELSE 0
    BY <1>9, <1>10 DEF ln, bn
  <2> HIDE DEF s2, joins
  <2> QED
    BY <2>5, <2>6
<1> HIDE DEF s2, jp, jn
<1> DEFINE e == (d + bp) + bn
<1>12. e \in Int /\ HeapOK(s2, m, {k}, h, e)
  BY <1>6, <1>11 DEF NextMerged
<1>13. ~aggressive => e = ReturnedOf(s2.span[k])
  <2>1. s2.span[k].location = sp[i].location /\ s2.span[k].length = (sp[i].length + lp) + ln
    BY <1>7, <1>11 DEF PrevMerged, NextMerged
  <2>2. sp[i] \in SpanRecord
    BY <1>0, TilingBounds
  <2>3. /\ ReturnedOf([sp[i] EXCEPT !.length = lp]) = IF sp[i].location = "RETURNED" THEN lp ELSE 0
        /\ ReturnedOf([sp[i] EXCEPT !.length = ln]) = IF sp[i].location = "RETURNED" THEN ln ELSE 0
    BY <2>2 DEF ReturnedOf, SpanRecord
  <2> QED
    BY <1>1, <1>6, <1>8, <2>1, <2>3 DEF ReturnedOf, d
<1>14. DecommitMerged(s2, h, k, bp + bn) = DecommitMerged(s2, h, k, e)
  <2>1. CASE aggressive
    <3>1. d = 0
      BY <2>1 DEF d, ReturnedOf
    <3>2. bp + bn = e
      BY <1>6, <3>1
    <3> QED
      BY <3>2
  <2>2. CASE ~aggressive
    BY <2>2 DEF DecommitMerged
  <2> QED
    BY <2>1, <2>2
<1> HIDE DEF e
<1> DEFINE s3 == DecommitMerged(s2, h, k, e)
<1>15. /\ HeapOK(s3, m, {k}, h, ReturnedOf(s3.span[k])) /\ Working(s3.span, m, k, h)
       /\ LeftDone(s3.span, k) /\ RightDone(s3.span, k)
       /\ aggressive => s3.span[k].location # "NORMAL"
       /\ UseKept(s2.span, s3.span)
  <2>1. Working(s2.span, m, k, h) /\ LeftDone(s2.span, k) /\ RightDone(s2.span, k)
    BY <1>11 DEF NextMerged
  <2> QED
    BY <1>12, <1>13, <2>1, DecommitOK
<1> HIDE DEF s3
<1> DEFINE t == PrependToFreeList(s3, h, k)
<1>16. HeapOK(t, m, {}, h, 0) /\ UseKept(s3.span, t.span)
  <2>1. ReturnedOf(s3.span[k]) \in Int
    <3>1. Tiling(s3.span, s3.pagemap, m) /\ k \in LiveIn(s3.span)
      BY <1>15 DEF HeapOK, Working, Idle
    <3>2. s3.span[k].length \in Int
      BY <3>1, TilingBounds
    <3> QED
      BY <3>2 DEF ReturnedOf
  <2>2. ReturnedOf(s3.span[k]) + 0 = ReturnedOf(s3.span[k])
    BY <2>1
  <2> DEFINE z == ReturnedOf(s3.span[k])
  <2>3. HeapOK(s3, m, {k}, h, z) /\ Owed(s3, k, z, 0)
    BY <1>15, <2>2 DEF Owed
  <2> HIDE DEF z
  <2>4. /\ Working(s3.span, m, k, h) /\ LeftDone(s3.span, k) /\ RightDone(s3.span, k)
        /\ aggressive => s3.span[k].location # "NORMAL"
    BY <1>15
  <2> QED
    BY <2>3, <2>4, PrependOK
<1> HIDE DEF t
<1>17. UseKept(sp, t.span)
  <2>1. UseKept(sp, s1.span) /\ UseKept(s1.span, s2.span)
    BY <1>7, <1>11 DEF PrevMerged, NextMerged
  <2>2. UseKept(sp, s2.span)
    BY <2>1, UseKeptTrans
  <2>3. UseKept(sp, s3.span)
    BY <1>15, <2>2, UseKeptTrans
  <2> QED
    BY <1>16, <2>3, UseKeptTrans
<1>18. MergeIntoFreeList(s, h, i) = t
  BY <1>2, <1>14 DEF t, s3
<1> QED
  BY <1>16, <1>17, <1>18

-----------------------------------------------------------------------------
(* Releasing and freeing.                                                  *)

\* A span is given new marks and the counters of the heap are changed, and the
\* lists of the other spans are left alone.
Marked(s, t, k, r, h, c) ==
    /\ t \in Heap /\ t.span = [s.span EXCEPT ![k] = r] /\ t.pagemap = s.pagemap
    /\ t.stats = [s.stats EXCEPT ![h] = c]

\* The span k, now r, may be put on a list of h; the others are as before.
Ready(s, t, m, h, k, r, d) ==
    /\ HeapOK(t, m, {k}, h, d) /\ Working(t.span, m, k, h)
    /\ t.span[k] = r /\ \A l \in Pages \ {k} : t.span[l] = s.span[l]

\* What is then to be shown.
LEMMA MarkedOK ==
    ASSUME NEW s, NEW t, NEW m, NEW h \in Types, NEW k, NEW r, NEW c, NEW d,
           s \in Heap, Tiling(s.span, s.pagemap, m), k \in LiveIn(s.span),
           Apart(s.span, m, {k}), Compact(s.span, {k}), Drained(s.span, {k}),
           Counts(s.span, t.stats, {k}), Balanced(t.stats, h, d), SystemPages(t.stats, m),
           Marked(s, t, k, r, h, c), r \in SpanRecord, r.location \in {"NORMAL", "RETURNED"},
           r.start = s.span[k].start, r.length = s.span[k].length, r.sizeclass = 0,
           strict => r.heaptype = h /\ \A p \in k .. End(s.span, k) : m[p] = h
    PROVE  Ready(s, t, m, h, k, r, d)
<1> DEFINE sp == s.span
           u == [sp EXCEPT ![k] = r]
<1>1. sp \in [Pages -> SpanRecord] /\ r.location # "NONE" /\ r.location # "IN_USE"
  BY HeapFields
<1>2. /\ LiveIn(u) = LiveIn(sp) /\ u[k] = r /\ \A l \in Pages \ {k} : u[l] = sp[l]
      /\ \A l \in Pages : End(u, l) = End(sp, l)
      /\ LiveIn(sp) \ {k} = LiveIn(u) \ {k}
      /\ \A l \in LiveIn(sp) \ {k} : u[l] = sp[l] /\ k \in Pages
  BY <1>1, Remarked
<1>3. Tiling(u, s.pagemap, m)
  BY <1>1, TilingRelabel
<1>4. t \in Heap /\ t.span = u /\ t.pagemap = s.pagemap
  BY DEF Marked
<1> HIDE DEF u
<1>5. Apart(u, m, {k}) /\ Compact(u, {k}) /\ Drained(u, {k})
  BY <1>2, OthersSame
<1>6. Counts(u, t.stats, {k})
  BY <1>2, OthersCounted
<1>7. HeapOK(t, m, {k}, h, d)
  BY <1>3, <1>4, <1>5, <1>6 DEF HeapOK
<1>8. k \in Idle(u) /\ k \in Pages
  BY <1>1, <1>2 DEF Idle, LiveIn
<1>9. Working(u, m, k, h)
  BY <1>2, <1>8 DEF Working
<1> QED
  BY <1>2, <1>4, <1>7, <1>9 DEF Ready

\* ReleaseLastNormalSpan() of a normal span of the heap.
LEMMA ReleaseLastOK ==
    ASSUME NEW s, NEW m, NEW h \in Types, NEW i \in Normal(s, h),
           HeapOK(s, m, {}, h, 0), aggressive => releases
    PROVE  LET t == ReleaseLastNormalSpan(s, h, i)
           IN  /\ HeapOK(t, m, {}, h, 0) /\ UseKept(s.span, t.span)
               /\ s.span[i].length \in Int
<1> DEFINE sp == s.span
           n == sp[i].length
           c == [s.stats[h] EXCEPT !.committed = @ - n]
           a == [s EXCEPT !.stats[h].committed = @ - n]
           b == RemoveFromFreeList(a, h, i)
           r == [sp[i] EXCEPT !.location = "RETURNED"]
           e == [b EXCEPT !.span[i].location = "RETURNED"]
           t == ReleaseLastNormalSpan(s, h, i)
<1>0. s \in Heap /\ Tiling(sp, s.pagemap, m)
  BY DEF HeapOK
<1>1. i \in LiveIn(sp) /\ i \in Idle(sp) /\ sp[i].list = h /\ sp[i].location = "NORMAL" /\ i \in Pages
  BY DEF Normal, Listed, Live, InUse, LiveIn, Idle
<1>2. /\ sp \in [Pages -> SpanRecord] /\ s.stats \in [Types -> StatsRecord]
      /\ sp[i] \in SpanRecord /\ n \in Int
  BY <1>0, <1>1, HeapFields, TilingBounds
<1>3. /\ s.stats[h] \in StatsRecord
      /\ \A g \in Types : s.stats[g].system \in Int /\ s.stats[g].committed \in Int
                          /\ s.stats[g].unmapped \in Int /\ s.stats[g].free \in Int
  BY <1>2 DEF StatsRecord
<1>4. /\ c \in StatsRecord /\ c.system = s.stats[h].system /\ c.unmapped = s.stats[h].unmapped
      /\ c.free = s.stats[h].free /\ c.committed = s.stats[h].committed - n
  <2>1. s.stats[h].committed - n \in Int
    BY <1>2, <1>3
  <2> QED
    BY <1>3, <2>1 DEF StatsRecord
<1> DEFINE st1 == [s.stats EXCEPT ![h] = c]
<1>5. a = [s EXCEPT !.stats = st1]
  BY <1>0 DEF Heap
<1> HIDE DEF c, a
<1>6. st1 \in [Types -> StatsRecord] /\ st1[h] = c /\ \A g \in Types \ {h} : st1[g] = s.stats[g]
  BY <1>2, <1>4
<1> HIDE DEF st1
<1>7. a \in Heap /\ a.span = sp /\ a.pagemap = s.pagemap /\ a.stats = st1
  <2>1. a.span = sp /\ a.pagemap = s.pagemap /\ a.stats = st1
    BY <1>0, <1>5 DEF Heap
  <2>2. a \in Heap
    BY <1>0, <1>5, <1>6 DEF Heap
  <2> QED
    BY <2>1, <2>2
<1> DEFINE f == Count(c, "NORMAL", -n)
<1>8. /\ b \in Heap /\ b.span = sp /\ b.pagemap = s.pagemap
      /\ b.stats = [st1 EXCEPT ![h] = f]
  <2>1. /\ b \in Heap /\ b.span = a.span /\ b.pagemap = a.pagemap
        /\ b.stats = [a.stats EXCEPT
              ![h] = Count(a.stats[h], a.span[i].location, -a.span[i].length)]
    BY <1>1, <1>7, RemoveFields
  <2> QED
    BY <1>1, <1>6, <1>7, <2>1
<1> HIDE DEF b
<1>9. -n \in Int
  BY <1>2
<1>10. Counts(sp, b.stats, {i}) /\ Balanced(b.stats, h, n) /\ SystemPages(b.stats, m)
  <2>1. Counts(sp, st1, {})
    <3>1. \A g \in Types : st1[g].free = s.stats[g].free /\ st1[g].unmapped = s.stats[g].unmapped
      BY <1>4, <1>6
    <3>2. "RESTRICT" \in Types /\ "OPEN" \in Types
      BY DEF Types
    <3> QED
      BY <3>1, <3>2 DEF Counts, HeapOK
  <2>2. Balanced(st1, h, n)
    <3> SUFFICES ASSUME NEW g \in Types
                 PROVE  st1[g].unmapped + st1[g].committed + (IF g = h THEN n ELSE 0) = st1[g].system
      BY DEF Balanced
    <3>1. s.stats[g].unmapped + s.stats[g].committed + (IF g = h THEN 0 ELSE 0) = s.stats[g].system
      BY DEF HeapOK, Balanced
    <3> HIDE DEF n
    <3>2. CASE g = h
      BY <1>2, <1>3, <1>4, <1>6, <3>1, <3>2
    <3>3. CASE g # h
      BY <1>3, <1>6, <3>1, <3>3
    <3> QED
      BY <3>2, <3>3
  <2>3. SystemPages(st1, m)
    <3>1. \A g \in Types : st1[g].system = s.stats[g].system
      BY <1>4, <1>6
    <3>2. "RESTRICT" \in Types /\ "OPEN" \in Types
      BY DEF Types
    <3> QED
      BY <3>1, <3>2 DEF HeapOK, SystemPages
  <2>4. Counts(sp, b.stats, {} \cup {i})
    <3>1. i \in Idle(sp) \ {} /\ (strict => sp[i].list = h)
      BY <1>1
    <3>2. b.stats = [st1 EXCEPT ![h] = Count(st1[h], sp[i].location, -sp[i].length)]
      BY <1>1, <1>6, <1>8
    <3>3. Counts(sp, [st1 EXCEPT ![h] = Count(st1[h], sp[i].location, -sp[i].length)], {} \cup {i})
      BY <1>0, <1>6, <2>1, <3>1, CountsRemove
    <3> QED
      BY <3>2, <3>3
  <2>5. Balanced(b.stats, h, n - (IF "NORMAL" = "NORMAL" THEN 0 ELSE -n)) /\ SystemPages(b.stats, m)
    <3>1. b.stats = [st1 EXCEPT ![h] = Count(st1[h], "NORMAL", -n)]
      BY <1>6, <1>8
    <3> HIDE DEF n
    <3> DEFINE st2 == [st1 EXCEPT ![h] = Count(st1[h], "NORMAL", -n)]
    <3>2. /\ Balanced(st2, h, n - (IF "NORMAL" = "NORMAL" THEN 0 ELSE -n))
          /\ \A w : SystemPages(st1, w) => SystemPages(st2, w)
      BY <1>2, <1>6, <1>9, <2>2, BalancedCount
    <3> HIDE DEF st2
    <3>3. b.stats = st2
      BY <3>1 DEF st2
    <3> QED
      BY <2>3, <3>2, <3>3
  <2>6. n - (IF "NORMAL" = "NORMAL" THEN 0 ELSE -n) = n
    BY <1>2
  <2>7. {} \cup {i} = {i}
    OBVIOUS
  <2> QED
    BY <2>4, <2>5, <2>6, <2>7
<1>11. /\ r \in SpanRecord /\ r.location = "RETURNED" /\ r.start = sp[i].start
       /\ r.length = sp[i].length /\ r.sizeclass = sp[i].sizeclass /\ r.heaptype = sp[i].heaptype
  BY <1>2 DEF SpanRecord, Locations
<1>12. e = [b EXCEPT !.span = [sp EXCEPT ![i] = r]]
  BY <1>8 DEF Heap
<1> HIDE DEF r, f, e
<1>13. Marked(b, e, i, r, h, f)
  <2>1. [sp EXCEPT ![i] = r] \in [Pages -> SpanRecord]
    BY <1>2, <1>11
  <2>2. e \in Heap
    BY <1>8, <1>12, <2>1 DEF Heap
  <2>3. e.span = [sp EXCEPT ![i] = r] /\ e.pagemap = b.pagemap /\ e.stats = b.stats
    BY <1>8, <1>12 DEF Heap
  <2>4. b.stats = [b.stats EXCEPT ![h] = f]
    BY <1>6, <1>8
  <2> QED
    BY <1>8, <2>2, <2>3, <2>4 DEF Marked
<1>14. e.stats = b.stats
  BY <1>8, <1>12 DEF Heap
<1>15. strict => r.heaptype = h /\ \A p \in i .. End(sp, i) : m[p] = h
  <2>1. strict => SpanApart(sp, m, i)
    BY <1>1 DEF HeapOK, Apart
  <2> QED
    BY <1>1, <1>11, <2>1 DEF SpanApart
<1>16. r.sizeclass = 0
  BY <1>0, <1>1, <1>11 DEF Tiling, Led, Idle
<1>17. Apart(sp, m, {i}) /\ Compact(sp, {i}) /\ Drained(sp, {i})
  BY DEF HeapOK, Apart, Compact, Drained
<1>18. /\ HeapOK(e, m, {i}, h, n) /\ Working(e.span, m, i, h)
       /\ e.span[i] = r /\ \A l \in Pages \ {i} : e.span[l] = sp[l]
  <2> HIDE DEF n
  <2>1. /\ b \in Heap /\ Tiling(b.span, b.pagemap, m) /\ i \in LiveIn(b.span)
        /\ Apart(b.span, m, {i}) /\ Compact(b.span, {i}) /\ Drained(b.span, {i})
        /\ Counts(b.span, e.stats, {i}) /\ Balanced(e.stats, h, n) /\ SystemPages(e.stats, m)
    BY <1>0, <1>1, <1>8, <1>10, <1>14, <1>17
  <2>2. /\ r \in SpanRecord /\ r.location \in {"NORMAL", "RETURNED"}
        /\ r.start = b.span[i].start /\ r.length = b.span[i].length /\ r.sizeclass = 0
        /\ strict => r.heaptype = h /\ \A p \in i .. End(b.span, i) : m[p] = h
    BY <1>8, <1>11, <1>15, <1>16
  <2>3. Ready(b, e, m, h, i, r, n)
    BY <1>13, <2>1, <2>2, MarkedOK
  <2> QED
    BY <1>8, <2>3 DEF Ready
<1>19. ~aggressive
  BY <1>1 DEF HeapOK, Drained
<1>20. n = ReturnedOf(e.span[i])
  BY <1>11, <1>18 DEF ReturnedOf
<1>21. t = MergeIntoFreeList(e, h, i)
  BY DEF ReleaseLastNormalSpan, e, b, a
<1>22. HeapOK(t, m, {}, h, 0) /\ UseKept(e.span, t.span)
  BY <1>18, <1>19, <1>20, <1>21, MergeOK
<1>23. UseKept(sp, e.span)
  BY <1>1, <1>11, <1>18 DEF UseKept
<1> HIDE DEF t
<1>24. UseKept(sp, t.span)
  BY <1>22, <1>23, UseKeptTrans
<1> QED
  BY <1>2, <1>22, <1>24 DEF t

\* With no normal span on its lists but free_bytes not 0 a heap has got spans of
\* the other one.
LEMMA SpinOK ==
    ASSUME NEW s, NEW m, NEW h \in Types, HeapOK(s, m, {}, h, 0),
           Normal(s, h) = {}, s.stats[h].free # 0
    PROVE  LET t == [s EXCEPT !.loop = "SPINS"]
           IN  HeapOK(t, m, {}, h, 0) /\ t.span = s.span
<1> DEFINE t == [s EXCEPT !.loop = "SPINS"]
<1>1. s \in Heap
  BY DEF HeapOK
<1>2. ~strict
  <2> SUFFICES ASSUME strict PROVE FALSE
    OBVIOUS
  <2>1. FreeIn(s.span, h, "NORMAL", {}) = {}
    BY DEF FreeIn, Idle, LiveIn, Normal, Listed, Live, InUse
  <2>2. s.stats[h].free = Cardinality(FreeIn(s.span, h, "NORMAL", {}))
    BY DEF HeapOK, Counts
  <2> QED
    BY <2>1, <2>2, FS_EmptySet
<1>3. "SPINS" \in Loops
  BY <1>2 DEF Loops
<1>4. t \in Heap /\ t.span = s.span /\ t.pagemap = s.pagemap /\ t.stats = s.stats
  BY <1>1, <1>3 DEF Heap
<1> HIDE DEF t
<1>5. HeapOK(t, m, {}, h, 0)
  BY <1>4 DEF HeapOK
<1> QED
  BY <1>4, <1>5 DEF t

\* ReleaseAtLeastNPages(), by induction over its rounds.
LEMMA ReleaseOK ==
    ASSUME NEW s, NEW m, NEW h \in Types, NEW num,
           HeapOK(s, m, {}, h, 0), aggressive => releases
    PROVE  LET t == ReleaseAtLeastNPages(s, h, num).s
           IN  HeapOK(t, m, {}, h, 0) /\ UseKept(s.span, t.span)
<1> DEFINE W == [s : Heap, released : Int, left : SUBSET Lists, over : {"YES", "NO"}]
           R == {r \in W : HeapOK(r.s, m, {}, h, 0) /\ UseKept(s.span, r.s.span)}
<1>1. Before(s) \in R
  <2>1. UseKept(s.span, s.span)
    BY DEF UseKept
  <2>2. s \in Heap
    BY DEF HeapOK
  <2> QED
    BY <2>1, <2>2 DEF Before
<1>2. ASSUME NEW r \in R PROVE ReleaseRound(r, h, num) \in R
  <2> DEFINE ahead == {x \in Normal(r.s, h) : ListOf(r.s.span[x]) \in r.left}
             stop == r.released >= num \/ (ahead # {} /\ ~releases)
             q == ReleaseRound(r, h, num)
             i == CHOOSE x \in ahead : TRUE
             t == ReleaseLastNormalSpan(r.s, h, i)
             n == r.s.span[i].length
             u == [r.s EXCEPT !.loop = "SPINS"]
  <2>0. q = IF r.over = "YES" THEN r
            ELSE IF stop THEN [r EXCEPT !.over = "YES"]
            ELSE IF ahead # {} THEN [s |-> t, released |-> r.released + n,
                                     left |-> r.left \ {ListOf(r.s.span[i])}, over |-> "NO"]
            ELSE IF r.s.stats[h].free = 0 THEN [r EXCEPT !.over = "YES"]
            ELSE IF Normal(r.s, h) # {} THEN [r EXCEPT !.left = Lists]
            ELSE [r EXCEPT !.over = "YES", !.s = u]
    BY DEF ReleaseRound
  <2>a. r \in W /\ HeapOK(r.s, m, {}, h, 0) /\ UseKept(s.span, r.s.span) /\ r.released \in Int
    OBVIOUS
  <2>b. ahead # {} => i \in Normal(r.s, h)
    OBVIOUS
  <2>c. [r EXCEPT !.over = "YES"] \in R /\ [r EXCEPT !.left = Lists] \in R
    BY <2>a
  <2> HIDE DEF ahead, stop, q, i
  <2>1. CASE q = r \/ q = [r EXCEPT !.over = "YES"] \/ q = [r EXCEPT !.left = Lists]
    BY <2>1, <2>c DEF q
  <2>2. CASE ahead # {} /\ q = [s |-> t, released |-> r.released + n,
                               left |-> r.left \ {ListOf(r.s.span[i])}, over |-> "NO"]
    <3>1. i \in Normal(r.s, h)
      BY <2>2, <2>b
    <3>4. HeapOK(t, m, {}, h, 0) /\ UseKept(r.s.span, t.span) /\ n \in Int
      BY <2>a, <3>1, ReleaseLastOK
    <3> HIDE DEF t, n
    <3>5. t \in Heap /\ r.released + n \in Int
      BY <2>a, <3>4 DEF HeapOK
    <3>6. UseKept(s.span, t.span)
      BY <2>a, <3>4, UseKeptTrans
    <3>7. r.left \ {ListOf(r.s.span[i])} \in SUBSET Lists
      BY <2>a
    <3>8. q \in W /\ q.s = t
      BY <2>2, <3>5, <3>7
    <3> QED
      BY <3>4, <3>6, <3>8 DEF q
  <2>3. CASE /\ Normal(r.s, h) = {} /\ r.s.stats[h].free # 0
             /\ q = [r EXCEPT !.over = "YES", !.s = u]
    <3>1. HeapOK(u, m, {}, h, 0) /\ u.span = r.s.span
      BY <2>a, <2>3, SpinOK
    <3> HIDE DEF u
    <3>2. u \in Heap
      BY <3>1 DEF HeapOK
    <3>3. q \in W /\ q.s = u
      BY <2>a, <2>3, <3>2
    <3> QED
      BY <2>a, <3>1, <3>3 DEF q
  <2> HIDE DEF t, n, u
  <2> QED
    BY <2>0, <2>1, <2>2, <2>3
<1>3. ReleaseAtLeastNPages(s, h, num) \in R
  <2> HIDE DEF R
  <2> QED
    BY <1>1, <1>2, RoundsKeep
<1> QED
  BY <1>3

\* A span in use is on no list.
LEMMA ExemptInUse ==
    ASSUME NEW s, NEW m, NEW h, NEW d, NEW i, s.span[i].location = "IN_USE",
           HeapOK(s, m, {}, h, d)
    PROVE  HeapOK(s, m, {i}, h, d)
<1>1. Apart(s.span, m, {i}) /\ Compact(s.span, {i}) /\ Drained(s.span, {i})
  BY DEF HeapOK, Apart, Compact, Drained
<1>2. Idle(s.span) \ {} = Idle(s.span) \ {i}
  BY DEF Idle
<1>3. Counts(s.span, s.stats, {})
  BY DEF HeapOK
<1>4. Counts(s.span, s.stats, {i})
  BY <1>2, <1>3, CountsSame
<1> QED
  BY <1>1, <1>4 DEF HeapOK

\* Freed: the span is no longer in use, and no other use is touched.
Freed(sp, t, i) ==
    /\ t[i].location # "IN_USE"
    /\ \A l \in Pages \ {i} : sp[l].location = "IN_USE" \/ t[l].location = "IN_USE" => t[l] = sp[l]

\* PageHeap::Delete().
LEMMA DeleteOK ==
    ASSUME NEW s, NEW m, NEW h \in Types, NEW i \in Pages, NEW due,
           HeapOK(s, m, {i}, h, 0), s.span[i].location = "IN_USE",
           strict => s.span[i].heaptype = h /\ \A p \in i .. End(s.span, i) : m[p] = h,
           aggressive => releases
    PROVE  LET t == Delete(s, h, i, due)
           IN  HeapOK(t, m, {}, h, 0) /\ Freed(s.span, t.span, i)
<1> DEFINE sp == s.span
           r == [sp[i] EXCEPT !.location = "NORMAL", !.sizeclass = 0, !.from = "OPEN"]
           e == [s EXCEPT !.span[i].location = "NORMAL", !.span[i].sizeclass = 0,
                          !.span[i].from = "OPEN"]
           f == MergeIntoFreeList(e, h, i)
           t == Delete(s, h, i, due)
<1>0. s \in Heap /\ Tiling(sp, s.pagemap, m)
  BY DEF HeapOK
<1>1. /\ sp \in [Pages -> SpanRecord] /\ s.stats \in [Types -> StatsRecord]
      /\ sp[i] \in SpanRecord /\ i \in LiveIn(sp)
  BY <1>0, HeapFields DEF LiveIn
<1>2. /\ r \in SpanRecord /\ r.location = "NORMAL" /\ r.start = sp[i].start
      /\ r.length = sp[i].length /\ r.sizeclass = 0 /\ r.heaptype = sp[i].heaptype
  <2>1. "NORMAL" \in Locations /\ "OPEN" \in Types /\ 0 \in Marks
    BY DEF Locations, Types, Marks
  <2> QED
    BY <1>1, <2>1 DEF SpanRecord
<1>3. e = [s EXCEPT !.span = [sp EXCEPT ![i] = r]]
  BY <1>0, <1>1 DEF Heap
<1>4. t = IncrementalScavenge(f, h, due)
  BY DEF Delete
<1> HIDE DEF r, e
<1>5. Marked(s, e, i, r, h, s.stats[h])
  <2>1. [sp EXCEPT ![i] = r] \in [Pages -> SpanRecord]
    BY <1>1, <1>2
  <2>2. e \in Heap
    BY <1>0, <1>3, <2>1 DEF Heap
  <2>3. e.span = [sp EXCEPT ![i] = r] /\ e.pagemap = s.pagemap /\ e.stats = s.stats
    BY <1>0, <1>3 DEF Heap
  <2>4. s.stats = [s.stats EXCEPT ![h] = s.stats[h]]
    BY <1>1
  <2> QED
    BY <2>2, <2>3, <2>4 DEF Marked
<1>6. e.stats = s.stats
  BY <1>0, <1>3 DEF Heap
<1>7. Ready(s, e, m, h, i, r, 0)
  <2>1. /\ Apart(sp, m, {i}) /\ Compact(sp, {i}) /\ Drained(sp, {i})
        /\ Counts(sp, e.stats, {i}) /\ Balanced(e.stats, h, 0) /\ SystemPages(e.stats, m)
    BY <1>6 DEF HeapOK
  <2>2. /\ r.location \in {"NORMAL", "RETURNED"}
        /\ strict => r.heaptype = h /\ \A p \in i .. End(sp, i) : m[p] = h
    BY <1>2
  <2> QED
    BY <1>0, <1>1, <1>2, <1>5, <2>1, <2>2, MarkedOK
<1>8. HeapOK(e, m, {i}, h, 0) /\ Working(e.span, m, i, h) /\ e.span[i] = r
      /\ \A l \in Pages \ {i} : e.span[l] = sp[l]
  BY <1>7 DEF Ready
<1>9. ReturnedOf(e.span[i]) = 0
  BY <1>2, <1>8 DEF ReturnedOf
<1>10. HeapOK(f, m, {}, h, 0) /\ UseKept(e.span, f.span)
  <2>1. HeapOK(e, m, {i}, h, ReturnedOf(e.span[i])) /\ e.span[i].location = "NORMAL"
    BY <1>2, <1>8, <1>9
  <2> QED
    BY <1>8, <2>1, MergeOK
<1> HIDE DEF f
<1>11. HeapOK(t, m, {}, h, 0) /\ UseKept(f.span, t.span)
  <2>1. CASE due
    BY <1>4, <1>10, <2>1, ReleaseOK DEF IncrementalScavenge
  <2>2. CASE ~due
    <3>1. t = f
      BY <1>4, <2>2 DEF IncrementalScavenge
    <3>2. UseKept(f.span, f.span)
      BY DEF UseKept
    <3> QED
      BY <1>10, <3>1, <3>2
  <2> QED
    BY <2>1, <2>2
<1> HIDE DEF t
<1>12. UseKept(e.span, t.span)
  BY <1>10, <1>11, UseKeptTrans
<1>13. Freed(sp, t.span, i)
  <2>1. t.span[i].location # "IN_USE"
    BY <1>2, <1>8, <1>12 DEF UseKept
  <2> QED
    BY <1>8, <1>12, <2>1 DEF UseKept, Freed
<1> QED
  BY <1>11, <1>13 DEF t

-----------------------------------------------------------------------------
(* Carving, splitting and growing.                                         *)

\* The heaps v after the span i of s has been cut after n pages, rest being
\* the span of the others.
CutState(s, v, m, i, n, rest) ==
    /\ v \in Heap /\ Tiling(v.span, v.pagemap, m) /\ v.stats = s.stats
    /\ v.span[i] = [s.span[i] EXCEPT !.length = n] /\ v.span[i + n] = rest
    /\ \A l \in Pages \ {i, i + n} : v.span[l] = s.span[l]
    /\ LiveIn(v.span) = LiveIn(s.span) \cup {i + n} /\ i + n \in Pages \ LiveIn(s.span)
    /\ End(v.span, i) = i + n - 1 /\ End(v.span, i + n) = End(s.span, i)

\* Shorten() and NewSpan() cut a span in two.
LEMMA CutOK ==
    ASSUME NEW s \in Heap, NEW m, Tiling(s.span, s.pagemap, m), NEW i \in LiveIn(s.span),
           s.span[i].sizeclass = 0, NEW n \in Int, 1 <= n, n < s.span[i].length,
           NEW rest \in SpanRecord, rest.start = i + n, rest.length = s.span[i].length - n,
           rest.location # "NONE", rest.sizeclass = 0
    PROVE  CutState(s, NewSpan(Shorten(s, i, n), rest), m, i, n, rest)
<1> DEFINE sp == s.span
           a == [sp[i] EXCEPT !.length = n]
           u == [sp EXCEPT ![i] = a]
           t == [u EXCEPT ![i + n] = rest]
           q == Ends(Ends(s.pagemap, a), rest)
           w == Shorten(s, i, n)
           v == NewSpan(w, rest)
<1>1. /\ sp \in [Pages -> SpanRecord] /\ sp[i] \in SpanRecord /\ i \in Int /\ sp[i].length \in Int
      /\ NPages \in Nat /\ i \in Pages /\ sp[i].start = i /\ End(sp, i) = i + sp[i].length - 1
      /\ End(sp, i) <= NPages /\ 1 <= i
  BY TilingBounds, HeapFields, PageHeapAssumption
<1>2. n \in 0 .. NPages
  BY <1>1
<1>3. /\ a \in SpanRecord /\ a.start = i /\ a.length = n /\ a.location = sp[i].location
      /\ a.sizeclass = 0
  BY <1>1, <1>2 DEF SpanRecord
<1>4. a.location # "NONE"
  BY <1>3 DEF LiveIn
<1> HIDE DEF a
<1>5. CutTiles(sp, s.pagemap, m, i, n, a, rest)
  BY <1>3, <1>4, TilingCut
<1>6. t = [sp EXCEPT ![i] = a, ![i + n] = rest]
  OBVIOUS
<1>7. /\ Tiling(t, q, m) /\ LiveIn(t) = LiveIn(sp) \cup {i + n} /\ i + n \in Pages \ LiveIn(sp)
  BY <1>5, <1>6 DEF CutTiles
<1>8. w = [s EXCEPT !.span = u, !.pagemap = Ends(s.pagemap, a)]
  BY DEF Shorten, Heap, a
<1> HIDE DEF w
<1>9. v = [s EXCEPT !.span = t, !.pagemap = q]
  <2>1. w.span = u /\ w.pagemap = Ends(s.pagemap, a)
    BY <1>8 DEF Heap
  <2>2. v = [w EXCEPT !.span = [w.span EXCEPT ![i + n] = rest], !.pagemap = Ends(w.pagemap, rest)]
    BY DEF NewSpan
  <2>3. v = [w EXCEPT !.span = t, !.pagemap = q]
    BY <2>1, <2>2
  <2> HIDE DEF t, q, u
  <2> QED
    BY <1>8, <2>3 DEF Heap
<1>10. i # i + n /\ i + n \in Pages
  BY <1>1, <1>7
<1>11. t[i] = a /\ t[i + n] = rest /\ \A l \in Pages \ {i, i + n} : t[l] = sp[l]
  BY <1>1, <1>10
<1> HIDE DEF t, q, v
<1>12. v.span = t /\ v.pagemap = q /\ v.stats = s.stats
  BY <1>9 DEF Heap
<1>13. v \in Heap
  <2>1. t \in [Pages -> SpanRecord] /\ q \in [0 .. NPages + 1 -> 0 .. NPages]
    BY <1>7 DEF Tiling
  <2> QED
    BY <1>9, <2>1 DEF Heap
<1>14. End(t, i) = i + n - 1 /\ End(t, i + n) = End(sp, i)
  BY <1>1, <1>3, <1>11 DEF End
<1> QED
  BY <1>7, <1>11, <1>12, <1>13, <1>14 DEF CutState, v, w, a

\* Pages are committed again.
LEMMA CommitOK ==
    ASSUME NEW s, NEW m, NEW h \in Types, NEW n \in Int, HeapOK(s, m, {}, h, n)
    PROVE  LET t == [s EXCEPT !.stats[h].committed = @ + n]
           IN  HeapOK(t, m, {}, h, 0) /\ t.span = s.span
<1> DEFINE t == [s EXCEPT !.stats[h].committed = @ + n]
           c == [s.stats[h] EXCEPT !.committed = @ + n]
           st == [s.stats EXCEPT ![h] = c]
<1>0. s \in Heap
  BY DEF HeapOK
<1>1. s.stats \in [Types -> StatsRecord] /\ s.stats[h] \in StatsRecord
  BY <1>0, HeapFields
<1>2. \A g \in Types : s.stats[g].system \in Int /\ s.stats[g].committed \in Int
                       /\ s.stats[g].unmapped \in Int /\ s.stats[g].free \in Int
  BY <1>1 DEF StatsRecord
<1>3. /\ c \in StatsRecord /\ c.system = s.stats[h].system /\ c.unmapped = s.stats[h].unmapped
      /\ c.free = s.stats[h].free /\ c.committed = s.stats[h].committed + n
  <2>1. s.stats[h].committed + n \in Int
    BY <1>2
  <2> QED
    BY <1>1, <2>1 DEF StatsRecord
<1>4. t = [s EXCEPT !.stats = st]
  BY <1>0 DEF Heap
<1> HIDE DEF c, t
<1>5. st \in [Types -> StatsRecord] /\ st[h] = c /\ \A g \in Types \ {h} : st[g] = s.stats[g]
  BY <1>1, <1>3
<1> HIDE DEF st
<1>6. t \in Heap /\ t.span = s.span /\ t.pagemap = s.pagemap /\ t.stats = st
  <2>1. t.span = s.span /\ t.pagemap = s.pagemap /\ t.stats = st
    BY <1>0, <1>4 DEF Heap
  <2>2. t \in Heap
    BY <1>0, <1>4, <1>5 DEF Heap
  <2> QED
    BY <2>1, <2>2
<1>7. "RESTRICT" \in Types /\ "OPEN" \in Types
  BY DEF Types
<1>8. Counts(s.span, st, {})
  <2>1. \A g \in Types : st[g].free = s.stats[g].free /\ st[g].unmapped = s.stats[g].unmapped
    BY <1>3, <1>5
  <2> QED
    BY <1>7, <2>1 DEF Counts, HeapOK
<1>9. SystemPages(st, m)
  <2>1. \A g \in Types : st[g].system = s.stats[g].system
    BY <1>3, <1>5
  <2> QED
    BY <1>7, <2>1 DEF HeapOK, SystemPages
<1>10. Balanced(st, h, 0)
  <2> SUFFICES ASSUME NEW g \in Types
               PROVE  st[g].unmapped + st[g].committed + (IF g = h THEN 0 ELSE 0) = st[g].system
    BY DEF Balanced
  <2>1. s.stats[g].unmapped + s.stats[g].committed + (IF g = h THEN n ELSE 0) = s.stats[g].system
    BY DEF HeapOK, Balanced
  <2>2. CASE g = h
    BY <1>2, <1>3, <1>5, <2>1, <2>2
  <2>3. CASE g # h
    BY <1>2, <1>5, <2>1, <2>3
  <2> QED
    BY <2>2, <2>3
<1> QED
  BY <1>6, <1>8, <1>9, <1>10 DEF HeapOK, t

\* Only the span i has come into use.
Taken(sp, t, i) ==
    /\ sp[i].location # "IN_USE" /\ t[i].location = "IN_USE" /\ t[i].sizeclass = 0
    /\ \A l \in Pages \ {i} : sp[l].location = "IN_USE" \/ t[l].location = "IN_USE" => t[l] = sp[l]

\* The first lines of Carve(): the span leaves its list and is in use.
TakeFrom(a, i, w) ==
    [a EXCEPT !.span[i].location = "IN_USE", !.span[i].from = w, !.span[i].list = "OPEN"]
Take(s, h, i) == TakeFrom(RemoveFromFreeList(s, h, i), i, Owner(h))
TakeSpan(r, h) == [r EXCEPT !.location = "IN_USE", !.from = Owner(h), !.list = "OPEN"]

\* What is then to be shown; released pages are not committed yet.
TakeDone(s, t, m, h, i) ==
    /\ HeapOK(t, m, {}, h, ReturnedOf(s.span[i]))
    /\ t.span = [s.span EXCEPT ![i] = TakeSpan(s.span[i], h)] /\ t.pagemap = s.pagemap

\* Take() marks the span alone.
LEMMA TakeMarks ==
    ASSUME NEW a \in Heap, NEW i \in Pages, NEW h \in Types
    PROVE  LET t == TakeFrom(a, i, Owner(h))
               r == TakeSpan(a.span[i], h)
           IN  /\ t \in Heap /\ t.span = [a.span EXCEPT ![i] = r]
               /\ t.pagemap = a.pagemap /\ t.stats = a.stats
               /\ r \in SpanRecord /\ r.location = "IN_USE" /\ r.start = a.span[i].start
               /\ r.length = a.span[i].length /\ r.sizeclass = a.span[i].sizeclass
               /\ r.heaptype = a.span[i].heaptype /\ r.from = Owner(h)
<1> DEFINE o == Owner(h)
           r == [a.span[i] EXCEPT !.location = "IN_USE", !.from = o, !.list = "OPEN"]
           t == [a EXCEPT !.span[i].location = "IN_USE", !.span[i].from = o, !.span[i].list = "OPEN"]
           u == [a.span EXCEPT ![i] = r]
<1>1. "IN_USE" \in Locations /\ "OPEN" \in Types /\ o \in Types
  BY DEF Locations, Types, Owner, DEFAULT_HEAP_TYPE
<1>2. r = TakeSpan(a.span[i], h) /\ t = TakeFrom(a, i, o)
  BY DEF TakeSpan, TakeFrom
<1> HIDE DEF o
<1>3. t = [a EXCEPT !.span = u]
  BY DEF Heap
<1>4. a.span \in [Pages -> SpanRecord] /\ a.span[i] \in SpanRecord
  BY HeapFields
<1>5. /\ r \in SpanRecord /\ r.location = "IN_USE" /\ r.start = a.span[i].start
      /\ r.length = a.span[i].length /\ r.sizeclass = a.span[i].sizeclass
      /\ r.heaptype = a.span[i].heaptype /\ r.from = o
  BY <1>1, <1>4 DEF SpanRecord
<1> HIDE DEF r, t
<1>6. u \in [Pages -> SpanRecord]
  BY <1>4, <1>5
<1> HIDE DEF u
<1>7. t \in Heap
  BY <1>3, <1>6 DEF Heap
<1>8. t.span = u /\ t.pagemap = a.pagemap /\ t.stats = a.stats
  BY <1>3 DEF Heap
<1> QED
  BY <1>2, <1>5, <1>7, <1>8 DEF o, u

\* The span is on no list, and in use.
LEMMA TakeOK ==
    ASSUME NEW s, NEW m, NEW h \in Types, NEW i \in Listed(s, h), HeapOK(s, m, {}, h, 0)
    PROVE  TakeDone(s, Take(s, h, i), m, h, i)
<1> DEFINE sp == s.span
           r == TakeSpan(sp[i], h)
           u == [sp EXCEPT ![i] = r]
           a == RemoveFromFreeList(s, h, i)
           t == Take(s, h, i)
           n == sp[i].length
<1>0. s \in Heap /\ Tiling(sp, s.pagemap, m) /\ Counts(sp, s.stats, {})
      /\ Balanced(s.stats, h, 0) /\ SystemPages(s.stats, m)
  BY DEF HeapOK
<1>1. i \in LiveIn(sp) /\ i \in Idle(sp) /\ sp[i].list = h /\ i \in Pages
  BY DEF Listed, Live, InUse, LiveIn, Idle
<1>2. /\ sp \in [Pages -> SpanRecord] /\ s.stats \in [Types -> StatsRecord]
      /\ sp[i] \in SpanRecord /\ n \in Int /\ sp[i].location \in {"NORMAL", "RETURNED"}
  BY <1>0, <1>1, HeapFields, TilingBounds, IdleSpan
<1> DEFINE st == [s.stats EXCEPT ![h] = Count(s.stats[h], sp[i].location, -n)]
<1>5. a \in Heap /\ a.span = sp /\ a.pagemap = s.pagemap /\ a.stats = st
  BY <1>0, <1>1, RemoveFields
<1>6. t = TakeFrom(a, i, Owner(h))
  BY DEF Take
<1> HIDE DEF t, a
<1>3. /\ t \in Heap /\ t.span = u /\ t.pagemap = s.pagemap /\ t.stats = st
      /\ r \in SpanRecord /\ r.location = "IN_USE" /\ r.start = sp[i].start /\ r.length = n
      /\ r.sizeclass = sp[i].sizeclass /\ r.heaptype = sp[i].heaptype /\ r.from = Owner(h)
  BY <1>1, <1>5, <1>6, TakeMarks
<1>4. sp[i].sizeclass = 0
  BY <1>0, <1>1 DEF Tiling, Led, Idle
<1> HIDE DEF r
<1>7. /\ LiveIn(u) = LiveIn(sp) /\ u[i] = r /\ \A l \in Pages \ {i} : u[l] = sp[l]
      /\ \A l \in Pages : End(u, l) = End(sp, l)
      /\ LiveIn(sp) \ {i} = LiveIn(u) \ {i}
      /\ \A l \in LiveIn(sp) \ {i} : u[l] = sp[l]
  <2>1. r.location # "NONE" /\ r.length = sp[i].length
    BY <1>3
  <2>2. i \in LiveIn(sp) /\ sp \in [Pages -> SpanRecord]
    BY <1>1, <1>2
  <2> QED
    BY <2>1, <2>2, Remarked
<1>8. Tiling(u, s.pagemap, m)
  <2>1. r.location # "NONE" /\ (r.sizeclass # 0 => r.location = "IN_USE" /\ sp[i].sizeclass # 0)
    BY <1>3, <1>4
  <2> QED
    BY <1>0, <1>1, <1>3, <2>1, TilingRelabel
<1>9. u \in [Pages -> SpanRecord]
  BY <1>2, <1>3
<1> HIDE DEF u
<1>10. Idle(sp) \ {i} = Idle(u) \ {} /\ \A l \in Idle(sp) \ {i} : u[l] = sp[l]
  BY <1>3, <1>7 DEF Idle, LiveIn
<1>12. Counts(u, st, {})
  <2>1. Counts(sp, st, {} \cup {i})
    <3>1. i \in Idle(sp) \ {} /\ (strict => sp[i].list = h)
      BY <1>1
    <3> QED
      BY <1>0, <1>2, <3>1, CountsRemove
  <2>2. {} \cup {i} = {i}
    OBVIOUS
  <2>3. Counts(sp, st, {i})
    BY <2>1, <2>2
  <2> HIDE DEF st
  <2> QED
    BY <1>10, <2>3, CountsSame
<1>13. Balanced(st, h, ReturnedOf(sp[i])) /\ SystemPages(st, m)
  <2>1. -n \in Int /\ 0 \in Int
    BY <1>2
  <2>2. /\ Balanced(st, h, 0 - (IF sp[i].location = "NORMAL" THEN 0 ELSE -n))
        /\ \A w : SystemPages(s.stats, w) => SystemPages(st, w)
    <3> HIDE DEF n
    <3> QED
      BY <1>0, <1>2, <2>1, BalancedCount
  <2>3. 0 - (IF sp[i].location = "NORMAL" THEN 0 ELSE -n) = ReturnedOf(sp[i])
    BY <1>2 DEF ReturnedOf
  <2> HIDE DEF st
  <2> QED
    BY <1>0, <2>2, <2>3
<1>14. Apart(u, m, {})
  <2>1. Apart(sp, m, {i})
    BY DEF HeapOK, Apart
  <2>2. Apart(u, m, {i})
    BY <1>7, <2>1, OthersSame
  <2>3. strict => SpanApart(u, m, i)
    <3>1. strict => SpanApart(sp, m, i)
      BY <1>1 DEF HeapOK, Apart
    <3> QED
      BY <1>1, <1>3, <1>7, <3>1 DEF SpanApart, Owner, Idle
  <2> QED
    BY <2>2, <2>3 DEF Apart
<1>15. Compact(u, {}) /\ Drained(u, {})
  <2>1. Compact(sp, {i}) /\ Drained(sp, {i})
    BY DEF HeapOK, Compact, Drained
  <2>2. Compact(u, {i}) /\ Drained(u, {i})
    BY <1>7, <2>1, OthersSame
  <2>3. i \notin Idle(u) /\ u[i].location # "NORMAL"
    BY <1>3, <1>7 DEF Idle
  <2> QED
    BY <2>2, <2>3 DEF Compact, Drained
<1>16. HeapOK(t, m, {}, h, ReturnedOf(sp[i]))
  <2> HIDE DEF st
  <2> QED
    BY <1>3, <1>8, <1>12, <1>13, <1>14, <1>15 DEF HeapOK
<1> QED
  BY <1>3, <1>16 DEF TakeDone, u, r, t

\* A span in use has been cut: all is well but for what was cut off.
LEMMA CutExempt ==
    ASSUME NEW s, NEW v, NEW m, NEW h, NEW d, NEW i \in LiveIn(s.span), NEW n \in Int, NEW rest,
           1 <= n, n < s.span[i].length, s.span[i].location = "IN_USE",
           HeapOK(s, m, {}, h, d), CutState(s, v, m, i, n, rest)
    PROVE  HeapOK(v, m, {i + n}, h, d)
<1> DEFINE sp == s.span
           u == v.span
           j == i + n
<1>1. /\ v \in Heap /\ Tiling(u, v.pagemap, m) /\ v.stats = s.stats
      /\ u[i] = [sp[i] EXCEPT !.length = n] /\ u[j] = rest
      /\ \A l \in Pages \ {i, j} : u[l] = sp[l]
      /\ LiveIn(u) = LiveIn(sp) \cup {j} /\ j \in Pages \ LiveIn(sp)
      /\ End(u, i) = i + n - 1
  BY DEF CutState
<1>2. /\ Tiling(sp, s.pagemap, m) /\ Apart(sp, m, {}) /\ Compact(sp, {}) /\ Drained(sp, {})
      /\ Counts(sp, s.stats, {}) /\ Balanced(s.stats, h, d) /\ SystemPages(s.stats, m)
  BY DEF HeapOK
<1>3. /\ sp[i] \in SpanRecord /\ i \in Int /\ sp[i].length \in Int /\ End(sp, i) = i + sp[i].length - 1
      /\ i \in Pages
  BY <1>2, TilingBounds
<1>4. /\ u[i].location = "IN_USE" /\ u[i].heaptype = sp[i].heaptype /\ u[i].from = sp[i].from
  BY <1>1, <1>3 DEF SpanRecord
<1> HIDE DEF u, j
<1>5. LiveIn(sp) \ {i} = LiveIn(u) \ {i, j} /\ \A l \in LiveIn(sp) \ {i} : u[l] = sp[l]
  BY <1>1 DEF LiveIn
<1>6. Apart(u, m, {i, j}) /\ Compact(u, {i, j}) /\ Drained(u, {i, j})
  <2>1. Apart(sp, m, {i}) /\ Compact(sp, {i}) /\ Drained(sp, {i})
    BY <1>2 DEF Apart, Compact, Drained
  <2> QED
    BY <1>5, <2>1, OthersSame
<1>7. Apart(u, m, {j})
  <2>1. strict => SpanApart(u, m, i)
    <3>1. strict => SpanApart(sp, m, i)
      BY <1>2 DEF Apart
    <3>2. \A p \in i .. End(u, i) : p \in i .. End(sp, i)
      BY <1>1, <1>3
    <3> QED
      BY <1>4, <3>1, <3>2 DEF SpanApart
  <2> QED
    BY <1>6, <2>1 DEF Apart
<1>8. Compact(u, {j}) /\ Drained(u, {j})
  <2>1. i \notin Idle(u) /\ u[i].location # "NORMAL"
    BY <1>4 DEF Idle
  <2> QED
    BY <1>6, <2>1 DEF Compact, Drained
<1>9. Counts(u, s.stats, {j})
  <2>1. \A l \in Pages \ {i, j} : u[l] = sp[l]
    BY <1>1
  <2>2. \A l \in Idle(sp) : u[l] = sp[l] /\ l \in Idle(u) \ {j}
    BY <1>1, <2>1 DEF Idle, LiveIn
  <2>3. \A l \in Idle(u) \ {j} : l \in Idle(sp)
    BY <1>1, <1>4, <2>1 DEF Idle, LiveIn
  <2>4. Idle(sp) \ {} = Idle(u) \ {j} /\ \A l \in Idle(sp) \ {} : u[l] = sp[l]
    BY <2>2, <2>3
  <2> QED
    BY <1>2, <2>4, CountsSame
<1> QED
  BY <1>1, <1>2, <1>7, <1>8, <1>9 DEF HeapOK, u, j

\* Carve(), with what is left of the span going back to a list.
CarveDone(s, t, m, h, i, n) ==
    /\ HeapOK(t, m, {}, h, 0) /\ Taken(s.span, t.span, i) /\ i \in Pages
    /\ t.span[i].length = n /\ (strict => t.span[i].heaptype = h)

\* A span on a list of the heap may be carved.
LEMMA CarveOK ==
    ASSUME NEW s, NEW m, NEW h \in Types, NEW i \in Listed(s, h), NEW n \in Int, 1 <= n,
           n <= s.span[i].length, HeapOK(s, m, {}, h, 0)
    PROVE  CarveDone(s, Carve(s, h, i, n), m, h, i, n)
<1> DEFINE sp == s.span
           t0 == Take(s, h, i)
           rest == [sp[i] EXCEPT !.start = i + n, !.length = sp[i].length - n, !.heaptype = h]
           v == NewSpan(Shorten(t0, i, n), rest)
           w == PrependToFreeList(v, h, i + n)
           x == IF sp[i].location = "RETURNED" THEN n ELSE 0
           u == IF sp[i].length = n THEN t0 ELSE w
           t == IF sp[i].location = "RETURNED" THEN [u EXCEPT !.stats[h].committed = @ + n] ELSE u
<1>0. s \in Heap /\ Tiling(sp, s.pagemap, m) /\ Compact(sp, {}) /\ Drained(sp, {}) /\ Apart(sp, m, {})
  BY DEF HeapOK
<1>1. i \in LiveIn(sp) /\ i \in Idle(sp) /\ sp[i].list = h /\ i \in Pages /\ sp[i].location # "IN_USE"
  BY DEF Listed, Live, InUse, LiveIn, Idle
<1>2. /\ sp[i] \in SpanRecord /\ sp[i].length \in Int /\ sp[i].location \in {"NORMAL", "RETURNED"}
      /\ i \in Int /\ End(sp, i) = i + sp[i].length - 1 /\ End(sp, i) <= NPages /\ NPages \in Int
      /\ 1 <= i /\ sp \in [Pages -> SpanRecord]
  BY <1>0, <1>1, TilingBounds, IdleSpan, HeapFields
<1>3. sp[i].sizeclass = 0
  BY <1>0, <1>1 DEF Tiling, Led, Idle
<1>4. strict => sp[i].heaptype = h /\ \A p \in i .. End(sp, i) : m[p] = h
  <2>1. strict => SpanApart(sp, m, i)
    BY <1>0, <1>1 DEF Apart
  <2> QED
    BY <1>1, <2>1 DEF SpanApart
<1>5. Carve(s, h, i, n) = t
  BY DEF Carve, Take, TakeFrom
<1> HIDE DEF t0
<1>6. /\ HeapOK(t0, m, {}, h, ReturnedOf(sp[i])) /\ t0.span = [sp EXCEPT ![i] = TakeSpan(sp[i], h)]
  BY TakeOK DEF TakeDone, t0
<1>7. /\ t0.span[i].location = "IN_USE" /\ t0.span[i].length = sp[i].length
      /\ t0.span[i].sizeclass = 0 /\ \A l \in Pages \ {i} : t0.span[l] = sp[l]
      /\ t0.span[i].start = sp[i].start /\ t0.span[i].heaptype = sp[i].heaptype
  <2>1. t0.span[i] = TakeSpan(sp[i], h) /\ \A l \in Pages \ {i} : t0.span[l] = sp[l]
    BY <1>1, <1>2, <1>6
  <2> QED
    BY <1>2, <1>3, <2>1 DEF SpanRecord, TakeSpan
<1>8. i \in LiveIn(t0.span) /\ t0 \in Heap /\ Tiling(t0.span, t0.pagemap, m)
  BY <1>1, <1>6, <1>7 DEF HeapOK, LiveIn
<1>9. /\ HeapOK(u, m, {}, h, x) /\ u.span[i].location = "IN_USE" /\ u.span[i].length = n
      /\ u.span[i].sizeclass = 0 /\ (strict => u.span[i].heaptype = h)
      /\ \A l \in Pages \ {i} : sp[l].location = "IN_USE" \/ u.span[l].location = "IN_USE"
                                  => u.span[l] = sp[l]
  <2>1. CASE sp[i].length = n
    <3>1. x = ReturnedOf(sp[i])
      BY <2>1 DEF ReturnedOf
    <3> QED
      BY <1>4, <1>6, <1>7, <2>1, <3>1
  <2>2. CASE sp[i].length # n
    <3> DEFINE j == i + n
               d == ReturnedOf(sp[i])
    <3>1. n < sp[i].length /\ n < t0.span[i].length
      BY <1>2, <1>7, <2>2
    <3>2. j \in 0 .. NPages /\ sp[i].length - n \in 0 .. NPages /\ j # i /\ j <= End(sp, i)
          /\ i <= j
      BY <1>2, <3>1
    <3>3. /\ rest \in SpanRecord /\ rest.start = j /\ rest.length = sp[i].length - n
          /\ rest.location = sp[i].location /\ rest.heaptype = h /\ rest.sizeclass = 0
      BY <1>2, <1>3, <3>2 DEF SpanRecord
    <3> HIDE DEF rest, v, w
    <3>4. CutState(t0, v, m, i, n, rest)
      <4>1. /\ t0.span[i].sizeclass = 0 /\ n < t0.span[i].length
            /\ rest.length = t0.span[i].length - n /\ rest.location # "NONE"
        BY <1>2, <1>7, <3>1, <3>3
      <4> QED
        BY <1>8, <3>3, <4>1, CutOK DEF v
    <3>5. /\ v \in Heap /\ Tiling(v.span, v.pagemap, m)
          /\ v.span[i] = [t0.span[i] EXCEPT !.length = n] /\ v.span[j] = rest
          /\ \A l \in Pages \ {i, j} : v.span[l] = t0.span[l]
          /\ LiveIn(v.span) = LiveIn(t0.span) \cup {j} /\ j \in Pages \ LiveIn(t0.span)
          /\ End(v.span, i) = i + n - 1 /\ End(v.span, j) = End(t0.span, i)
      BY <3>4 DEF CutState
    <3>6. End(t0.span, i) = End(sp, i)
      BY <1>7 DEF End
    <3>7. v.span[i].location = "IN_USE" /\ v.span[i].length = n /\ v.span[i].sizeclass = 0
          /\ v.span[i].heaptype = sp[i].heaptype
      <4>1. t0.span[i] \in SpanRecord
        BY <1>1, <1>8, HeapFields
      <4> QED
        BY <1>7, <3>5, <4>1 DEF SpanRecord
    <3>8. HeapOK(v, m, {j}, h, d)
      <4> HIDE DEF d
      <4>1. HeapOK(t0, m, {}, h, d)
        BY <1>6 DEF d
      <4> QED
        BY <1>7, <1>8, <3>1, <3>4, <4>1, CutExempt
    <3>9. j \in LiveIn(v.span) /\ j \in Idle(v.span) /\ i \in LiveIn(v.span) /\ i \notin Idle(v.span)
      BY <1>1, <1>8, <3>3, <3>5, <3>7 DEF Idle
    <3>10. Working(v.span, m, j, h)
      <4>1. \A p \in j .. End(v.span, j) : p \in i .. End(sp, i)
        BY <1>2, <3>2, <3>5, <3>6
      <4> QED
        BY <1>4, <3>3, <3>5, <3>9, <4>1 DEF Working
    <3>11. LeftDone(v.span, j)
      <4> SUFFICES ASSUME NEW l \in Idle(v.span) \ {j}, j = End(v.span, l) + 1 PROVE FALSE
        BY DEF LeftDone
      <4>1. l \in LiveIn(v.span) /\ l # i
        BY <3>9 DEF Idle
      <4>2. /\ l \in Int /\ l <= End(v.span, l) /\ End(v.span, l) \in Int
        BY <3>5, <4>1, TilingBounds
      <4>3. (l < i => End(v.span, l) < i) /\ (i < l => End(v.span, i) < l)
        BY <3>5, <3>9, <4>1 DEF Tiling, Disjoint
      <4> QED
        BY <1>2, <3>5, <4>1, <4>2, <4>3
    <3>12. RightDone(v.span, j)
      <4> SUFFICES ASSUME strict, NEW l \in Idle(v.span) \ {j}, l = End(v.span, j) + 1
                   PROVE  ~Mergeable(v.span[j], v.span[l])
        BY DEF RightDone
      <4>1. l # i /\ l # j /\ l \in Pages /\ l = End(sp, i) + 1
        BY <3>5, <3>6, <3>9 DEF Idle, LiveIn
      <4>2. v.span[l] = sp[l]
        BY <1>7, <3>5, <4>1
      <4>3. l \in Idle(sp)
        BY <4>1, <4>2 DEF Idle, LiveIn
      <4>4. ~Mergeable(sp[i], sp[l])
        BY <1>0, <1>1, <4>1, <4>3 DEF Compact
      <4> QED
        BY <1>4, <3>3, <3>5, <4>2, <4>4 DEF Mergeable
    <3>13. aggressive => v.span[j].location # "NORMAL"
      BY <1>0, <1>1, <3>3, <3>5 DEF Drained
    <3>14. Owed(v, j, d, x)
      BY <1>2, <3>3, <3>5 DEF Owed, ReturnedOf
    <3>15. HeapOK(w, m, {}, h, x) /\ UseKept(v.span, w.span)
      <4> HIDE DEF d, x, j
      <4>1. w = PrependToFreeList(v, h, j)
        BY DEF w, j
      <4> QED
        BY <3>8, <3>10, <3>11, <3>12, <3>13, <3>14, <4>1, PrependOK
    <3>16. u = w
      BY <2>2
    <3>17. w.span[i] = v.span[i]
      BY <1>1, <3>7, <3>15 DEF UseKept
    <3>18. ASSUME NEW l \in Pages \ {i}, sp[l].location = "IN_USE" \/ w.span[l].location = "IN_USE"
           PROVE  w.span[l] = sp[l]
      <4>1. l # j
        <5>1. sp[j].location = "NONE"
          BY <1>7, <3>2, <3>5 DEF LiveIn
        <5>2. w.span[j].location # "IN_USE"
          BY <1>1, <3>3, <3>5, <3>15 DEF UseKept
        <5> QED
          BY <3>18, <5>1, <5>2
      <4>2. v.span[l] = sp[l]
        BY <1>7, <3>5, <4>1
      <4> QED
        BY <3>15, <3>18, <4>2 DEF UseKept
    <3> HIDE DEF u
    <3> QED
      BY <1>4, <3>7, <3>15, <3>16, <3>17, <3>18
  <2> QED
    BY <2>1, <2>2
<1> HIDE DEF u
<1>10. HeapOK(t, m, {}, h, 0) /\ t.span = u.span
  <2>1. CASE sp[i].location = "RETURNED"
    BY <1>9, <2>1, CommitOK
  <2>2. CASE sp[i].location # "RETURNED"
    BY <1>9, <2>2
  <2> QED
    BY <2>1, <2>2
<1> HIDE DEF t
<1>11. Taken(sp, t.span, i)
  BY <1>1, <1>9, <1>10 DEF Taken
<1> QED
  BY <1>1, <1>5, <1>9, <1>10, <1>11 DEF CarveDone

\* A span in use has become two.
SplitDone(s, t, m, h, i, n) ==
    /\ HeapOK(t, m, {}, h, 0) /\ i + n \in Pages \ {i} /\ s.span[i + n].location = "NONE"
    /\ t.span[i].location = "IN_USE" /\ t.span[i].sizeclass = 0 /\ t.span[i].length = n
    /\ t.span[i].heaptype = s.span[i].heaptype
    /\ t.span[i + n].location = "IN_USE" /\ t.span[i + n].sizeclass = 0
    /\ t.span[i + n].length = s.span[i].length - n /\ t.span[i + n].heaptype = h
    /\ \A l \in Pages \ {i, i + n} : t.span[l] = s.span[l]

\* Split() of a span in use.
LEMMA SplitOK ==
    ASSUME NEW s, NEW m, NEW h \in Types, NEW i \in Pages, s.span[i].location = "IN_USE",
           s.span[i].sizeclass = 0, NEW n \in Int, 1 <= n, n < s.span[i].length,
           HeapOK(s, m, {}, h, 0), strict => s.span[i].heaptype = h
    PROVE  SplitDone(s, Split(s, h, i, n), m, h, i, n)
<1> DEFINE sp == s.span
           j == i + n
           rest == [sp[i] EXCEPT !.start = i + n, !.length = sp[i].length - n, !.heaptype = h]
           t == NewSpan(Shorten(s, i, n), rest)
<1>0. s \in Heap /\ Tiling(sp, s.pagemap, m) /\ i \in LiveIn(sp) /\ Apart(sp, m, {})
  BY DEF HeapOK, LiveIn
<1>1. /\ sp[i] \in SpanRecord /\ sp[i].length \in Int
      /\ i \in Int /\ End(sp, i) = i + sp[i].length - 1 /\ End(sp, i) <= NPages /\ NPages \in Int
      /\ 1 <= i
  BY <1>0, TilingBounds
<1>2. j \in 0 .. NPages /\ sp[i].length - n \in 0 .. NPages /\ j # i /\ i <= j
  BY <1>1
<1>3. /\ rest \in SpanRecord /\ rest.start = j /\ rest.length = sp[i].length - n
      /\ rest.location = "IN_USE" /\ rest.heaptype = h /\ rest.sizeclass = 0
      /\ rest.from = sp[i].from
  BY <1>1, <1>2 DEF SpanRecord
<1>4. Split(s, h, i, n) = t
  BY DEF Split
<1> HIDE DEF rest, t
<1>5. CutState(s, t, m, i, n, rest)
  BY <1>0, <1>3, CutOK DEF t
<1>6. /\ t \in Heap /\ Tiling(t.span, t.pagemap, m)
      /\ t.span[i] = [sp[i] EXCEPT !.length = n] /\ t.span[j] = rest
      /\ \A l \in Pages \ {i, j} : t.span[l] = sp[l]
      /\ LiveIn(t.span) = LiveIn(sp) \cup {j} /\ j \in Pages \ LiveIn(sp)
      /\ End(t.span, j) = End(sp, i)
  BY <1>5 DEF CutState
<1>7. HeapOK(t, m, {j}, h, 0)
  BY <1>0, <1>5, CutExempt
<1>8. /\ t.span[i].location = "IN_USE" /\ t.span[i].sizeclass = 0 /\ t.span[i].length = n
      /\ t.span[i].heaptype = sp[i].heaptype
  BY <1>1, <1>6 DEF SpanRecord
<1>9. strict => SpanApart(t.span, m, j)
  <2>1. strict => SpanApart(sp, m, i)
    BY <1>0 DEF Apart
  <2>2. \A p \in j .. End(t.span, j) : p \in i .. End(sp, i)
    BY <1>1, <1>2, <1>6
  <2> QED
    BY <1>3, <1>6, <2>1, <2>2 DEF SpanApart
<1>10. HeapOK(t, m, {}, h, 0)
  <2>1. Apart(t.span, m, {})
    BY <1>7, <1>9 DEF Apart, HeapOK
  <2>2. j \notin Idle(t.span) /\ t.span[j].location # "NORMAL"
    BY <1>3, <1>6 DEF Idle
  <2>3. Compact(t.span, {}) /\ Drained(t.span, {})
    BY <1>7, <2>2 DEF Compact, Drained, HeapOK
  <2>4. Idle(t.span) \ {j} = Idle(t.span) \ {} /\ \A l \in Idle(t.span) \ {j} : t.span[l] = t.span[l]
    BY <2>2
  <2>5. Counts(t.span, t.stats, {j})
    BY <1>7 DEF HeapOK
  <2>6. Counts(t.span, t.stats, {})
    BY <2>4, <2>5, CountsSame
  <2> QED
    BY <1>7, <2>1, <2>3, <2>6 DEF HeapOK
<1>11. sp[j].location = "NONE" /\ j \in Pages \ {i}
  BY <1>2, <1>6 DEF LiveIn
<1> QED
  BY <1>3, <1>4, <1>6, <1>8, <1>10, <1>11 DEF SplitDone

\* The system has given the pages from p, n of them, as a span in use.
NewPages(s, h, p, n) ==
    NewSpan([s EXCEPT !.stats[h].system = @ + n, !.stats[h].committed = @ + n],
            [NoSpan EXCEPT !.start = p, !.length = n, !.location = "IN_USE", !.heaptype = h])

\* All is well but for that span, which is to be freed.
NewPagesDone(s, t, m, mm, h, p) ==
    /\ HeapOK(t, mm, {p}, h, 0) /\ t.span[p].location = "IN_USE" /\ t.span[p].heaptype = h
    /\ s.span[p].location = "NONE" /\ \A l \in Pages \ {p} : t.span[l] = s.span[l]
    /\ \A q \in p .. End(t.span, p) : mm[q] = h

\* The pages counted by the kernel's mapping.
LEMMA MappedMore ==
    ASSUME NEW m \in [Pages -> Mappings], NEW x \in Pages, NEW y \in Pages, x <= y,
           \A p \in x .. y : m[p] = "NONE", NEW h, h # "NONE"
    PROVE  Cardinality({p \in Pages : Mapping(m, x, y, h)[p] # "NONE"})
             = Cardinality({p \in Pages : m[p] # "NONE"}) + (y - x + 1)
<1> DEFINE A == {p \in Pages : m[p] # "NONE"}
           B == {p \in Pages : Mapping(m, x, y, h)[p] # "NONE"}
<1>1. NPages \in Nat /\ x \in Int /\ y \in Int
  BY PageHeapAssumption DEF Pages
<1>2. B = A \cup (x .. y) /\ A \cap (x .. y) = {}
  BY <1>1 DEF Mapping, Pages
<1>3. IsFiniteSet(Pages)
  BY <1>1, FS_Interval DEF Pages
<1>4. IsFiniteSet(A) /\ IsFiniteSet(x .. y) /\ Cardinality(x .. y) = y - x + 1
  <2>1. IsFiniteSet(A)
    BY <1>3, FS_Subset
  <2>2. IsFiniteSet(x .. y) /\ Cardinality(x .. y) = IF x > y THEN 0 ELSE y - x + 1
    BY <1>1, FS_Interval
  <2> QED
    BY <1>1, <2>1, <2>2
<1> HIDE DEF A, B
<1>5. Cardinality(B) = Cardinality(A) + Cardinality(x .. y) - Cardinality(A \cap (x .. y))
  BY <1>2, <1>4, FS_Union
<1>6. Cardinality(A \cap (x .. y)) = 0
  BY <1>2, FS_EmptySet
<1>7. Cardinality(A) \in Nat
  BY <1>4, FS_CardinalityType
<1> QED
  BY <1>1, <1>4, <1>5, <1>6, <1>7 DEF A, B

\* The counters when the system has given n pages.
Enlarged(st, n) == [st EXCEPT !.system = @ + n, !.committed = @ + n]

\* The pages from p to y, n of them, are counted for h and mapped as x.
CountedDone(s, m, h, p, y, n, x) ==
    LET st == [s.stats EXCEPT ![h] = Enlarged(s.stats[h], n)]
    IN  /\ st \in [Types -> StatsRecord]
        /\ Balanced(st, h, 0) /\ SystemPages(st, Mapping(m, p, y, x))
        /\ \A g \in Types : st[g].free = s.stats[g].free /\ st[g].unmapped = s.stats[g].unmapped

\* The counters agree with each other and with the mapping when it has grown,
\* whatever becomes of the pages.
LEMMA CountedOK ==
    ASSUME NEW s \in Heap, NEW m \in [Pages -> Mappings], NEW h \in Types,
           NEW p \in Pages, NEW y \in Pages, p <= y, NEW n \in Int, n = y - p + 1,
           \A q \in p .. y : m[q] = "NONE", NEW x, x # "NONE",
           Balanced(s.stats, h, 0), SystemPages(s.stats, m)
    PROVE  CountedDone(s, m, h, p, y, n, x)
<1> DEFINE c == Enlarged(s.stats[h], n)
           st == [s.stats EXCEPT ![h] = c]
           mm == Mapping(m, p, y, x)
<1>2. s.stats \in [Types -> StatsRecord] /\ s.stats[h] \in StatsRecord
  BY HeapFields
<1>4. /\ c \in StatsRecord /\ c.system = s.stats[h].system + n
      /\ c.committed = s.stats[h].committed + n
      /\ c.free = s.stats[h].free /\ c.unmapped = s.stats[h].unmapped
  <2>1. s.stats[h].system + n \in Int /\ s.stats[h].committed + n \in Int
    BY <1>2 DEF StatsRecord
  <2> QED
    BY <1>2, <2>1 DEF StatsRecord, Enlarged
<1>14. /\ st \in [Types -> StatsRecord]
       /\ st[h] = c /\ \A g \in Types \ {h} : st[g] = s.stats[g]
  BY <1>2, <1>4
<1>15. \A g \in Types : s.stats[g].system \in Int /\ s.stats[g].committed \in Int
                        /\ s.stats[g].unmapped \in Int /\ s.stats[g].free \in Int
  BY <1>2 DEF StatsRecord
<1> HIDE DEF st, c
<1>16. "RESTRICT" \in Types /\ "OPEN" \in Types /\ h \in {"RESTRICT", "OPEN"}
  BY DEF Types
<1>17. \A g \in Types : st[g].free = s.stats[g].free /\ st[g].unmapped = s.stats[g].unmapped
  BY <1>4, <1>14
<1>18. Balanced(st, h, 0)
  <2> SUFFICES ASSUME NEW g \in Types
               PROVE  st[g].unmapped + st[g].committed + (IF g = h THEN 0 ELSE 0) = st[g].system
    BY DEF Balanced
  <2>1. s.stats[g].unmapped + s.stats[g].committed + (IF g = h THEN 0 ELSE 0) = s.stats[g].system
    BY DEF Balanced
  <2>2. CASE g = h
    BY <1>4, <1>14, <1>15, <2>1, <2>2
  <2>3. CASE g # h
    BY <1>14, <1>15, <2>1, <2>3
  <2> QED
    BY <2>2, <2>3
<1>19. SystemPages(st, mm)
  <2>1. Cardinality({q \in Pages : mm[q] # "NONE"}) = Cardinality({q \in Pages : m[q] # "NONE"}) + n
    BY MappedMore
  <2>2. s.stats["RESTRICT"].system + s.stats["OPEN"].system
          = Cardinality({q \in Pages : m[q] # "NONE"})
    BY DEF SystemPages
  <2> DEFINE k == Cardinality({q \in Pages : m[q] # "NONE"})
  <2> HIDE DEF k
  <2>3. st["RESTRICT"].system + st["OPEN"].system = k + n
    <3>1. s.stats["RESTRICT"].system + s.stats["OPEN"].system = k
      BY <2>2 DEF k
    <3>2. CASE h = "RESTRICT"
      BY <1>4, <1>14, <1>15, <1>16, <3>1, <3>2
    <3>3. CASE h = "OPEN"
      BY <1>4, <1>14, <1>15, <1>16, <3>1, <3>3
    <3> QED
      BY <1>16, <3>2, <3>3
  <2> QED
    BY <2>1, <2>3 DEF SystemPages, k
<1> QED
  BY <1>14, <1>17, <1>18, <1>19 DEF CountedDone, st, c

\* The fields of the heaps then.
NewPagesEffect(s, h, p, n) ==
    LET r == [NoSpan EXCEPT !.start = p, !.length = n, !.location = "IN_USE", !.heaptype = h]
        t == NewPages(s, h, p, n)
        c == Enlarged(s.stats[h], n)
    IN  /\ r \in SpanRecord /\ r.start = p /\ r.length = n /\ r.location = "IN_USE"
        /\ r.heaptype = h /\ r.sizeclass = 0
        /\ t.span = [s.span EXCEPT ![p] = r] /\ t.pagemap = Ends(s.pagemap, r)
        /\ t.stats = [s.stats EXCEPT ![h] = c]
        /\ (t.span \in [Pages -> SpanRecord]
              /\ t.pagemap \in [0 .. NPages + 1 -> 0 .. NPages] => t \in Heap)
        /\ c \in StatsRecord /\ c.system = s.stats[h].system + n
        /\ c.committed = s.stats[h].committed + n
        /\ c.free = s.stats[h].free /\ c.unmapped = s.stats[h].unmapped

\* What NewPages() does to the heaps.
LEMMA NewPagesFields ==
    ASSUME NEW s \in Heap, NEW h \in Types, NEW p \in Pages, NEW n \in 0 .. NPages
    PROVE  NewPagesEffect(s, h, p, n)
<1> DEFINE r == [NoSpan EXCEPT !.start = p, !.length = n, !.location = "IN_USE", !.heaptype = h]
           a == [s EXCEPT !.stats[h].system = @ + n, !.stats[h].committed = @ + n]
           t == NewSpan(a, r)
           c == Enlarged(s.stats[h], n)
           st == [s.stats EXCEPT ![h] = c]
           u == [s.span EXCEPT ![p] = r]
           q == Ends(s.pagemap, r)
<1>1. /\ r \in SpanRecord /\ r.start = p /\ r.length = n /\ r.location = "IN_USE"
      /\ r.heaptype = h /\ r.sizeclass = 0
  <2>1. p \in 0 .. NPages
    BY PageHeapAssumption DEF Pages
  <2>2. "IN_USE" \in Locations
    BY DEF Locations
  <2>3. NoSpan \in SpanRecord /\ NoSpan.sizeclass = 0
    <3>1. "NONE" \in Locations /\ "OPEN" \in Types /\ 0 \in 0 .. NPages /\ 0 \in Marks
      BY PageHeapAssumption DEF Locations, Types, Marks
    <3> QED
      BY <3>1 DEF SpanRecord, NoSpan
  <2> QED
    BY <2>1, <2>2, <2>3 DEF SpanRecord
<1>2. s.stats \in [Types -> StatsRecord] /\ s.stats[h] \in StatsRecord
  BY HeapFields
<1>3. /\ c \in StatsRecord /\ c.system = s.stats[h].system + n
      /\ c.committed = s.stats[h].committed + n
      /\ c.free = s.stats[h].free /\ c.unmapped = s.stats[h].unmapped
  <2>1. s.stats[h].system + n \in Int /\ s.stats[h].committed + n \in Int
    BY <1>2 DEF StatsRecord
  <2> QED
    BY <1>2, <2>1 DEF StatsRecord, Enlarged
<1>4. a = [s EXCEPT !.stats = st]
  BY <1>2 DEF Heap, Enlarged, StatsRecord
<1> HIDE DEF r, c, a
<1>5. st \in [Types -> StatsRecord]
  BY <1>2, <1>3
<1> HIDE DEF st
<1>6. a.span = s.span /\ a.pagemap = s.pagemap /\ a.stats = st /\ a \in Heap
  <2>1. a.span = s.span /\ a.pagemap = s.pagemap /\ a.stats = st
    BY <1>4 DEF Heap
  <2>2. a \in Heap
    BY <1>4, <1>5 DEF Heap
  <2> QED
    BY <2>1, <2>2
<1>7. t = [a EXCEPT !.span = u, !.pagemap = q]
  <2>1. t = [a EXCEPT !.span[p] = r, !.pagemap = Ends(@, r)]
    BY <1>1 DEF NewSpan
  <2>2. t = [a EXCEPT !.span = [a.span EXCEPT ![p] = r], !.pagemap = Ends(a.pagemap, r)]
    BY <1>6, <2>1 DEF Heap
  <2> QED
    BY <1>6, <2>2
<1>8. t = NewPages(s, h, p, n)
  BY DEF NewPages, a, r
<1> HIDE DEF t, u, q
<1>9. t.span = u /\ t.pagemap = q /\ t.stats = st
  BY <1>6, <1>7 DEF Heap
<1>10. u \in [Pages -> SpanRecord] /\ q \in [0 .. NPages + 1 -> 0 .. NPages] => t \in Heap
  BY <1>6, <1>7 DEF Heap
<1> QED
  BY <1>1, <1>3, <1>8, <1>9, <1>10 DEF NewPagesEffect, u, q, st, r, c

\* The new pages are a span in use.
LEMMA NewPagesOK ==
    ASSUME NEW s, NEW m, NEW h \in Types, NEW p \in Pages, NEW n \in Int, 1 <= n,
           p + n - 1 <= NPages, \A q \in p .. p + n - 1 : m[q] = "NONE", HeapOK(s, m, {}, h, 0)
    PROVE  NewPagesDone(s, NewPages(s, h, p, n), m, Mapping(m, p, p + n - 1, h), h, p)
<1> DEFINE sp == s.span
           r == [NoSpan EXCEPT !.start = p, !.length = n, !.location = "IN_USE", !.heaptype = h]
           y == p + n - 1
           mm == Mapping(m, p, y, h)
           t == NewPages(s, h, p, n)
           u == [sp EXCEPT ![p] = r]
           c == Enlarged(s.stats[h], n)
           st == [s.stats EXCEPT ![h] = c]
<1>0. /\ s \in Heap /\ Tiling(sp, s.pagemap, m) /\ Apart(sp, m, {}) /\ Compact(sp, {})
      /\ Drained(sp, {}) /\ Counts(sp, s.stats, {}) /\ Balanced(s.stats, h, 0)
      /\ SystemPages(s.stats, m)
  BY DEF HeapOK
<1>1. p \in Int /\ 1 <= p /\ NPages \in Int
  BY PageHeapAssumption DEF Pages
<1>2. n \in 0 .. NPages /\ y \in Pages /\ p <= y /\ n = y - p + 1 /\ y \in Int
  BY <1>1 DEF Pages
<1>a. NewPagesEffect(s, h, p, n)
  BY <1>0, <1>2, NewPagesFields
<1>3. /\ r \in SpanRecord /\ r.start = p /\ r.length = n /\ r.location = "IN_USE"
      /\ r.heaptype = h /\ r.sizeclass = 0
      /\ t.span = u /\ t.pagemap = Ends(s.pagemap, r) /\ t.stats = st
      /\ (t.span \in [Pages -> SpanRecord] /\ t.pagemap \in [0 .. NPages + 1 -> 0 .. NPages]
            => t \in Heap)
  BY <1>a DEF NewPagesEffect
<1>4. /\ c \in StatsRecord /\ c.system = s.stats[h].system + n
      /\ c.committed = s.stats[h].committed + n
      /\ c.free = s.stats[h].free /\ c.unmapped = s.stats[h].unmapped
  BY <1>a DEF NewPagesEffect
<1> HIDE DEF r, t, c, y
<1>5. GrowTiles(sp, s.pagemap, m, p, y, r, h)
  <2>1. \A q \in p .. y : m[q] = "NONE"
    BY DEF y
  <2>2. r.location # "NONE" /\ r.length = y - p + 1
    BY <1>2, <1>3
  <2> QED
    BY <1>0, <1>2, <1>3, <2>1, <2>2, TilingGrow
<1>6. Tiling(u, t.pagemap, mm) /\ LiveIn(u) = LiveIn(sp) \cup {p} /\ p \notin LiveIn(sp)
  BY <1>3, <1>5 DEF GrowTiles
<1>7. sp \in [Pages -> SpanRecord] /\ s.stats \in [Types -> StatsRecord] /\ m \in [Pages -> Mappings]
  BY <1>0, HeapFields DEF Tiling
<1>8. u[p] = r /\ \A l \in Pages \ {p} : u[l] = sp[l]
  BY <1>7
<1> HIDE DEF u, mm
<1>9. t \in Heap
  BY <1>3, <1>6 DEF Tiling
<1>10. LiveIn(sp) \ {} = LiveIn(u) \ {p} /\ \A l \in LiveIn(sp) \ {} : u[l] = sp[l]
  BY <1>6, <1>8 DEF LiveIn
<1>11. Apart(u, mm, {p})
  <2>1. Apart(u, m, {p})
    BY <1>0, <1>10, OthersSame
  <2>2. ASSUME NEW l \in LiveIn(u) \ {p}, NEW q \in l .. End(u, l) PROVE mm[q] = m[q]
    <3>1. l \in Int /\ End(u, l) \in Int /\ l <= End(u, l) /\ End(u, p) = y /\ q \in Pages
      <4>1. l \in Int /\ End(u, l) \in Int /\ 1 <= l /\ End(u, l) <= NPages /\ l <= End(u, l)
        BY <1>6, TilingBounds
      <4>2. End(u, p) = y
        BY <1>1, <1>2, <1>3, <1>8 DEF End
      <4> QED
        BY <1>1, <4>1, <4>2 DEF Pages
    <3>2. (l < p => End(u, l) < p) /\ (p < l => End(u, p) < l)
      BY <1>6 DEF Tiling, Disjoint
    <3>3. q \notin p .. y
      BY <1>1, <1>2, <3>1, <3>2
    <3> QED
      BY <3>1, <3>3 DEF mm, Mapping
  <2> QED
    BY <2>1, <2>2 DEF Apart, SpanApart
<1>12. Compact(u, {p}) /\ Drained(u, {p})
  BY <1>0, <1>10, OthersSame
<1>13. Counts(u, s.stats, {p})
  BY <1>0, <1>10, OthersCounted
<1> HIDE DEF st
<1>16. "RESTRICT" \in Types /\ "OPEN" \in Types /\ h \in {"RESTRICT", "OPEN"}
  BY DEF Types
<1>17. Counts(u, st, {p}) /\ Balanced(st, h, 0) /\ SystemPages(st, mm)
  <2>1. /\ Balanced(st, h, 0) /\ SystemPages(st, mm)
        /\ \A g \in Types : st[g].free = s.stats[g].free /\ st[g].unmapped = s.stats[g].unmapped
    <3>1. CountedDone(s, m, h, p, y, n, h)
      <4>1. h # "NONE" /\ \A q \in p .. y : m[q] = "NONE"
        BY DEF Types, y
      <4> QED
        BY <1>0, <1>2, <1>7, <4>1, CountedOK
    <3> QED
      BY <3>1 DEF CountedDone, st, c, mm
  <2> QED
    BY <1>13, <1>16, <2>1 DEF Counts
<1>20. HeapOK(t, mm, {p}, h, 0)
  BY <1>3, <1>6, <1>9, <1>11, <1>12, <1>17 DEF HeapOK
<1>21. \A q \in p .. End(u, p) : mm[q] = h
  <2>1. End(u, p) = y
    BY <1>1, <1>2, <1>3, <1>8 DEF End
  <2>2. \A q \in p .. y : q \in Pages
    BY <1>1, <1>2 DEF Pages
  <2> QED
    BY <2>1, <2>2 DEF mm, Mapping
<1>22. sp[p].location = "NONE"
  BY <1>6 DEF LiveIn
<1> QED
  BY <1>3, <1>8, <1>20, <1>21, <1>22 DEF NewPagesDone, t, mm, y

\* The system has given the pages from p, n of them, and they are in no span.
LostPages(s, h, n) == [s EXCEPT !.stats[h].system = @ + n, !.stats[h].committed = @ + n]

\* The new pages are counted and lost.
LEMMA LostPagesOK ==
    ASSUME NEW s, NEW m, NEW h \in Types, NEW p \in Pages, NEW n \in Int, 1 <= n,
           p + n - 1 <= NPages, \A q \in p .. p + n - 1 : m[q] = "NONE", HeapOK(s, m, {}, h, 0)
    PROVE  LET t == LostPages(s, h, n)
           IN  HeapOK(t, Mapping(m, p, p + n - 1, "LOST"), {}, h, 0) /\ t.span = s.span
<1> DEFINE sp == s.span
           y == p + n - 1
           mm == Mapping(m, p, y, "LOST")
           t == LostPages(s, h, n)
           st == [s.stats EXCEPT ![h] = Enlarged(s.stats[h], n)]
<1>0. /\ s \in Heap /\ Tiling(sp, s.pagemap, m) /\ Apart(sp, m, {}) /\ Compact(sp, {})
      /\ Drained(sp, {}) /\ Counts(sp, s.stats, {}) /\ Balanced(s.stats, h, 0)
      /\ SystemPages(s.stats, m)
  BY DEF HeapOK
<1>1. p \in Int /\ 1 <= p /\ NPages \in Int
  BY PageHeapAssumption DEF Pages
<1>2. y \in Pages /\ p <= y /\ n = y - p + 1 /\ \A q \in p .. y : m[q] = "NONE"
  BY <1>1 DEF Pages
<1>3. s.stats \in [Types -> StatsRecord] /\ s.stats[h] \in StatsRecord /\ m \in [Pages -> Mappings]
  BY <1>0, HeapFields DEF Tiling
<1>4. t = [s EXCEPT !.stats = st]
  BY <1>0, <1>3 DEF LostPages, Heap, Enlarged, StatsRecord
<1> HIDE DEF t, y
<1>5. CountedDone(s, m, h, p, y, n, "LOST")
  BY <1>0, <1>2, <1>3, CountedOK
<1>6. /\ st \in [Types -> StatsRecord] /\ Balanced(st, h, 0) /\ SystemPages(st, mm)
      /\ \A g \in Types : st[g].free = s.stats[g].free /\ st[g].unmapped = s.stats[g].unmapped
  BY <1>5 DEF CountedDone
<1> HIDE DEF st
<1>7. t \in Heap /\ t.span = sp /\ t.pagemap = s.pagemap /\ t.stats = st
  <2>1. t.span = sp /\ t.pagemap = s.pagemap /\ t.stats = st
    BY <1>0, <1>4 DEF Heap
  <2>2. t \in Heap
    BY <1>0, <1>4, <1>6 DEF Heap
  <2> QED
    BY <2>1, <2>2
<1>8. Tiling(sp, t.pagemap, mm)
  BY <1>0, <1>2, <1>7, TilingLose
<1>9. Apart(sp, mm, {})
  <2>1. ASSUME NEW l \in LiveIn(sp), NEW q \in l .. End(sp, l) PROVE mm[q] = m[q]
    <3>1. q \in Pages /\ l <= q /\ q <= End(sp, l)
      <4>1. l \in Int /\ End(sp, l) \in Int /\ 1 <= l /\ End(sp, l) <= NPages
        BY <1>0, TilingBounds
      <4> QED
        BY <1>1, <4>1 DEF Pages
    <3>2. m[q] \in Types
      BY <1>0, <3>1 DEF Tiling, Covering
    <3>3. q \notin p .. y
      BY <1>2, <3>2 DEF Types
    <3> QED
      BY <3>1, <3>3 DEF Mapping
  <2> HIDE DEF mm
  <2> QED
    BY <1>0, <2>1 DEF Apart, SpanApart
<1>10. Counts(sp, st, {})
  BY <1>0, <1>6 DEF Counts, Types
<1> HIDE DEF mm
<1>11. HeapOK(t, mm, {}, h, 0)
  BY <1>0, <1>6, <1>7, <1>8, <1>9, <1>10 DEF HeapOK
<1> QED
  BY <1>7, <1>11 DEF t, mm, y

\* GrowHeap(): the new pages end up on a list, or nowhere.
LEMMA GrowOK ==
    ASSUME NEW s, NEW m, NEW h \in Types, NEW n \in Int, 1 <= n, HeapOK(s, m, {}, h, 0),
           aggressive => releases, NEW g \in GrowHeap(s, m, h, n)
    PROVE  HeapOK(g[1], g[2], {}, h, 0) /\ UseKept(s.span, g[1].span)
<1> DEFINE most == IF n > kMinSystemAlloc THEN n ELSE kMinSystemAlloc
           ask == IF Unmapped(m, most) # {} THEN most ELSE n
           Grown(p) ==
                {<<Delete(NewPages(s, h, p, ask), h, p, due), Mapping(m, p, p + ask - 1, h), "GROWN">>
                    : due \in BOOLEAN}
           Lost(p) == <<LostPages(s, h, ask), Mapping(m, p, p + ask - 1, "LOST"), "FAILED">>
<1>1. \/ g = <<s, m, "FAILED">>
      \/ \E p \in Unmapped(m, ask) : g \in Grown(p) \/ g = Lost(p)
  <2>1. GrowHeap(s, m, h, n) = IF Unmapped(m, ask) = {} THEN {<<s, m, "FAILED">>}
                               ELSE UNION {Grown(p) \cup {Lost(p)} : p \in Unmapped(m, ask)}
    BY DEF GrowHeap, NewPages, LostPages, Mapping
  <2> HIDE DEF ask, Grown, Lost
  <2> QED
    BY <2>1
<1>2. ask \in Int /\ 1 <= ask
  BY PageHeapAssumption
<1> HIDE DEF ask
<1>3. CASE g = <<s, m, "FAILED">>
  <2>1. g[1] = s /\ g[2] = m
    BY <1>3
  <2> QED
    BY <2>1 DEF UseKept
<1>4. ASSUME NEW p \in Unmapped(m, ask), g \in Grown(p) \/ g = Lost(p)
      PROVE  HeapOK(g[1], g[2], {}, h, 0) /\ UseKept(s.span, g[1].span)
  <2>1. p \in Pages /\ p + ask - 1 <= NPages /\ \A q \in p .. p + ask - 1 : m[q] = "NONE"
    <3>1. p \in Pages /\ (\A q \in p .. p + ask - 1 : m[q] = "NONE")
          /\ p + ask - 1 <= (IF strict THEN NPages ELSE MixedPages)
      BY DEF Unmapped
    <3> QED
      BY <1>2, <3>1, PageHeapAssumption DEF Pages
  <2>2. CASE g = Lost(p)
    <3> DEFINE t == LostPages(s, h, ask)
               mm == Mapping(m, p, p + ask - 1, "LOST")
    <3>1. HeapOK(t, mm, {}, h, 0) /\ t.span = s.span
      BY <1>2, <2>1, LostPagesOK
    <3> HIDE DEF t, mm
    <3>2. g[1] = t /\ g[2] = mm
      BY <2>2 DEF t, mm
    <3> QED
      BY <3>1, <3>2 DEF UseKept
  <2>3. CASE g \in Grown(p)
    <3> DEFINE t == NewPages(s, h, p, ask)
               mm == Mapping(m, p, p + ask - 1, h)
    <3>1. PICK due \in BOOLEAN : g = <<Delete(t, h, p, due), mm, "GROWN">>
      BY <2>3
    <3> DEFINE u == Delete(t, h, p, due)
    <3>4. NewPagesDone(s, t, m, mm, h, p)
      BY <1>2, <2>1, NewPagesOK
    <3> HIDE DEF t, mm
    <3>5. /\ HeapOK(t, mm, {p}, h, 0) /\ t.span[p].location = "IN_USE" /\ t.span[p].heaptype = h
          /\ s.span[p].location = "NONE" /\ \A l \in Pages \ {p} : t.span[l] = s.span[l]
          /\ \A q \in p .. End(t.span, p) : mm[q] = h
      BY <3>4 DEF NewPagesDone
    <3>6. HeapOK(u, mm, {}, h, 0) /\ Freed(t.span, u.span, p)
      BY <2>1, <3>5, DeleteOK
    <3>7. g[1] = u /\ g[2] = mm
      BY <3>1
    <3> HIDE DEF u
    <3>8. UseKept(s.span, u.span)
      BY <3>5, <3>6 DEF UseKept, Freed
    <3> QED
      BY <3>6, <3>7, <3>8
  <2> QED
    BY <1>4, <2>2, <2>3
<1> HIDE DEF Grown, Lost
<1> QED
  BY <1>1, <1>3, <1>4

\* The result of PageHeap::New(): a span that was not in use before, or none.
NewDone(s, r, h, n) ==
    /\ HeapOK(r[1], r[2], {}, h, 0)
    /\ r[3] = 0 => UseKept(s.span, r[1].span)
    /\ r[3] # 0 => /\ r[3] \in Pages /\ Taken(s.span, r[1].span, r[3])
                   /\ r[1].span[r[3]].length = n
                   /\ strict => r[1].span[r[3]].heaptype = h

\* SearchFreeAndLargeLists() finds spans of the heap that are long enough.
LEMMA SearchFinds ==
    ASSUME NEW s, NEW h, NEW n, NEW i \in SearchFreeAndLargeLists(s, h, n)
    PROVE  i \in Listed(s, h) /\ s.span[i].length >= n
BY DEF SearchFreeAndLargeLists

\* Carving after steps that change no use.
LEMMA CarvedNew ==
    ASSUME NEW s, NEW t, NEW m, NEW h \in Types, NEW n \in Int, 1 <= n,
           HeapOK(t, m, {}, h, 0), UseKept(s.span, t.span),
           NEW i \in SearchFreeAndLargeLists(t, h, n)
    PROVE  NewDone(s, <<Carve(t, h, i, n), m, i>>, h, n)
<1> DEFINE u == Carve(t, h, i, n)
<1>1. i \in Listed(t, h) /\ t.span[i].length >= n
  BY SearchFinds
<1>2. n <= t.span[i].length
  <2>1. i \in LiveIn(t.span) /\ Tiling(t.span, t.pagemap, m)
    BY <1>1 DEF HeapOK, Listed, Live, LiveIn
  <2>2. t.span[i].length \in Int
    BY <2>1, TilingBounds
  <2> QED
    BY <1>1, <2>2
<1>3. CarveDone(t, u, m, h, i, n)
  BY <1>1, <1>2, CarveOK
<1> HIDE DEF u
<1>4. /\ HeapOK(u, m, {}, h, 0) /\ Taken(t.span, u.span, i) /\ i \in Pages
      /\ u.span[i].length = n /\ (strict => u.span[i].heaptype = h)
  BY <1>3 DEF CarveDone
<1>5. Taken(s.span, u.span, i)
  BY <1>4 DEF Taken, UseKept
<1>6. i # 0
  BY <1>4 DEF Pages
<1> DEFINE r == <<u, m, i>>
<1>7. r[1] = u /\ r[2] = m /\ r[3] = i
  OBVIOUS
<1> HIDE DEF r
<1>8. NewDone(s, r, h, n)
  BY <1>4, <1>5, <1>6, <1>7 DEF NewDone
<1> QED
  BY <1>8 DEF r, u

\* PageHeap::New().
LEMMA NewOK ==
    ASSUME NEW s, NEW m, NEW h \in Types, NEW n \in Int, 1 <= n, HeapOK(s, m, {}, h, 0),
           aggressive => releases, NEW r \in New(s, m, h, n)
    PROVE  NewDone(s, r, h, n)
<1> DEFINE Carved(t, mm) == {<<Carve(t, h, i, n), mm, i>> :
                                i \in SearchFreeAndLargeLists(t, h, n)}
           s1 == IF MustCoalesce(s, h, n) THEN ReleaseAtLeastNPages(s, h, NPages).s ELSE s
           found == IF Carved(s, m) # {} THEN Carved(s, m) ELSE Carved(s1, m)
           After1(g) == IF g[3] = "GROWN" THEN Carved(g[1], g[2]) ELSE {<<g[1], g[2], 0>>}
<1>1. r \in found \/ \E g \in GrowHeap(s1, m, h, n) : r \in Carved(g[1], g[2]) \/ r = <<g[1], g[2], 0>>
  <2>1. New(s, m, h, n) = IF found # {} THEN found
                          ELSE UNION {After1(g) : g \in GrowHeap(s1, m, h, n)}
    BY DEF New
  <2> HIDE DEF found, s1, Carved
  <2>2. CASE found # {}
    BY <2>1, <2>2
  <2>3. CASE found = {}
    <3>1. PICK g \in GrowHeap(s1, m, h, n) : r \in After1(g)
      <4> HIDE DEF After1
      <4> QED
        BY <2>1, <2>3
    <3> QED
      BY <3>1
  <2> QED
    BY <2>2, <2>3
<1>2. UseKept(s.span, s.span)
  BY DEF UseKept
<1>3. HeapOK(s1, m, {}, h, 0) /\ UseKept(s.span, s1.span)
  <2>1. CASE MustCoalesce(s, h, n)
    BY <2>1, ReleaseOK
  <2>2. CASE ~MustCoalesce(s, h, n)
    BY <1>2, <2>2
  <2> QED
    BY <2>1, <2>2
<1> HIDE DEF s1
<1>4. CASE r \in found
  <2>1. CASE Carved(s, m) # {}
    <3>1. PICK i \in SearchFreeAndLargeLists(s, h, n) : r = <<Carve(s, h, i, n), m, i>>
      BY <1>4, <2>1
    <3> QED
      BY <1>2, <3>1, CarvedNew
  <2>2. CASE ~ (Carved(s, m) # {})
    <3>1. PICK i \in SearchFreeAndLargeLists(s1, h, n) : r = <<Carve(s1, h, i, n), m, i>>
      BY <1>4, <2>2
    <3> QED
      BY <1>3, <3>1, CarvedNew
  <2> QED
    BY <2>1, <2>2
<1>5. ASSUME NEW g \in GrowHeap(s1, m, h, n), r \in Carved(g[1], g[2]) \/ r = <<g[1], g[2], 0>>
      PROVE  NewDone(s, r, h, n)
  <2>1. HeapOK(g[1], g[2], {}, h, 0) /\ UseKept(s1.span, g[1].span)
    BY <1>3, GrowOK
  <2>2. UseKept(s.span, g[1].span)
    BY <1>3, <2>1, UseKeptTrans
  <2>3. CASE r \in Carved(g[1], g[2])
    <3>1. PICK i \in SearchFreeAndLargeLists(g[1], h, n) : r = <<Carve(g[1], h, i, n), g[2], i>>
      BY <2>3
    <3> QED
      BY <2>1, <2>2, <3>1, CarvedNew
  <2>4. CASE r = <<g[1], g[2], 0>>
    <3>1. r[1] = g[1] /\ r[2] = g[2] /\ r[3] = 0
      BY <2>4
    <3> QED
      BY <2>1, <2>2, <3>1 DEF NewDone
  <2> QED
    BY <1>5, <2>3, <2>4
<1> HIDE DEF found, Carved
<1> QED
  BY <1>1, <1>4, <1>5

-----------------------------------------------------------------------------
(* The specification.                                                      *)

\* A size class in the cache for a page of the span i is that of the span.
FreshAt(sp, c, i) ==
    \A p \in Pages :
        p = i \/ (sp[i].sizeclass # 0 /\ p \in i .. End(sp, i)) => c[p] \in {0, sp[i].sizeclass}
CachedFresh(sp, c, pop) ==
    \A i \in Pages : sp[i].location = "IN_USE" /\ pop[i] = "NONE" => FreshAt(sp, c, i)

\* A span that Populate() has yet to prepare is in use and has its size class.
Pending(sp, pop) ==
    \A i \in Pages : pop[i] # "NONE" =>
        /\ sp[i].location = "IN_USE" /\ sp[i].sizeclass # 0
        /\ strict => pop[i] = sp[i].heaptype

\* What a step has to lead to, told of the heaps s it leads to.
After(s, m, c, pop) ==
    /\ HeapOK(s, m, {}, DEFAULT_HEAP_TYPE, 0)
    /\ c \in [Pages -> Marks] /\ pop \in [Pages -> Types \cup {"NONE"}]
    /\ CachedFresh(s.span, c, pop) /\ Pending(s.span, pop)

\* The inductive invariant.
IInv == After(ph, mapping, cached, populating) /\ (aggressive => releases)

\* The heap whose balance is talked of makes no difference when nothing is owed.
LEMMA AnyHeap ==
    ASSUME NEW s, NEW m, NEW g, NEW h, HeapOK(s, m, {}, g, 0)
    PROVE  HeapOK(s, m, {}, h, 0)
BY DEF HeapOK, Balanced

\* A span has been cut after n pages, and the part k was freed; the part o is
\* in use.
HalfFreed(s, t, m, h, i, n, k, o) ==
    /\ HeapOK(t, m, {}, h, 0) /\ o \in Pages /\ k \in Pages /\ k # o
    /\ s.span[i + n].location = "NONE"
    /\ t.span[k].location # "IN_USE" /\ t.span[o].location = "IN_USE" /\ t.span[o].sizeclass = 0
    /\ t.span[o].length = IF o = i THEN n ELSE s.span[i].length - n
    /\ strict => t.span[o].heaptype = h
    /\ \A l \in Pages \ {i, i + n} :
          s.span[l].location = "IN_USE" \/ t.span[l].location = "IN_USE" => t.span[l] = s.span[l]

\* do_memalign() cuts off one end or the other.
LEMMA HalfOK ==
    ASSUME NEW s, NEW m, NEW h \in Types, NEW i \in Pages, s.span[i].location = "IN_USE",
           s.span[i].sizeclass = 0, NEW n \in Int, 1 <= n, n < s.span[i].length,
           HeapOK(s, m, {}, h, 0), strict => s.span[i].heaptype = h, aggressive => releases,
           NEW k, NEW o, (k = i /\ o = i + n) \/ (k = i + n /\ o = i), NEW due
    PROVE  HalfFreed(s, Delete(Split(s, h, i, n), h, k, due), m, h, i, n, k, o)
<1> DEFINE u == Split(s, h, i, n)
           t == Delete(u, h, k, due)
<1>1. SplitDone(s, u, m, h, i, n)
  BY SplitOK
<1> HIDE DEF u
<1>2. /\ HeapOK(u, m, {}, h, 0) /\ i + n \in Pages \ {i} /\ s.span[i + n].location = "NONE"
      /\ u.span[i].location = "IN_USE" /\ u.span[i].sizeclass = 0 /\ u.span[i].length = n
      /\ u.span[i].heaptype = s.span[i].heaptype
      /\ u.span[i + n].location = "IN_USE" /\ u.span[i + n].sizeclass = 0
      /\ u.span[i + n].length = s.span[i].length - n /\ u.span[i + n].heaptype = h
      /\ \A l \in Pages \ {i, i + n} : u.span[l] = s.span[l]
  BY <1>1 DEF SplitDone
<1>3. k \in Pages /\ o \in Pages /\ k # o /\ u.span[k].location = "IN_USE"
      /\ (strict => u.span[k].heaptype = h)
  BY <1>2
<1>4. strict => u.span[k].heaptype = h /\ \A p \in k .. End(u.span, k) : m[p] = h
  <2>1. k \in LiveIn(u.span)
    BY <1>3 DEF LiveIn
  <2>2. strict => SpanApart(u.span, m, k)
    BY <1>2, <2>1 DEF HeapOK, Apart
  <2> QED
    BY <1>3, <2>2 DEF SpanApart
<1>5. HeapOK(u, m, {k}, h, 0)
  BY <1>2, <1>3, ExemptInUse
<1>6. HeapOK(t, m, {}, h, 0) /\ Freed(u.span, t.span, k)
  BY <1>3, <1>4, <1>5, DeleteOK
<1> HIDE DEF t
<1>7. /\ t.span[k].location # "IN_USE" /\ t.span[o] = u.span[o]
      /\ \A l \in Pages \ {k} : u.span[l].location = "IN_USE" \/ t.span[l].location = "IN_USE"
                                  => t.span[l] = u.span[l]
  BY <1>2, <1>3, <1>6 DEF Freed
<1>8. \A l \in Pages \ {i, i + n} :
         s.span[l].location = "IN_USE" \/ t.span[l].location = "IN_USE" => t.span[l] = s.span[l]
  BY <1>2, <1>7
<1>9. HalfFreed(s, t, m, h, i, n, k, o)
  BY <1>2, <1>3, <1>6, <1>7, <1>8 DEF HalfFreed
<1> QED
  BY <1>9 DEF t, u

\* A span in use with new marks.
UseMarked(s, t, i, r) ==
    /\ t \in Heap /\ t.span = [s.span EXCEPT ![i] = r] /\ t.stats = s.stats
    /\ r.location = "IN_USE" /\ r.length = s.span[i].length /\ r.from = s.span[i].from
    /\ strict => r.heaptype = s.span[i].heaptype

\* Nothing else changes.
LEMMA UseMarkedOK ==
    ASSUME NEW s, NEW t, NEW m, NEW h, NEW i \in Pages, NEW r, s.span[i].location = "IN_USE",
           HeapOK(s, m, {}, h, 0), UseMarked(s, t, i, r), Tiling(t.span, t.pagemap, m)
    PROVE  /\ HeapOK(t, m, {}, h, 0) /\ t.span[i] = r
           /\ \A l \in Pages \ {i} : t.span[l] = s.span[l]
<1> DEFINE sp == s.span
           u == [sp EXCEPT ![i] = r]
<1>0. /\ s \in Heap /\ Tiling(sp, s.pagemap, m) /\ i \in LiveIn(sp) /\ Apart(sp, m, {})
      /\ Compact(sp, {}) /\ Drained(sp, {}) /\ Counts(sp, s.stats, {})
      /\ Balanced(s.stats, h, 0) /\ SystemPages(s.stats, m)
  BY DEF HeapOK, LiveIn
<1>1. sp \in [Pages -> SpanRecord]
  BY <1>0, HeapFields
<1>2. /\ t \in Heap /\ t.span = u /\ t.stats = s.stats
      /\ r.location = "IN_USE" /\ r.length = sp[i].length /\ r.from = sp[i].from
      /\ strict => r.heaptype = sp[i].heaptype
  BY DEF UseMarked
<1>6. /\ LiveIn(u) = LiveIn(sp) /\ u[i] = r /\ \A l \in Pages \ {i} : u[l] = sp[l]
      /\ \A l \in Pages : End(u, l) = End(sp, l)
      /\ LiveIn(sp) \ {i} = LiveIn(u) \ {i}
      /\ \A l \in LiveIn(sp) \ {i} : u[l] = sp[l]
  <2>1. r.location # "NONE" /\ r.length = sp[i].length
    BY <1>2
  <2> QED
    BY <1>0, <1>1, <2>1, Remarked
<1> HIDE DEF u
<1>9. Apart(u, m, {})
  <2>1. Apart(u, m, {i})
    <3>1. Apart(sp, m, {i})
      BY <1>0 DEF Apart
    <3> QED
      BY <1>6, <3>1, OthersSame
  <2>2. strict => SpanApart(u, m, i)
    <3>1. strict => SpanApart(sp, m, i)
      BY <1>0 DEF Apart
    <3> QED
      BY <1>2, <1>6, <3>1 DEF SpanApart
  <2> QED
    BY <2>1, <2>2 DEF Apart
<1>10. Compact(u, {}) /\ Drained(u, {})
  <2>1. Compact(sp, {i}) /\ Drained(sp, {i})
    BY <1>0 DEF Compact, Drained
  <2>2. Compact(u, {i}) /\ Drained(u, {i})
    BY <1>6, <2>1, OthersSame
  <2>3. i \notin Idle(u) /\ u[i].location # "NORMAL"
    BY <1>2, <1>6 DEF Idle
  <2> QED
    BY <2>2, <2>3 DEF Compact, Drained
<1>11. Counts(u, s.stats, {})
  <2>1. Idle(sp) \ {} = Idle(u) \ {} /\ \A l \in Idle(sp) \ {} : u[l] = sp[l]
    BY <1>2, <1>6 DEF Idle
  <2> QED
    BY <1>0, <2>1, CountsSame
<1>12. HeapOK(t, m, {}, h, 0)
  BY <1>0, <1>2, <1>9, <1>10, <1>11 DEF HeapOK
<1> QED
  BY <1>2, <1>6, <1>12

\* RegisterSizeClass(): the span gets a size class, and all its pages lead to it.
Fill(s, cl, i) ==
    LET pages == PagesOf(s.span[i])
    IN  [s EXCEPT !.span[i].sizeclass = cl,
                  !.pagemap = [p \in DOMAIN @ |-> IF p \in pages THEN i ELSE @[p]]]

\* Nothing else changes.
FillDone(s, t, m, h, cl, i) ==
    /\ HeapOK(t, m, {}, h, 0) /\ t.loop = s.loop
    /\ t.span[i].location = "IN_USE" /\ t.span[i].sizeclass = cl
    /\ t.span[i].heaptype = s.span[i].heaptype
    /\ \A l \in Pages \ {i} : t.span[l] = s.span[l]

\* A span in use gets a size class.
LEMMA FillOK ==
    ASSUME NEW s, NEW m, NEW h \in Types, NEW i \in Pages, s.span[i].location = "IN_USE",
           HeapOK(s, m, {}, h, 0), NEW cl \in Classes
    PROVE  FillDone(s, Fill(s, cl, i), m, h, cl, i)
<1> DEFINE sp == s.span
           r == [sp[i] EXCEPT !.sizeclass = cl]
           u == [sp EXCEPT ![i] = r]
           q == [p \in DOMAIN s.pagemap |-> IF p \in i .. End(sp, i) THEN i ELSE s.pagemap[p]]
           t == Fill(s, cl, i)
<1>0. s \in Heap /\ Tiling(sp, s.pagemap, m) /\ i \in LiveIn(sp)
  BY DEF HeapOK, LiveIn
<1>1. /\ sp[i] \in SpanRecord /\ sp \in [Pages -> SpanRecord] /\ sp[i].start = i
      /\ sp[i].length \in Int /\ i \in Int
  BY <1>0, TilingBounds, HeapFields
<1>2. /\ r \in SpanRecord /\ r.location = "IN_USE" /\ r.start = sp[i].start
      /\ r.length = sp[i].length /\ r.sizeclass = cl /\ r.heaptype = sp[i].heaptype
      /\ r.from = sp[i].from
  <2>1. cl \in Marks
    BY DEF Marks
  <2> QED
    BY <1>1, <2>1 DEF SpanRecord
<1>3. PagesOf(sp[i]) = i .. End(sp, i)
  BY <1>1 DEF PagesOf, Last, End
<1>4. t = [s EXCEPT !.span = u, !.pagemap = q]
  <2> DEFINE pages == PagesOf(sp[i])
  <2>1. t = [s EXCEPT !.span[i].sizeclass = cl,
                !.pagemap = [p \in DOMAIN @ |-> IF p \in pages THEN i ELSE @[p]]]
    BY DEF Fill
  <2>2. q = [p \in DOMAIN s.pagemap |-> IF p \in pages THEN i ELSE s.pagemap[p]]
    BY <1>3
  <2> HIDE DEF pages, q
  <2> QED
    BY <1>0, <1>1, <2>1, <2>2 DEF Heap
<1> HIDE DEF r, q, t
<1>5. Tiling(u, q, m)
  BY <1>0, <1>2, TilingFill DEF q
<1> HIDE DEF u
<1>7. t.span = u /\ t.pagemap = q /\ t.stats = s.stats /\ t.loop = s.loop
  BY <1>0, <1>4 DEF Heap
<1>8. t \in Heap
  <2>1. u \in [Pages -> SpanRecord] /\ q \in [0 .. NPages + 1 -> 0 .. NPages]
    BY <1>5 DEF Tiling
  <2> QED
    BY <1>0, <1>4, <2>1 DEF Heap
<1>9. UseMarked(s, t, i, r)
  BY <1>2, <1>7, <1>8 DEF UseMarked, u
<1>10. Tiling(t.span, t.pagemap, m)
  BY <1>5, <1>7
<1>11. /\ HeapOK(t, m, {}, h, 0) /\ t.span[i] = r
       /\ \A l \in Pages \ {i} : t.span[l] = sp[l]
  BY <1>9, <1>10, UseMarkedOK
<1> QED
  BY <1>2, <1>7, <1>11 DEF FillDone, t

\* The modes of the program stay.
LEMMA AfterStep ==
    ASSUME After(ph', mapping', cached', populating'), UNCHANGED <<aggressive, releases, strict>>,
           aggressive => releases
    PROVE  IInv'
<1>1. HeapOK(ph', mapping', {}, DEFAULT_HEAP_TYPE, 0)
  BY DEF After
<1>2. Apart(ph'.span, mapping', {}) => Apart(ph.span, mapping, {})'
  BY DEF Apart
<1>3. Compact(ph'.span, {}) => Compact(ph.span, {})'
  BY DEF Compact, Mergeable
<1>4. Drained(ph'.span, {}) => Drained(ph.span, {})'
  BY DEF Drained
<1>5. Counts(ph'.span, ph'.stats, {}) => Counts(ph.span, ph.stats, {})'
  BY DEF Counts
<1>a. ph' \in Heap => (ph \in Heap)'
  BY DEF Heap, Loops
<1>6. HeapOK(ph, mapping, {}, DEFAULT_HEAP_TYPE, 0)'
  BY <1>1, <1>2, <1>3, <1>4, <1>5, <1>a DEF HeapOK
<1>7. Pending(ph'.span, populating') => Pending(ph.span, populating)'
  BY DEF Pending
<1>8. /\ cached' \in [Pages -> Marks] /\ populating' \in [Pages -> Types \cup {"NONE"}]
      /\ CachedFresh(ph'.span, cached', populating') /\ Pending(ph'.span, populating')
  BY DEF After
<1> QED
  BY <1>6, <1>7, <1>8 DEF IInv, After

\* An operation that never ends changes nothing that is seen.
LEMMA StuckStep ==
    ASSUME IInv, NEW s \in Heap, s.loop # "ENDS", ph' = [ph EXCEPT !.loop = "SPINS"],
           UNCHANGED <<mapping, cached, populating, aggressive, releases, strict>>
    PROVE  IInv'
<1> DEFINE t == [ph EXCEPT !.loop = "SPINS"]
<1>1. /\ HeapOK(ph, mapping, {}, DEFAULT_HEAP_TYPE, 0) /\ ph \in Heap
      /\ cached \in [Pages -> Marks] /\ populating \in [Pages -> Types \cup {"NONE"}]
      /\ CachedFresh(ph.span, cached, populating) /\ Pending(ph.span, populating)
      /\ (aggressive => releases)
  BY DEF IInv, After, HeapOK
<1>2. "SPINS" \in Loops
  BY DEF Heap, Loops
<1>3. t \in Heap /\ t.span = ph.span /\ t.pagemap = ph.pagemap /\ t.stats = ph.stats
  BY <1>1, <1>2 DEF Heap
<1> HIDE DEF t
<1>4. HeapOK(t, mapping, {}, DEFAULT_HEAP_TYPE, 0)
  BY <1>1, <1>3 DEF HeapOK
<1>5. After(t, mapping, cached, populating)
  BY <1>1, <1>3, <1>4 DEF After
<1>6. After(ph', mapping', cached', populating')
  BY <1>5 DEF t
<1> QED
  BY <1>1, <1>6, AfterStep

\* Leaving pageheap_lock with heaps that are well.
LEMMA UnlockStep ==
    ASSUME IInv, NEW s, NEW m, NEW c, Unlock(s, m, c), After(s, m, c, populating),
           UNCHANGED <<populating, aggressive, releases, strict>>
    PROVE  IInv'
<1>1. s \in Heap /\ (aggressive => releases)
  BY DEF IInv, After, HeapOK
<1>2. CASE s.loop = "ENDS"
  <2>1. ph' = s /\ mapping' = m /\ cached' = c
    BY <1>2 DEF Unlock
  <2>2. After(ph', mapping', cached', populating')
    BY <2>1
  <2> QED
    BY <1>1, <2>2, AfterStep
<1>3. CASE s.loop # "ENDS"
  <2>1. ph' = [ph EXCEPT !.loop = "SPINS"] /\ UNCHANGED <<mapping, cached>>
    BY <1>3 DEF Unlock
  <2> QED
    BY <1>1, <1>3, <2>1, StuckStep
<1> QED
  BY <1>2, <1>3

\* The spans in use other than o are those there were, and the cache has lost
\* entries at most.
OthersKept(sp, t, c, d, o) ==
    /\ \A l \in Pages \ {o} : sp[l].location = "IN_USE" \/ t[l].location = "IN_USE" => t[l] = sp[l]
    /\ d \in [Pages -> Marks] /\ \A p \in Pages : d[p] \in {0, c[p]}
    /\ o \in Pages /\ t[o].location = "IN_USE" => t[o].sizeclass = 0 /\ d[o] = 0

\* Then the cache has no stale class, and what is to be prepared is still there.
LEMMA KeptFresh ==
    ASSUME NEW sp, NEW t, NEW c, NEW d, NEW o, NEW pop, OthersKept(sp, t, c, d, o),
           CachedFresh(sp, c, pop), Pending(sp, pop), o \in Pages => pop[o] = "NONE"
    PROVE  CachedFresh(t, d, pop) /\ Pending(t, pop)
<1>1. Pending(t, pop)
  BY DEF Pending, OthersKept
<1>2. ASSUME NEW l \in Pages, t[l].location = "IN_USE", pop[l] = "NONE"
      PROVE  FreshAt(t, d, l)
  <2>1. CASE l = o
    BY <1>2, <2>1 DEF OthersKept, FreshAt
  <2>2. CASE l # o
    <3>1. t[l] = sp[l] /\ End(t, l) = End(sp, l)
      BY <1>2, <2>2 DEF OthersKept, End
    <3>2. FreshAt(sp, c, l)
      BY <1>2, <3>1 DEF CachedFresh
    <3> QED
      BY <3>1, <3>2 DEF FreshAt, OthersKept
  <2> QED
    BY <2>1, <2>2
<1> QED
  BY <1>1, <1>2 DEF CachedFresh

\* What the invariant says, for either heap.
LEMMA Before1 ==
    ASSUME IInv, NEW h
    PROVE  /\ HeapOK(ph, mapping, {}, h, 0) /\ cached \in [Pages -> Marks]
           /\ populating \in [Pages -> Types \cup {"NONE"}]
           /\ CachedFresh(ph.span, cached, populating) /\ Pending(ph.span, populating)
           /\ (aggressive => releases)
BY AnyHeap DEF IInv, After

\* The lengths asked for are positive.
LEMMA AskedLengths ==
    ASSUME NEW n \in Asked
    PROVE  n \in Int /\ 1 <= n
BY PageHeapAssumption DEF Asked

\* do_malloc_pages() keeps the invariant.
LEMMA MallocStep ==
    ASSUME IInv, NEW h \in Types, NEW n \in Asked, do_malloc_pages(h, n)
    PROVE  IInv'
<1>1. PICK r \in New(ph, mapping, h, n) :
         /\ Unlock(r[1], r[2], [p \in Pages |-> IF p = r[3] THEN 0 ELSE cached[p]])
         /\ UNCHANGED <<populating, aggressive, releases, strict>>
  BY Zenon DEF do_malloc_pages
<1>2. /\ HeapOK(ph, mapping, {}, h, 0) /\ cached \in [Pages -> Marks]
      /\ populating \in [Pages -> Types \cup {"NONE"}]
      /\ CachedFresh(ph.span, cached, populating) /\ Pending(ph.span, populating)
      /\ (aggressive => releases)
  BY Before1
<1>3. NewDone(ph, r, h, n)
  BY <1>2, AskedLengths, NewOK
<1>4. HeapOK(r[1], r[2], {}, DEFAULT_HEAP_TYPE, 0)
  BY <1>3, AnyHeap DEF NewDone
<1> DEFINE c == [p \in Pages |-> IF p = r[3] THEN 0 ELSE cached[p]]
<1>5. c \in [Pages -> Marks] /\ (r[3] \in Pages => c[r[3]] = 0) /\ \A p \in Pages : c[p] \in {0, cached[p]}
  BY <1>2 DEF Marks
<1> HIDE DEF c
<1>6. OthersKept(ph.span, r[1].span, cached, c, r[3])
  BY <1>3, <1>5 DEF NewDone, Taken, UseKept, OthersKept, Pages
<1>7. r[3] \in Pages => populating[r[3]] = "NONE"
  BY <1>2, <1>3 DEF NewDone, Taken, Pending, Pages
<1>8. CachedFresh(r[1].span, c, populating) /\ Pending(r[1].span, populating)
  BY <1>2, <1>6, <1>7, KeptFresh
<1>9. After(r[1], r[2], c, populating)
  BY <1>2, <1>4, <1>5, <1>8 DEF After
<1> QED
  BY <1>1, <1>9, UnlockStep DEF c

\* FreeSpan() keeps the invariant.
LEMMA FreeStep ==
    ASSUME IInv, NEW h \in Types, NEW i \in Pages, FreeSpan(h, i)
    PROVE  IInv'
<1>1. PICK due \in BOOLEAN : Unlock(Delete(ph, h, i, due), mapping, cached)
  BY DEF FreeSpan
<1>2. /\ HeapOK(ph, mapping, {}, h, 0) /\ cached \in [Pages -> Marks]
      /\ populating \in [Pages -> Types \cup {"NONE"}]
      /\ CachedFresh(ph.span, cached, populating) /\ Pending(ph.span, populating)
      /\ (aggressive => releases)
  BY Before1
<1>3. /\ ph.span[i].location = "IN_USE" /\ (strict => h = ph.span[i].from)
      /\ populating[i] = "NONE" /\ UNCHANGED <<populating, aggressive, releases, strict>>
  BY DEF FreeSpan, InUse
<1>4. strict => ph.span[i].heaptype = h /\ \A p \in i .. End(ph.span, i) : mapping[p] = h
  <2>1. i \in LiveIn(ph.span)
    BY <1>3 DEF LiveIn
  <2>2. strict => SpanApart(ph.span, mapping, i)
    BY <1>2, <2>1 DEF HeapOK, Apart
  <2> QED
    BY <1>3, <2>2 DEF SpanApart
<1> DEFINE t == Delete(ph, h, i, due)
<1>5. HeapOK(t, mapping, {}, h, 0) /\ Freed(ph.span, t.span, i)
  <2>1. HeapOK(ph, mapping, {i}, h, 0)
    BY <1>2, <1>3, ExemptInUse
  <2> QED
    BY <1>2, <1>3, <1>4, <2>1, DeleteOK
<1> HIDE DEF t
<1>6. OthersKept(ph.span, t.span, cached, cached, i)
  BY <1>2, <1>5 DEF Freed, OthersKept
<1>7. CachedFresh(t.span, cached, populating) /\ Pending(t.span, populating)
  BY <1>2, <1>3, <1>6, KeptFresh
<1>8. HeapOK(t, mapping, {}, DEFAULT_HEAP_TYPE, 0)
  BY <1>5, AnyHeap
<1>9. After(t, mapping, cached, populating)
  BY <1>2, <1>7, <1>8 DEF After
<1> QED
  BY <1>1, <1>3, <1>9, UnlockStep DEF t

\* ReleaseToSystem() keeps the invariant.
LEMMA ReleaseStep ==
    ASSUME IInv, NEW n \in Asked, ReleaseToSystem(n)
    PROVE  IInv'
<1> DEFINE h == DEFAULT_HEAP_TYPE
           t == ReleaseAtLeastNPages(ph, h, n).s
<1>0. h \in Types
  BY DEF DEFAULT_HEAP_TYPE, Types
<1> HIDE DEF h
<1>1. /\ HeapOK(ph, mapping, {}, h, 0) /\ cached \in [Pages -> Marks]
      /\ populating \in [Pages -> Types \cup {"NONE"}]
      /\ CachedFresh(ph.span, cached, populating) /\ Pending(ph.span, populating)
      /\ (aggressive => releases)
  BY Before1
<1>2. HeapOK(t, mapping, {}, h, 0) /\ UseKept(ph.span, t.span)
  BY <1>0, <1>1, ReleaseOK
<1>3. Unlock(t, mapping, cached) /\ UNCHANGED <<populating, aggressive, releases, strict>>
  BY DEF ReleaseToSystem, h
<1> HIDE DEF t
<1>4. OthersKept(ph.span, t.span, cached, cached, 0)
  BY <1>1, <1>2 DEF UseKept, OthersKept, Pages
<1>5. CachedFresh(t.span, cached, populating) /\ Pending(t.span, populating)
  BY <1>1, <1>4, KeptFresh DEF Pages
<1>6. After(t, mapping, cached, populating)
  BY <1>1, <1>2, <1>5 DEF After, h
<1> QED
  BY <1>3, <1>6, UnlockStep

\* A request that finds no pages keeps what there is.
LEMMA FailedNew ==
    ASSUME IInv, NEW h, NEW n, NEW r, NewDone(ph, r, h, n), r[3] = 0
    PROVE  After(r[1], r[2], cached, populating)
<1>1. /\ HeapOK(ph, mapping, {}, h, 0) /\ cached \in [Pages -> Marks]
      /\ populating \in [Pages -> Types \cup {"NONE"}]
      /\ CachedFresh(ph.span, cached, populating) /\ Pending(ph.span, populating)
  BY Before1
<1>2. HeapOK(r[1], r[2], {}, h, 0) /\ UseKept(ph.span, r[1].span)
  BY DEF NewDone
<1>3. HeapOK(r[1], r[2], {}, DEFAULT_HEAP_TYPE, 0)
  BY <1>2, AnyHeap
<1>4. OthersKept(ph.span, r[1].span, cached, cached, 0)
  BY <1>1, <1>2 DEF UseKept, OthersKept, Pages
<1>5. CachedFresh(r[1].span, cached, populating) /\ Pending(r[1].span, populating)
  BY <1>1, <1>4, KeptFresh DEF Pages
<1> QED
  BY <1>1, <1>3, <1>5 DEF After

\* The locked part of Populate() keeps the invariant.
LEMMA PopulateStep ==
    ASSUME IInv, NEW h \in Types, NEW cl \in Classes, class_to_pages[cl] \in Asked, Populate(h, cl)
    PROVE  IInv'
<1> DEFINE n == class_to_pages[cl]
<1>0. n \in Int /\ 1 <= n /\ cl # 0
  BY AskedLengths, PageHeapAssumption
<1>1. PICK r \in New(ph, mapping, h, n) :
         IF r[3] = 0 THEN Unlock(r[1], r[2], cached) /\ UNCHANGED populating
         ELSE /\ Unlock(Fill(r[1], cl, r[3]), r[2], cached)
              /\ populating' = IF r[1].loop = "ENDS"
                               THEN [populating EXCEPT ![r[3]] = h] ELSE populating
  BY Zenon DEF Populate, Fill
<1>a. UNCHANGED <<aggressive, releases, strict>>
  BY DEF Populate
<1> HIDE DEF n
<1>2. /\ HeapOK(ph, mapping, {}, h, 0) /\ cached \in [Pages -> Marks]
      /\ populating \in [Pages -> Types \cup {"NONE"}]
      /\ CachedFresh(ph.span, cached, populating) /\ Pending(ph.span, populating)
      /\ (aggressive => releases)
  BY Before1
<1>3. NewDone(ph, r, h, n)
  BY <1>0, <1>2, NewOK
<1>4. CASE r[3] = 0
  <2>1. After(r[1], r[2], cached, populating)
    BY <1>3, <1>4, FailedNew
  <2>2. Unlock(r[1], r[2], cached) /\ UNCHANGED populating
    BY <1>1, <1>4
  <2> QED
    BY <1>a, <2>1, <2>2, UnlockStep
<1>5. CASE r[3] # 0
  <2> DEFINE s == r[1]
             i == r[3]
             t == Fill(s, cl, i)
             pop == [populating EXCEPT ![i] = h]
  <2>1. /\ HeapOK(s, r[2], {}, h, 0) /\ i \in Pages /\ Taken(ph.span, s.span, i)
        /\ (strict => s.span[i].heaptype = h)
    BY <1>3, <1>5 DEF NewDone
  <2>2. s.span[i].location = "IN_USE"
    BY <2>1 DEF Taken
  <2>3. FillDone(s, t, r[2], h, cl, i)
    BY <2>1, <2>2, FillOK
  <2>4. /\ Unlock(t, r[2], cached)
        /\ populating' = IF s.loop = "ENDS" THEN pop ELSE populating
    BY <1>1, <1>5
  <2> HIDE DEF t
  <2>5. /\ HeapOK(t, r[2], {}, h, 0) /\ t.loop = s.loop
        /\ t.span[i].location = "IN_USE" /\ t.span[i].sizeclass = cl
        /\ t.span[i].heaptype = s.span[i].heaptype
        /\ \A l \in Pages \ {i} : t.span[l] = s.span[l]
    BY <2>3 DEF FillDone
  <2>6. CASE s.loop # "ENDS"
    <3>1. ph' = [ph EXCEPT !.loop = "SPINS"] /\ UNCHANGED <<mapping, cached, populating>>
      BY <2>4, <2>5, <2>6 DEF Unlock
    <3>2. s \in Heap
      BY <2>1 DEF HeapOK
    <3> QED
      BY <1>a, <2>6, <3>1, <3>2, StuckStep
  <2>7. CASE s.loop = "ENDS"
    <3>1. ph' = t /\ mapping' = r[2] /\ cached' = cached /\ populating' = pop
      BY <2>4, <2>5, <2>7 DEF Unlock
    <3>2. pop \in [Pages -> Types \cup {"NONE"}] /\ pop[i] = h /\ h # "NONE"
          /\ \A l \in Pages \ {i} : pop[l] = populating[l]
      BY <1>2, <2>1 DEF Types
    <3> HIDE DEF pop
    <3>3. \A l \in Pages \ {i} : ph.span[l].location = "IN_USE" \/ t.span[l].location = "IN_USE"
                                  => t.span[l] = ph.span[l]
      BY <2>1, <2>5 DEF Taken
    <3>4. CachedFresh(t.span, cached, pop)
      <4> SUFFICES ASSUME NEW l \in Pages, t.span[l].location = "IN_USE", pop[l] = "NONE"
                   PROVE  FreshAt(t.span, cached, l)
        BY DEF CachedFresh
      <4>1. l # i /\ populating[l] = "NONE" /\ t.span[l] = ph.span[l]
        BY <3>2, <3>3
      <4>2. FreshAt(ph.span, cached, l)
        BY <1>2, <4>1 DEF CachedFresh
      <4> QED
        BY <4>1, <4>2 DEF FreshAt, End
    <3>5. Pending(t.span, pop)
      <4> SUFFICES ASSUME NEW l \in Pages, pop[l] # "NONE"
                   PROVE  /\ t.span[l].location = "IN_USE" /\ t.span[l].sizeclass # 0
                          /\ strict => pop[l] = t.span[l].heaptype
        BY DEF Pending
      <4>1. CASE l = i
        BY <1>0, <2>1, <2>5, <3>2, <4>1
      <4>2. CASE l # i
        BY <1>2, <3>2, <3>3, <4>2 DEF Pending
      <4> QED
        BY <4>1, <4>2
    <3>6. HeapOK(t, r[2], {}, DEFAULT_HEAP_TYPE, 0)
      BY <2>5, AnyHeap
    <3>7. After(t, r[2], cached, pop)
      BY <1>2, <3>2, <3>4, <3>5, <3>6 DEF After
    <3>8. After(ph', mapping', cached', populating')
      BY <3>1, <3>7
    <3> QED
      BY <1>2, <1>a, <3>8, AfterStep
  <2> QED
    BY <2>6, <2>7
<1> QED
  BY <1>4, <1>5

\* The rest of Populate() keeps the invariant.
LEMMA PopulatedStep ==
    ASSUME IInv, NEW i \in Pages, Populated(i)
    PROVE  IInv'
<1> DEFINE g == populating[i]
           h == DEFAULT_HEAP_TYPE
           sp == ph.span
           r == [sp[i] EXCEPT !.heaptype = g]
           t == [ph EXCEPT !.span[i].heaptype = g]
           u == [sp EXCEPT ![i] = r]
           c == [p \in Pages |-> IF p \in PagesOf(sp[i]) THEN sp[i].sizeclass ELSE cached[p]]
           pop == [populating EXCEPT ![i] = "NONE"]
<1>1. /\ g # "NONE" /\ ph' = t /\ cached' = c /\ populating' = pop
      /\ UNCHANGED <<mapping, aggressive, releases, strict>>
  BY DEF Populated
<1>2. /\ HeapOK(ph, mapping, {}, h, 0) /\ cached \in [Pages -> Marks]
      /\ populating \in [Pages -> Types \cup {"NONE"}]
      /\ CachedFresh(sp, cached, populating) /\ Pending(sp, populating)
      /\ (aggressive => releases)
  <2> HIDE DEF h
  <2> QED
    BY Before1
<1>3. /\ sp[i].location = "IN_USE" /\ sp[i].sizeclass # 0 /\ (strict => g = sp[i].heaptype)
      /\ g \in Types
  BY <1>1, <1>2 DEF Pending
<1>4. ph \in Heap /\ Tiling(sp, ph.pagemap, mapping) /\ i \in LiveIn(sp)
  BY <1>2, <1>3 DEF HeapOK, LiveIn
<1>5. sp[i] \in SpanRecord /\ sp \in [Pages -> SpanRecord] /\ sp[i].start = i
  BY <1>4, TilingBounds, HeapFields
<1> HIDE DEF g, h
<1>6. /\ r \in SpanRecord /\ r.location = "IN_USE" /\ r.start = sp[i].start
      /\ r.length = sp[i].length /\ r.sizeclass = sp[i].sizeclass /\ r.heaptype = g
      /\ r.from = sp[i].from
  BY <1>3, <1>5 DEF SpanRecord
<1>7. t = [ph EXCEPT !.span = u]
  BY <1>4, <1>5 DEF Heap
<1> HIDE DEF r, t
<1>8. Tiling(u, ph.pagemap, mapping)
  <2>1. r.location # "NONE" /\ (r.sizeclass # 0 => r.location = "IN_USE" /\ sp[i].sizeclass # 0)
    BY <1>3, <1>6
  <2> QED
    BY <1>4, <1>6, <2>1, TilingRelabel
<1> HIDE DEF u
<1>9. t.span = u /\ t.pagemap = ph.pagemap /\ t.stats = ph.stats
  BY <1>4, <1>7 DEF Heap
<1>10. t \in Heap
  <2>1. u \in [Pages -> SpanRecord]
    BY <1>8 DEF Tiling
  <2> QED
    BY <1>4, <1>7, <2>1 DEF Heap
<1>11. UseMarked(ph, t, i, r)
  BY <1>3, <1>6, <1>9, <1>10 DEF UseMarked, u
<1>12. Tiling(t.span, t.pagemap, mapping)
  BY <1>8, <1>9
<1>13. /\ HeapOK(t, mapping, {}, h, 0) /\ t.span[i] = r
       /\ \A l \in Pages \ {i} : t.span[l] = sp[l]
  BY <1>2, <1>3, <1>11, <1>12, UseMarkedOK
<1>14. PagesOf(sp[i]) = i .. End(sp, i)
  BY <1>5 DEF PagesOf, Last, End
<1>15. /\ c \in [Pages -> Marks]
       /\ \A p \in Pages : p \in i .. End(sp, i) => c[p] = sp[i].sizeclass
       /\ \A p \in Pages : p \notin i .. End(sp, i) => c[p] = cached[p]
  <2>1. sp[i].sizeclass \in Marks
    BY <1>5 DEF SpanRecord
  <2> QED
    BY <1>2, <1>14, <2>1
<1>16. /\ pop \in [Pages -> Types \cup {"NONE"}] /\ pop[i] = "NONE"
       /\ \A l \in Pages \ {i} : pop[l] = populating[l]
  BY <1>2
<1> HIDE DEF c, pop
<1>17. CachedFresh(t.span, c, pop)
  <2> SUFFICES ASSUME NEW l \in Pages, t.span[l].location = "IN_USE", pop[l] = "NONE",
                      NEW p \in Pages,
                      p = l \/ (t.span[l].sizeclass # 0 /\ p \in l .. End(t.span, l))
               PROVE  c[p] \in {0, t.span[l].sizeclass}
    BY DEF CachedFresh, FreshAt
  <2>0. i \in Int /\ i <= End(sp, i) /\ End(sp, i) \in Int
    BY <1>4, TilingBounds
  <2>1. CASE l = i
    <3>1. End(t.span, i) = End(sp, i) /\ t.span[i].sizeclass = sp[i].sizeclass
      BY <1>6, <1>13 DEF End
    <3>2. p \in i .. End(sp, i)
      BY <2>0, <2>1, <3>1
    <3> QED
      BY <1>15, <2>1, <3>1, <3>2
  <2>2. CASE l # i
    <3>1. t.span[l] = sp[l] /\ End(t.span, l) = End(sp, l) /\ l \in LiveIn(sp)
      BY <1>13, <2>2 DEF End, LiveIn
    <3>2. FreshAt(sp, cached, l)
      BY <1>2, <1>16, <2>2, <3>1 DEF CachedFresh
    <3>3. l \in Int /\ End(sp, l) \in Int /\ l <= End(sp, l)
      BY <1>4, <3>1, TilingBounds
    <3>4. (l < i => End(sp, l) < i) /\ (i < l => End(sp, i) < l)
      BY <1>4, <3>1 DEF Tiling, Disjoint
    <3>5. p \notin i .. End(sp, i)
      BY <2>0, <2>2, <3>1, <3>3, <3>4
    <3> QED
      BY <1>15, <3>1, <3>2, <3>5 DEF FreshAt
  <2> QED
    BY <2>1, <2>2
<1>18. Pending(t.span, pop)
  BY <1>2, <1>13, <1>16 DEF Pending
<1>19. After(t, mapping, c, pop)
  BY <1>13, <1>15, <1>16, <1>17, <1>18 DEF After, h
<1>20. After(ph', mapping', cached', populating')
  BY <1>1, <1>19
<1> QED
  BY <1>1, <1>2, <1>20, AfterStep

\* A part of a span that has come into use has come into use.
LEMMA HalfTaken ==
    ASSUME NEW sp, NEW s, NEW t, NEW m, NEW h, NEW i \in Pages, NEW n, NEW k, NEW o,
           (k = i /\ o = i + n) \/ (k = i + n /\ o = i),
           Taken(sp, s.span, i), HalfFreed(s, t, m, h, i, n, k, o)
    PROVE  Taken(sp, t.span, o)
<1>1. /\ sp[i].location # "IN_USE" /\ s.span[i].location = "IN_USE"
      /\ \A l \in Pages \ {i} : sp[l].location = "IN_USE" \/ s.span[l].location = "IN_USE"
                                  => s.span[l] = sp[l]
  BY DEF Taken
<1>2. /\ o \in Pages /\ k \in Pages /\ k # o /\ s.span[i + n].location = "NONE"
      /\ t.span[k].location # "IN_USE" /\ t.span[o].location = "IN_USE" /\ t.span[o].sizeclass = 0
      /\ \A l \in Pages \ {i, i + n} :
            s.span[l].location = "IN_USE" \/ t.span[l].location = "IN_USE" => t.span[l] = s.span[l]
  BY DEF HalfFreed
<1>3. sp[i + n].location # "IN_USE" /\ {i, i + n} = {k, o}
  BY <1>1, <1>2
<1>4. ASSUME NEW l \in Pages \ {o}, sp[l].location = "IN_USE" \/ t.span[l].location = "IN_USE"
      PROVE  t.span[l] = sp[l]
  <2>1. l # k
    BY <1>1, <1>2, <1>3, <1>4
  <2>2. l \in Pages \ {i, i + n}
    BY <1>3, <1>4, <2>1
  <2> QED
    BY <1>1, <1>2, <1>4, <2>2
<1> QED
  BY <1>1, <1>2, <1>3, <1>4 DEF Taken

\* One of two pages has an even number.
LEMMA EvenPage ==
    ASSUME NEW x \in Int
    PROVE  (CHOOSE p \in x .. x + 2 - 1 : p % 2 = 0) \in {x, x + 1}
<1>1. x % 2 = 0 \/ (x + 1) % 2 = 0
  OBVIOUS
<1>2. \E p \in x .. x + 2 - 1 : p % 2 = 0
  <2>1. x \in x .. x + 2 - 1 /\ x + 1 \in x .. x + 2 - 1
    OBVIOUS
  <2> QED
    BY <1>1, <2>1
<1>3. (CHOOSE p \in x .. x + 2 - 1 : p % 2 = 0) \in x .. x + 2 - 1
  BY <1>2
<1> QED
  BY <1>3

\* The span s has at i has come into use since sp, and has len pages.
Held(sp, s, m, h, i, len) ==
    /\ HeapOK(s, m, {}, h, 0) /\ i \in Pages /\ Taken(sp, s.span, i)
    /\ s.span[i].length = len /\ (strict => s.span[i].heaptype = h)

\* Cutting such a span and freeing one part leaves such a span.
LEMMA HeldHalf ==
    ASSUME NEW sp, NEW s, NEW m, NEW h \in Types, NEW i, NEW len \in Int,
           Held(sp, s, m, h, i, len), NEW n \in Int, 1 <= n, n < len, aggressive => releases,
           NEW k, NEW o, (k = i /\ o = i + n) \/ (k = i + n /\ o = i), NEW due
    PROVE  Held(sp, Delete(Split(s, h, i, n), h, k, due), m, h, o, IF o = i THEN n ELSE len - n)
<1> DEFINE t == Delete(Split(s, h, i, n), h, k, due)
<1>1. /\ HeapOK(s, m, {}, h, 0) /\ i \in Pages /\ Taken(sp, s.span, i)
      /\ s.span[i].length = len /\ (strict => s.span[i].heaptype = h)
  BY DEF Held
<1>2. s.span[i].location = "IN_USE" /\ s.span[i].sizeclass = 0
  BY <1>1 DEF Taken
<1>3. HalfFreed(s, t, m, h, i, n, k, o)
  <2>1. n < s.span[i].length
    BY <1>1
  <2> QED
    BY <1>1, <1>2, <2>1, HalfOK
<1> HIDE DEF t
<1>4. Taken(sp, t.span, o)
  BY <1>1, <1>3, HalfTaken
<1>5. Held(sp, t, m, h, o, IF o = i THEN n ELSE len - n)
  BY <1>1, <1>3, <1>4 DEF Held, HalfFreed
<1> QED
  BY <1>5 DEF t

\* do_memalign() keeps the invariant.
LEMMA MemalignStep ==
    ASSUME IInv, NEW h \in Types, NEW n \in Asked, do_memalign(h, n, 2)
    PROVE  IInv'
<1>1. PICK r \in New(ph, mapping, h, n + 2), due1 \in BOOLEAN, due2 \in BOOLEAN :
         CutAligned(r, h, n, 2, due1, due2)
  BY Zenon DEF do_memalign
<1>a. UNCHANGED <<populating, aggressive, releases, strict>>
  BY DEF do_memalign
<1>2. /\ HeapOK(ph, mapping, {}, h, 0) /\ cached \in [Pages -> Marks]
      /\ populating \in [Pages -> Types \cup {"NONE"}]
      /\ CachedFresh(ph.span, cached, populating) /\ Pending(ph.span, populating)
      /\ (aggressive => releases)
  BY Before1
<1>3. n \in Int /\ 1 <= n /\ n + 2 \in Int /\ 1 <= n + 2
  BY AskedLengths
<1>4. NewDone(ph, r, h, n + 2)
  <2> DEFINE nn == n + 2
  <2>1. nn \in Int /\ 1 <= nn
    BY <1>3
  <2> HIDE DEF nn
  <2>2. r \in New(ph, mapping, h, nn)
    BY DEF nn
  <2>3. NewDone(ph, r, h, nn)
    BY <1>2, <2>1, <2>2, NewOK
  <2> QED
    BY <2>3 DEF nn
<1>b. CASE r[3] = 0
  <2>1. After(r[1], r[2], cached, populating)
    BY <1>4, <1>b, FailedNew
  <2>2. Unlock(r[1], r[2], cached)
    BY <1>1, <1>b DEF CutAligned
  <2> QED
    BY <1>a, <2>1, <2>2, UnlockStep
<1>c. SUFFICES ASSUME r[3] # 0 PROVE IInv'
  BY <1>b
<1>d. LET i == CHOOSE p \in r[3] .. r[3] + 2 - 1 : p % 2 = 0
          s1 == IF i = r[3] THEN r[1]
                ELSE Delete(Split(r[1], h, r[3], i - r[3]), h, r[3], due1)
          s2 == IF s1.span[i].length > n
                THEN Delete(Split(s1, h, i, n), h, i + n, due2) ELSE s1
      IN  Unlock(s2, r[2], [cached EXCEPT ![i] = 0])
  BY <1>1, <1>c, Zenon DEF CutAligned
<1> DEFINE j == r[3]
           i == CHOOSE p \in r[3] .. r[3] + 2 - 1 : p % 2 = 0
           s1 == IF i = j THEN r[1] ELSE Delete(Split(r[1], h, j, i - j), h, j, due1)
           t == IF s1.span[i].length > n THEN Delete(Split(s1, h, i, n), h, i + n, due2) ELSE s1
           c == [cached EXCEPT ![i] = 0]
<1>5. Held(ph.span, r[1], r[2], h, j, n + 2)
  BY <1>c, <1>4 DEF NewDone, Held
<1>6. Unlock(t, r[2], c)
  BY <1>d
<1>7. j \in Int /\ j \in Pages
  BY <1>5, PageHeapAssumption DEF Held, Pages
<1> HIDE DEF j
<1>8. i \in {j, j + 1}
  BY <1>7, EvenPage DEF j
<1> HIDE DEF i
<1>9. PICK len \in Int : n < len /\ Held(ph.span, s1, r[2], h, i, len)
  <2>1. CASE i = j
    BY <1>3, <1>5, <2>1
  <2>2. CASE i # j
    <3>1. i = j + 1 /\ i - j = 1
      BY <1>7, <1>8, <2>2
    <3>2. s1 = Delete(Split(r[1], h, j, 1), h, j, due1)
      BY <2>2, <3>1
    <3> HIDE DEF s1
    <3> DEFINE len == n + 2
    <3>3. Held(ph.span, r[1], r[2], h, j, len) /\ len \in Int /\ 1 < len
      BY <1>3, <1>5
    <3> HIDE DEF len
    <3>4. Held(ph.span, Delete(Split(r[1], h, j, 1), h, j, due1), r[2], h, i,
               IF i = j THEN 1 ELSE len - 1)
      <4> DEFINE one == 1
                 k == j
      <4>1. /\ one \in Int /\ 1 <= one /\ one < len
            /\ (k = j /\ i = j + one) \/ (k = j + one /\ i = j)
        BY <3>1, <3>3
      <4> HIDE DEF one, k
      <4>2. Held(ph.span, Delete(Split(r[1], h, j, one), h, k, due1), r[2], h, i,
                 IF i = j THEN one ELSE len - one)
        BY <1>2, <3>3, <4>1, HeldHalf
      <4> QED
        BY <4>2 DEF one, k
    <3>5. Held(ph.span, s1, r[2], h, i, len - 1)
      BY <2>2, <3>2, <3>4
    <3>6. len - 1 \in Int /\ n < len - 1
      BY <1>3 DEF len
    <3> QED
      BY <3>5, <3>6
  <2> QED
    BY <2>1, <2>2
<1> HIDE DEF s1
<1>10. Held(ph.span, t, r[2], h, i, n)
  <2>1. s1.span[i].length = len
    BY <1>9 DEF Held
  <2>2. t = Delete(Split(s1, h, i, n), h, i + n, due2)
    BY <1>3, <1>9, <2>1
  <2> HIDE DEF t
  <2>3. Held(ph.span, Delete(Split(s1, h, i, n), h, i + n, due2), r[2], h, i,
             IF i = i THEN n ELSE len - n)
    BY <1>2, <1>3, <1>9, HeldHalf
  <2> QED
    BY <2>2, <2>3
<1> HIDE DEF t
<1>11. HeapOK(t, r[2], {}, DEFAULT_HEAP_TYPE, 0) /\ i \in Pages /\ Taken(ph.span, t.span, i)
  BY <1>10, AnyHeap DEF Held
<1>12. c \in [Pages -> Marks] /\ c[i] = 0 /\ \A p \in Pages : c[p] \in {0, cached[p]}
  BY <1>2, <1>11 DEF Marks
<1> HIDE DEF c
<1>13. OthersKept(ph.span, t.span, cached, c, i)
  BY <1>11, <1>12 DEF Taken, OthersKept
<1>14. populating[i] = "NONE"
  BY <1>2, <1>11 DEF Taken, Pending
<1>15. CachedFresh(t.span, c, populating) /\ Pending(t.span, populating)
  BY <1>2, <1>13, <1>14, KeptFresh
<1>16. After(t, r[2], c, populating)
  BY <1>2, <1>11, <1>12, <1>15 DEF After
<1> QED
  BY <1>6, <1>16, <1>a, UnlockStep

\* The heaps are empty at first.
LEMMA InitInv ==
    Init => IInv
<1> SUFFICES ASSUME Init PROVE IInv
  OBVIOUS
<1> DEFINE sp == ph.span
           h == DEFAULT_HEAP_TYPE
<1>1. NPages \in Nat /\ 0 \in 0 .. NPages
  BY PageHeapAssumption
<1>2. /\ ph.span = [i \in Pages |-> NoSpan] /\ ph.pagemap = [p \in 0 .. NPages + 1 |-> 0]
      /\ ph.stats = [g \in Types |-> [system |-> 0, free |-> 0, unmapped |-> 0, committed |-> 0]]
      /\ mapping = [p \in Pages |-> "NONE"] /\ cached = [p \in Pages |-> 0]
      /\ populating = [i \in Pages |-> "NONE"] /\ (aggressive => releases)
  BY DEF Init
<1>3. NoSpan \in SpanRecord /\ NoSpan.location = "NONE"
  <2>1. "NONE" \in Locations /\ "OPEN" \in Types /\ 0 \in Marks
    BY DEF Locations, Types, Marks
  <2> QED
    BY <1>1, <2>1 DEF SpanRecord, NoSpan
<1>4. ph \in Heap
  <2> DEFINE z == [system |-> 0, free |-> 0, unmapped |-> 0, committed |-> 0]
  <2>1. z \in StatsRecord
    BY DEF StatsRecord
  <2> HIDE DEF z
  <2>2. ph = [span |-> [i \in Pages |-> NoSpan], pagemap |-> [p \in 0 .. NPages + 1 |-> 0],
              stats |-> [g \in Types |-> z], loop |-> "ENDS"]
    BY DEF Init, z
  <2>3. /\ [i \in Pages |-> NoSpan] \in [Pages -> SpanRecord]
        /\ [p \in 0 .. NPages + 1 |-> 0] \in [0 .. NPages + 1 -> 0 .. NPages]
        /\ [g \in Types |-> z] \in [Types -> StatsRecord] /\ "ENDS" \in Loops
    BY <1>1, <1>3, <2>1 DEF Loops
  <2> QED
    BY <2>2, <2>3 DEF Heap
<1>5. LiveIn(sp) = {} /\ Idle(sp) = {}
  BY <1>2, <1>3 DEF LiveIn, Idle
<1>6. Tiling(sp, ph.pagemap, mapping)
  <2>1. sp \in [Pages -> SpanRecord] /\ ph.pagemap \in [0 .. NPages + 1 -> 0 .. NPages]
    BY <1>4, HeapFields
  <2>2. mapping \in [Pages -> Mappings]
    BY <1>2 DEF Mappings
  <2>3. Placed(sp) /\ Disjoint(sp) /\ Covering(sp, mapping)
    BY <1>2, <1>5 DEF Placed, Disjoint, Covering, Types
  <2>4. Led(sp, ph.pagemap, mapping)
    BY <1>2, <1>5 DEF Led
  <2> QED
    BY <2>1, <2>2, <2>3, <2>4 DEF Tiling
<1>7. Apart(sp, mapping, {}) /\ Compact(sp, {}) /\ Drained(sp, {})
  BY <1>5 DEF Apart, Compact, Drained
<1>8. "RESTRICT" \in Types /\ "OPEN" \in Types
  BY DEF Types
<1>9. \A g \in Types : ph.stats[g].system = 0 /\ ph.stats[g].free = 0 /\ ph.stats[g].unmapped = 0
                       /\ ph.stats[g].committed = 0
  BY <1>2
<1>10. Counts(sp, ph.stats, {})
  <2>1. \A g, loc : Cardinality(FreeIn(sp, g, loc, {})) = 0
    <3>1. \A g, loc : FreeIn(sp, g, loc, {}) = {}
      BY <1>5 DEF FreeIn
    <3> QED
      BY <3>1, FS_EmptySet
  <2> QED
    BY <1>8, <1>9, <2>1 DEF Counts, Pages2
<1>11. Balanced(ph.stats, h, 0)
  BY <1>9 DEF Balanced
<1>12. SystemPages(ph.stats, mapping)
  <2>1. {p \in Pages : mapping[p] # "NONE"} = {}
    BY <1>2
  <2> QED
    BY <1>8, <1>9, <2>1, FS_EmptySet DEF SystemPages
<1>13. /\ cached \in [Pages -> Marks] /\ populating \in [Pages -> Types \cup {"NONE"}]
       /\ CachedFresh(ph.span, cached, populating) /\ Pending(ph.span, populating)
  BY <1>2 DEF CachedFresh, FreshAt, Pending, Marks
<1> QED
  BY <1>2, <1>4, <1>6, <1>7, <1>10, <1>11, <1>12, <1>13 DEF IInv, After, HeapOK

\* Every step keeps the invariant.
LEMMA NextInv ==
    IInv /\ [Next]_vars => IInv'
<1> SUFFICES ASSUME IInv, [Next]_vars PROVE IInv'
  OBVIOUS
<1>1. ASSUME NEW h \in Types, NEW n \in Asked, do_malloc_pages(h, n) PROVE IInv'
  BY <1>1, MallocStep
<1>2. ASSUME NEW h \in Types, NEW n \in Asked, do_memalign(h, n, 2) PROVE IInv'
  BY <1>2, MemalignStep
<1>3. ASSUME NEW h \in Types, NEW cl \in Classes, class_to_pages[cl] \in Asked, Populate(h, cl)
      PROVE  IInv'
  BY <1>3, PopulateStep
<1>4. ASSUME NEW h \in Types, NEW i \in Pages, FreeSpan(h, i) PROVE IInv'
  BY <1>4, FreeStep
<1>5. ASSUME NEW n \in Asked, ReleaseToSystem(n) PROVE IInv'
  BY <1>5, ReleaseStep
<1>6. CASE UNCHANGED vars
  <2>1. After(ph, mapping, cached, populating) /\ (aggressive => releases)
    BY DEF IInv
  <2>2. After(ph', mapping', cached', populating') /\ UNCHANGED <<aggressive, releases, strict>>
    BY <1>6, <2>1 DEF vars
  <2> QED
    BY <2>1, <2>2, AfterStep
<1>7. ASSUME NEW i \in Pages, Populated(i) PROVE IInv'
  BY <1>7, PopulatedStep
<1> QED
  BY <1>1, <1>2, <1>3, <1>4, <1>5, <1>6, <1>7 DEF Next, Spin

\* The inductive invariant holds always.
THEOREM PageHeapInvariant ==
    Spec => []IInv
<1>1. Init => IInv
  BY InitInv
<1>2. IInv /\ [Next]_vars => IInv'
  BY NextInv
<1> QED
  BY <1>1, <1>2, PTL DEF Spec

-----------------------------------------------------------------------------
(* What the runs check.                                                    *)

\* The names of the model for what the tiling is about.
LEMMA TilingNames ==
    ASSUME IInv
    PROVE  /\ Live(ph) = LiveIn(ph.span) /\ Live(ph) \ InUse(ph) = Idle(ph.span)
           /\ \A i \in LiveIn(ph.span) :
                 /\ PagesOf(ph.span[i]) = i .. End(ph.span, i) /\ Last(ph.span[i]) = End(ph.span, i)
                 /\ ph.span[i].start = i
<1>1. Tiling(ph.span, ph.pagemap, mapping)
  BY DEF IInv, After, HeapOK
<1>2. \A i \in LiveIn(ph.span) : ph.span[i].start = i
  BY <1>1, TilingBounds
<1>3. Live(ph) = LiveIn(ph.span) /\ Live(ph) \ InUse(ph) = Idle(ph.span)
  BY DEF Live, LiveIn, InUse, Idle
<1> QED
  BY <1>2, <1>3 DEF PagesOf, Last, End

\* Each page the system has given belongs to exactly one span, unless the page
\* map had no memory for its entry, and no other page to any; and the page map
\* leads to the spans, after any sequence of New(), Delete(),
\* Split(), merging and releasing in the two heaps.
THEOREM SpansTileTheorem ==
    Spec => []SpansTile
<1>1. IInv => SpansTile
  <2> SUFFICES ASSUME IInv PROVE SpansTile
    OBVIOUS
  <2> DEFINE sp == ph.span
             own(p) == {i \in Live(ph) : p \in PagesOf(sp[i])}
  <2>1. Tiling(sp, ph.pagemap, mapping)
    BY DEF IInv, After, HeapOK
  <2>2. /\ Placed(sp) /\ Disjoint(sp) /\ Covering(sp, mapping) /\ Led(sp, ph.pagemap, mapping)
    BY <2>1 DEF Tiling
  <2>3. /\ Live(ph) = LiveIn(sp)
        /\ \A i \in LiveIn(sp) : /\ PagesOf(sp[i]) = i .. End(sp, i) /\ Last(sp[i]) = End(sp, i)
                                 /\ sp[i].start = i
    BY TilingNames
  <2>4. \A i \in LiveIn(sp) : i \in Int /\ End(sp, i) \in Int /\ i <= End(sp, i)
    BY <2>1, TilingBounds
  <2>5. \A p \in Pages : p \in Int
    BY PageHeapAssumption DEF Pages
  <2>6. ASSUME NEW p \in Pages PROVE Cardinality(own(p)) = IF p \in Mapped THEN 1 ELSE 0
    <3>1. CASE p \in Mapped
      <4>1. PICK i \in LiveIn(sp) : i <= p /\ p <= End(sp, i)
        BY <2>2, <3>1 DEF Covering, Mapped
      <4>2. own(p) = {i}
        <5>1. i \in own(p)
          BY <2>3, <2>4, <2>5, <4>1
        <5>2. ASSUME NEW j \in own(p) PROVE j = i
          <6>1. j \in LiveIn(sp) /\ j <= p /\ p <= End(sp, j)
            BY <2>3, <2>4, <2>5, <5>2
          <6>2. (j < i => End(sp, j) < i) /\ (i < j => End(sp, i) < j)
            BY <2>2, <6>1 DEF Disjoint
          <6> QED
            BY <2>4, <2>5, <4>1, <6>1, <6>2
        <5> HIDE DEF own
        <5> QED
          BY <5>1, <5>2
      <4> HIDE DEF own
      <4>3. Cardinality({i}) = 1
        BY FS_Singleton
      <4> QED
        BY <3>1, <4>2, <4>3
    <3>2. CASE p \notin Mapped
      <4>1. ASSUME NEW j \in own(p) PROVE FALSE
        <5>1. j \in LiveIn(sp) /\ j <= p /\ p <= End(sp, j)
          BY <2>3, <2>4, <2>5, <4>1
        <5> QED
          BY <2>2, <3>2, <5>1 DEF Covering, Mapped
      <4> HIDE DEF own
      <4>2. own(p) = {}
        BY <4>1
      <4> QED
        BY <3>2, <4>2, FS_EmptySet
    <3> QED
      BY <3>1, <3>2
  <2>7. ASSUME NEW i \in Live(ph),
               NEW p \in IF sp[i].sizeclass # 0 THEN PagesOf(sp[i]) ELSE {sp[i].start, Last(sp[i])}
        PROVE  ph.pagemap[p] = i
    <3>1. i \in LiveIn(sp) /\ PagesOf(sp[i]) = i .. End(sp, i) /\ Last(sp[i]) = End(sp, i)
          /\ sp[i].start = i
      BY <2>3
    <3>2. /\ ph.pagemap[i] = i /\ ph.pagemap[End(sp, i)] = i
          /\ sp[i].sizeclass # 0 => \A q \in i .. End(sp, i) : ph.pagemap[q] = i
      BY <2>2, <3>1 DEF Led
    <3>3. CASE sp[i].sizeclass # 0
      BY <3>1, <3>2, <3>3
    <3>4. CASE sp[i].sizeclass = 0
      <4>1. p \in {i, End(sp, i)}
        BY <3>1, <3>4
      <4> QED
        BY <3>2, <4>1
    <3> QED
      BY <3>3, <3>4
  <2>8. \A p \in (0 .. NPages + 1) \ Mapped : ph.pagemap[p] = 0
    BY <2>2 DEF Led, Mapped
  <2> QED
    BY <2>6, <2>7, <2>8 DEF SpansTile
<1> QED
  BY <1>1, PageHeapInvariant, PTL

\* "Free spans are maximally coalesced": in a strict program no two free
\* neighbours could be one span after any operation.
THEOREM CoalescedTheorem ==
    Spec => []Coalesced
<1>1. IInv => Coalesced
  <2> SUFFICES ASSUME IInv, strict, NEW i \in Live(ph) \ InUse(ph), NEW j \in Live(ph) \ InUse(ph),
                      Last(ph.span[i]) + 1 = ph.span[j].start
               PROVE  ~MayMergeSpans(ph, i, j)
    BY DEF Coalesced
  <2>1. i \in Idle(ph.span) /\ j \in Idle(ph.span) /\ j = End(ph.span, i) + 1
        /\ j \in LiveIn(ph.span)
    BY TilingNames DEF Idle
  <2>2. ~Mergeable(ph.span[i], ph.span[j])
    BY <2>1 DEF IInv, After, HeapOK, Compact
  <2> QED
    BY <2>1, <2>2, MayMergeIdle
<1> QED
  BY <1>1, PageHeapInvariant, PTL

\* The size class that free() finds in the cache is never one of an earlier
\* span on the page.
THEOREM CachedClassFreshTheorem ==
    Spec => []CachedClassFresh
<1>1. IInv => CachedClassFresh
  <2> SUFFICES ASSUME IInv, NEW i \in InUse(ph), populating[i] = "NONE",
                      NEW p \in IF ph.span[i].sizeclass = 0 THEN {ph.span[i].start}
                                ELSE PagesOf(ph.span[i])
               PROVE  cached[p] \in {0, ph.span[i].sizeclass}
    BY DEF CachedClassFresh
  <2>1. Tiling(ph.span, ph.pagemap, mapping) /\ CachedFresh(ph.span, cached, populating)
    BY DEF IInv, After, HeapOK
  <2>2. i \in LiveIn(ph.span) /\ i \in Pages /\ ph.span[i].location = "IN_USE"
    BY DEF InUse, LiveIn
  <2>3. /\ ph.span[i].start = i /\ 1 <= i /\ i \in Int
        /\ End(ph.span, i) <= NPages /\ End(ph.span, i) \in Int /\ NPages \in Int
    BY <2>1, <2>2, TilingBounds
  <2>4. FreshAt(ph.span, cached, i)
    BY <2>1, <2>2 DEF CachedFresh
  <2>5. CASE ph.span[i].sizeclass = 0
    BY <2>2, <2>3, <2>4, <2>5 DEF FreshAt
  <2>6. CASE ph.span[i].sizeclass # 0
    <3>1. p \in i .. End(ph.span, i)
      BY <2>2, <2>6, TilingNames
    <3>2. p \in Pages
      BY <2>3, <3>1 DEF Pages
    <3> QED
      BY <2>4, <2>6, <3>1, <3>2 DEF FreshAt
  <2> QED
    BY <2>5, <2>6
<1> QED
  BY <1>1, PageHeapInvariant, PTL

\* In a strict program the loop of ReleaseAtLeastNPages() ends, as free_bytes
\* is not 0 only when a normal list has a span.
THEOREM LoopEndsTheorem ==
    Spec => []LoopEnds
<1>1. IInv => LoopEnds
  BY DEF IInv, After, HeapOK, Heap, Loops, LoopEnds
<1> QED
  BY <1>1, PageHeapInvariant, PTL

\* The pages of a list, as the run counts them.
LEMMA FreePagesNames ==
    ASSUME IInv, NEW g \in Types, NEW loc \in {"NORMAL", "RETURNED"}
    PROVE  FreePages(g, loc) = Cardinality(FreeIn(ph.span, g, loc, {}))
<1> DEFINE sp == ph.span
           A == {p \in Pages : \E i \in Listed(ph, g) : sp[i].location = loc /\ p \in PagesOf(sp[i])}
           B == FreeIn(sp, g, loc, {})
<1>1. Listed(ph, g) = {i \in Idle(sp) : sp[i].list = g}
  BY TilingNames DEF Listed
<1>2. \A i \in Idle(sp) : i \in LiveIn(sp) /\ PagesOf(sp[i]) = i .. End(sp, i)
                          /\ i \in Int /\ End(sp, i) \in Int
  BY TilingNames, TilingBounds DEF IInv, After, HeapOK, Idle
<1>3. \A p \in Pages : p \in Int
  BY PageHeapAssumption DEF Pages
<1>4. \A p \in Pages, i \in Idle(sp) : p \in PagesOf(sp[i]) <=> i <= p /\ p <= End(sp, i)
  BY <1>2, <1>3
<1>5. A = B
  BY <1>1, <1>4 DEF FreeIn
<1> QED
  BY <1>5 DEF FreePages

\* The counters agree with each other and with the lists: heap by heap in a
\* strict program, over both heaps whoever frees what where.
THEOREM StatsAgreeTheorem ==
    Spec => []StatsAgree
<1>1. IInv => StatsAgree
  <2> SUFFICES ASSUME IInv PROVE StatsAgree
    OBVIOUS
  <2> DEFINE F(g, loc) == Cardinality(FreeIn(ph.span, g, loc, {}))
  <2>1. /\ Counts(ph.span, ph.stats, {}) /\ Balanced(ph.stats, DEFAULT_HEAP_TYPE, 0)
        /\ SystemPages(ph.stats, mapping) /\ ph \in Heap
    BY DEF IInv, After, HeapOK
  <2>2. \A g \in Types : FreePages(g, "NORMAL") = F(g, "NORMAL")
                         /\ FreePages(g, "RETURNED") = F(g, "RETURNED")
    BY FreePagesNames
  <2>3. "RESTRICT" \in Types /\ "OPEN" \in Types
    BY DEF Types
  <2>4. \A g \in Types : ph.stats[g].unmapped \in Int /\ ph.stats[g].committed \in Int
    BY <2>1, HeapFields DEF StatsRecord
  <2>5. ASSUME NEW g \in Types
        PROVE  /\ ph.stats[g].unmapped + ph.stats[g].committed = ph.stats[g].system
               /\ strict => /\ ph.stats[g].free = FreePages(g, "NORMAL")
                            /\ ph.stats[g].unmapped = FreePages(g, "RETURNED")
    <3>1. ph.stats[g].unmapped + ph.stats[g].committed + 0 = ph.stats[g].system
      BY <2>1 DEF Balanced
    <3>2. ph.stats[g].unmapped + ph.stats[g].committed = ph.stats[g].system
      BY <2>4, <3>1
    <3>3. strict => ph.stats[g].free = F(g, "NORMAL") /\ ph.stats[g].unmapped = F(g, "RETURNED")
      BY <2>1 DEF Counts
    <3> QED
      BY <2>2, <3>2, <3>3
  <2>6. /\ ph.stats["RESTRICT"].free + ph.stats["OPEN"].free
             = FreePages("RESTRICT", "NORMAL") + FreePages("OPEN", "NORMAL")
        /\ ph.stats["RESTRICT"].unmapped + ph.stats["OPEN"].unmapped
             = FreePages("RESTRICT", "RETURNED") + FreePages("OPEN", "RETURNED")
    BY <2>1, <2>2, <2>3 DEF Counts, Pages2
  <2>7. ph.stats["RESTRICT"].system + ph.stats["OPEN"].system = Cardinality(Given)
    BY <2>1 DEF SystemPages, Given
  <2> QED
    BY <2>5, <2>6, <2>7 DEF StatsAgree
<1> QED
  BY <1>1, PageHeapInvariant, PTL
=============================================================================
