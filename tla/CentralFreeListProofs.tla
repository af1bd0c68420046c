----------------------- MODULE CentralFreeListProofs -----------------------
(***************************************************************************)
(* Proofs about CentralFreeList, for any threads, lists, spans and sizes:  *)
(* the slots that MakeCacheSpace() moves between the lists, the objects    *)
(* that are outside their spans, the lists of spans, and, for a program of *)
(* the default heap type, the locks.                                       *)
(***************************************************************************)
EXTENDS CentralFreeList, FiniteSetTheorems, SequenceTheorems, TLAPS

-----------------------------------------------------------------------------
(* Calls.                                                                  *)

\* The chains that fill a slot.
Whole == [1 .. num_objects_to_move -> Spans]

\* A call of RemoveRange() that has the lock or is in Populate().
Removing(c) ==
    c \in [pc : {"fetch", "populate", "link"}, l : Lists, n : {c.n},
           chain : {c.chain}, populated : BOOLEAN, span : {c.span}]

\* A call of InsertRange() that found no slot.  While it looks for one it has
\* the whole chain and has not won a slot yet.
Inserting(c) ==
    /\ c \in [pc : {"evict", "shrink", "invert", "release", "delete", "relock"},
              l : Lists, chain : Whole \cup {<<>>}, rel : {c.rel}, w : Lists,
              force : BOOLEAN, won : BOOLEAN, span : {c.span}]
    /\ c.pc \in {"evict", "shrink"} => ~ c.won
    /\ c.pc \in {"evict", "shrink", "invert"} => c.chain # <<>>

CallOK(c) == c = Idle \/ Removing(c) \/ Inserting(c)

TypeOK ==
    /\ call = [t \in Threads |-> call[t]] /\ \A t \in Threads : CallOK(call[t])
    /\ lock \in [Lists -> Threads \cup {NoThread}]
    /\ cache_size \in [Lists -> Nat]
    /\ tc_slots \in [Lists -> Seq(Whole)]

-----------------------------------------------------------------------------
(* Slots and locks.                                                        *)

Winning(c) == "won" \in DOMAIN c /\ c.won /\ c.chain # <<>>

InitialSize == [l \in Lists |-> CacheSize[l[2]]]

SlotInv ==
    /\ \A l \in Lists : /\ Len(tc_slots[l]) <= cache_size[l]
                        /\ cache_size[l] <= MaxCacheSize[l[2]]
    /\ Total(cache_size) + Cardinality(Winners)
         <= Total(InitialSize)

\* A program that gets memory of the default heap type only.
DefaultOnly == \A l \in Lists : l = Default(l[2])

\* The list whose lock a call holds.
Held(c) ==
    CASE c.pc \in {"fetch", "evict"} -> {c.l}
      [] c.pc = "release" -> {c.w}
      [] OTHER -> {}

LockInv == \A t \in Threads, l \in Lists : lock[l] = t <=> l \in Held(call[t])

-----------------------------------------------------------------------------
(* Totals.                                                                 *)

\* The units of f are pairs.
LEMMA UnitsMember ==
  ASSUME NEW P, NEW f, DOMAIN f = P
  PROVE  \A x : x \in Units(f) <=> \E p \in P : \E j \in 1 .. f[p] : x = <<p, j>>
BY DEF Units

\* There are finitely many of them.
LEMMA UnitsFinite ==
  ASSUME NEW P, IsFiniteSet(P), NEW f \in [P -> Nat]
  PROVE  IsFiniteSet(Units(f)) /\ Total(f) \in Nat
<1> DEFINE h == [p \in P |-> {p} \X (1 .. f[p])]
           F == {{p} \X (1 .. f[p]) : p \in P}
<1>2. h \in Surjection(P, F)
  BY DEF Surjection
<1>3. IsFiniteSet(F)
  BY <1>2, FS_Surjection
<1>4. ASSUME NEW T \in F PROVE IsFiniteSet(T)
  <2>1. PICK p \in P : T = {p} \X (1 .. f[p])
    OBVIOUS
  <2>2. IsFiniteSet({p}) /\ IsFiniteSet(1 .. f[p])
    <3>1. f[p] \in Int /\ 1 \in Int
      OBVIOUS
    <3>2. IsFiniteSet(1 .. f[p])
      BY <3>1, FS_Interval
    <3> QED
      BY <3>2, FS_Singleton
  <2> QED
    BY <2>1, <2>2, FS_Product
<1>5. IsFiniteSet(UNION F)
  <2> HIDE DEF F
  <2> QED
    BY <1>3, <1>4, FS_UNION
<1>6. Units(f) = UNION F
  BY DEF Units
<1>7. IsFiniteSet(Units(f))
  BY <1>5, <1>6
<1> QED
  BY <1>7, FS_CardinalityType DEF Total

\* The total of f without one argument.
Without(f, p) == [q \in DOMAIN f \ {p} |-> f[q]]

\* A total is that of all arguments but one, and the value of that one.
LEMMA TotalSplit ==
  ASSUME NEW P, IsFiniteSet(P), NEW f \in [P -> Nat], NEW p \in P
  PROVE  Total(f) = Total(Without(f, p)) + f[p] /\ Total(Without(f, p)) \in Nat
<1> DEFINE g == Without(f, p)
           U == {p} \X (1 .. f[p])
<1>1. g \in [P \ {p} -> Nat] /\ DOMAIN g = P \ {p} /\ \A q \in P \ {p} : g[q] = f[q]
  BY DEF Without
<1>2. IsFiniteSet(P \ {p})
  BY FS_RemoveElement
<1>3. IsFiniteSet(Units(g)) /\ Total(g) \in Nat
  <2> HIDE DEF g
  <2> QED
    BY <1>1, <1>2, UnitsFinite
<1>4. \A x : x \in Units(f) <=> \E q \in P : \E j \in 1 .. f[q] : x = <<q, j>>
  BY UnitsMember
<1>5. \A x : x \in Units(g) <=> \E q \in P \ {p} : \E j \in 1 .. g[q] : x = <<q, j>>
  <2> HIDE DEF g
  <2> QED
    BY <1>1, UnitsMember
<1>6. \A x : x \in U <=> \E j \in 1 .. f[p] : x = <<p, j>>
  OBVIOUS
<1>7. IsFiniteSet(U) /\ Cardinality(U) = f[p]
  <2>1. f[p] \in Int /\ 1 \in Int /\ f[p] \in Nat
    OBVIOUS
  <2>2. IsFiniteSet(1 .. f[p]) /\ Cardinality(1 .. f[p]) = IF 1 > f[p] THEN 0 ELSE f[p] - 1 + 1
    BY <2>1, FS_Interval
  <2>3. Cardinality(1 .. f[p]) = f[p]
    BY <2>1, <2>2
  <2>4. IsFiniteSet({p}) /\ Cardinality({p}) = 1
    BY FS_Singleton
  <2>5. IsFiniteSet(U) /\ Cardinality(U) = Cardinality({p}) * Cardinality(1 .. f[p])
    BY <2>2, <2>4, FS_Product
  <2> QED
    BY <2>1, <2>3, <2>4, <2>5
<1> HIDE DEF g, U
<1>8. Units(f) = Units(g) \cup U
  <2>1. ASSUME NEW x, x \in Units(f) PROVE x \in Units(g) \/ x \in U
    <3>1. PICK q \in P : \E j \in 1 .. f[q] : x = <<q, j>>
      BY <1>4, <2>1
    <3>2. CASE q = p
      BY <1>6, <3>1, <3>2
    <3>3. CASE q # p
      BY <1>1, <1>5, <3>1, <3>3
    <3> QED
      BY <3>2, <3>3
  <2>2. ASSUME NEW x, x \in Units(g) PROVE x \in Units(f)
    <3>1. PICK q \in P \ {p} : \E j \in 1 .. g[q] : x = <<q, j>>
      BY <1>5, <2>2
    <3> QED
      BY <1>1, <1>4, <3>1
  <2>3. ASSUME NEW x, x \in U PROVE x \in Units(f)
    BY <1>4, <1>6, <2>3
  <2> QED
    BY <2>1, <2>2, <2>3
<1>9. Units(g) \cap U = {}
  <2> SUFFICES ASSUME NEW x, x \in Units(g), x \in U PROVE FALSE
    OBVIOUS
  <2>1. PICK q \in P \ {p} : \E j \in 1 .. g[q] : x = <<q, j>>
    BY <1>5
  <2>2. x[1] = q
    BY <2>1
  <2>3. x[1] = p
    BY <1>6
  <2> QED
    BY <2>2, <2>3
<1>10. Cardinality(Units(f)) = Cardinality(Units(g)) + Cardinality(U) - Cardinality({})
  BY <1>3, <1>7, <1>8, <1>9, FS_Union
<1>11. Cardinality({}) = 0
  BY FS_EmptySet
<1>12. Total(f) = Total(g) + f[p]
  <2>1. Cardinality(Units(g)) \in Nat /\ f[p] \in Nat
    BY <1>3 DEF Total
  <2> QED
    BY <1>7, <1>10, <1>11, <2>1 DEF Total
<1> QED
  BY <1>3, <1>12 DEF g

\* Two functions that differ for one argument only.
OnlyAt(f, g, P, p) == \A q \in P \ {p} : g[q] = f[q]

\* Their totals differ by as much as the values for it.
LEMMA TotalChange ==
  ASSUME NEW P, IsFiniteSet(P), NEW f \in [P -> Nat], NEW g \in [P -> Nat], NEW p \in P,
         OnlyAt(f, g, P, p)
  PROVE  Total(g) + f[p] = Total(f) + g[p]
<1>1. Without(f, p) = Without(g, p)
  BY DEF Without, OnlyAt
<1>2. Total(f) = Total(Without(f, p)) + f[p] /\ Total(Without(f, p)) \in Nat
  BY TotalSplit
<1>3. Total(g) = Total(Without(g, p)) + g[p]
  BY TotalSplit
<1>4. f[p] \in Nat /\ g[p] \in Nat
  OBVIOUS
<1> QED
  BY <1>1, <1>2, <1>3, <1>4

\* A total is zero exactly if every value is.
LEMMA TotalZero ==
  ASSUME NEW P, IsFiniteSet(P), NEW f \in [P -> Nat]
  PROVE  Total(f) = 0 <=> \A p \in P : f[p] = 0
<1>1. \A x : x \in Units(f) <=> \E q \in P : \E j \in 1 .. f[q] : x = <<q, j>>
  BY UnitsMember
<1>2. Total(f) = 0 <=> Units(f) = {}
  BY UnitsFinite, FS_EmptySet DEF Total
<1>3. ASSUME NEW p \in P, f[p] # 0 PROVE Units(f) # {}
  <2>1. 1 \in 1 .. f[p]
    BY <1>3
  <2> QED
    BY <1>1, <2>1
<1>4. ASSUME \A p \in P : f[p] = 0 PROVE Units(f) = {}
  BY <1>1, <1>4
<1> QED
  BY <1>2, <1>3, <1>4

-----------------------------------------------------------------------------
(* Steps in general.                                                       *)

\* The record that a call becomes.
Becomes(t, c) == call' = [call EXCEPT ![t] = c]

\* A step changes the call of its thread.
LEMMA CallUpdate ==
  ASSUME TypeOK, NEW t \in Threads, NEW c, CallOK(c), Becomes(t, c)
  PROVE  /\ call' = [u \in Threads |-> call'[u]] /\ \A u \in Threads : CallOK(call'[u])
         /\ call'[t] = c /\ \A u \in Threads \ {t} : call'[u] = call[u]
<1>1. DOMAIN call = Threads
  BY DEF TypeOK
<1>2. call'[t] = c /\ \A u \in Threads \ {t} : call'[u] = call[u]
  BY <1>1 DEF Becomes
<1>3. call' = [u \in Threads |-> call'[u]]
  BY <1>1 DEF Becomes
<1>4. \A u \in Threads : CallOK(call'[u])
  BY <1>2 DEF TypeOK
<1> QED
  BY <1>2, <1>3, <1>4

\* The calls by where they are.
LEMMA CallKinds ==
  ASSUME NEW c, CallOK(c)
  PROVE  /\ c.pc = "idle" => c = Idle
         /\ c.pc \in {"fetch", "populate", "link"} => Removing(c)
         /\ c.pc \in {"evict", "shrink", "invert", "release", "delete", "relock"}
              => Inserting(c)
<1>1. Idle.pc = "idle"
  BY DEF Idle
<1>2. CASE c = Idle
  BY <1>1, <1>2
<1>3. CASE Removing(c)
  BY <1>3 DEF Removing
<1>4. CASE Inserting(c)
  BY <1>4 DEF Inserting
<1> QED
  BY <1>2, <1>3, <1>4 DEF CallOK

\* Who has won a slot.
LEMMA Winner ==
  ASSUME NEW c, CallOK(c)
  PROVE  /\ Winning(c) <=> Inserting(c) /\ c.won /\ c.chain # <<>>
         /\ Removing(c) \/ c = Idle => ~ Winning(c)
<1>1. CASE c = Idle
  BY <1>1 DEF Idle, Winning, Inserting
<1>2. CASE Removing(c)
  BY <1>2 DEF Removing, Winning, Inserting
<1>3. CASE Inserting(c)
  <2>1. c # Idle
    BY <1>3 DEF Inserting, Idle
  <2>2. ~ Removing(c)
    BY <1>3 DEF Inserting, Removing
  <2>3. "won" \in DOMAIN c
    BY <1>3 DEF Inserting
  <2> QED
    BY <1>3, <2>1, <2>2, <2>3 DEF Winning
<1> QED
  BY <1>1, <1>2, <1>3 DEF CallOK

\* The lock of one list is taken, or given, or none is.
LockShape(t, c) ==
    \/ /\ UNCHANGED lock /\ Held(c) = Held(call[t])
    \/ \E l \in Lists :
          \/ /\ lock[l] = NoThread /\ lock' = [lock EXCEPT ![l] = t]
             /\ Held(call[t]) = {} /\ Held(c) = {l}
          \/ /\ lock' = [lock EXCEPT ![l] = NoThread]
             /\ Held(call[t]) = {l} /\ Held(c) = {}

\* Each lock has the holder it should have after such a step.
LEMMA LockStep ==
  ASSUME TypeOK, LockInv, NEW t \in Threads, NEW c, CallOK(c), Becomes(t, c),
         LockShape(t, c)
  PROVE  LockInv'
<1>0. /\ \A u \in Threads : u # NoThread
      /\ lock \in [Lists -> Threads \cup {NoThread}]
  BY ListsAssumption DEF TypeOK
<1>1. call'[t] = c /\ \A u \in Threads \ {t} : call'[u] = call[u]
  BY CallUpdate
<1>2. ASSUME NEW u \in Threads, NEW k \in Lists PROVE lock'[k] = u <=> k \in Held(call'[u])
  <2>1. lock[k] = u <=> k \in Held(call[u])
    BY DEF LockInv
  <2>2. lock[k] = t <=> k \in Held(call[t])
    BY DEF LockInv
  <2>3. CASE UNCHANGED lock /\ Held(c) = Held(call[t])
    BY <1>1, <2>1, <2>3
  <2>4. ASSUME NEW l \in Lists, lock[l] = NoThread, lock' = [lock EXCEPT ![l] = t],
               Held(call[t]) = {}, Held(c) = {l}
        PROVE  lock'[k] = u <=> k \in Held(call'[u])
    <3>1. CASE k = l
      BY <1>0, <1>1, <2>1, <2>4, <3>1
    <3>2. CASE k # l
      <4>1. lock'[k] = lock[k]
        BY <1>0, <2>4, <3>2
      <4> QED
        BY <1>1, <2>1, <2>4, <3>2, <4>1
    <3> QED
      BY <3>1, <3>2
  <2>5. ASSUME NEW l \in Lists, lock' = [lock EXCEPT ![l] = NoThread],
               Held(call[t]) = {l}, Held(c) = {}
        PROVE  lock'[k] = u <=> k \in Held(call'[u])
    <3>1. CASE k = l
      BY <1>0, <1>1, <2>1, <2>2, <2>5, <3>1
    <3>2. CASE k # l
      <4>1. lock'[k] = lock[k]
        BY <1>0, <2>5, <3>2
      <4> QED
        BY <1>1, <2>1, <2>5, <3>2, <4>1
    <3> QED
      BY <3>1, <3>2
  <2> QED
    BY <2>3, <2>4, <2>5 DEF LockShape
<1>3. \A u \in Threads : Held(call'[u]) = Held(call[u])'
  BY DEF Held
<1> QED
  BY <1>2, <1>3 DEF LockInv

\* One slot more or less for one list is one slot more or less.
LEMMA SlotsCounted ==
  ASSUME NEW size \in [Lists -> Nat], NEW l \in Lists
  PROVE  /\ Total([size EXCEPT ![l] = @ + 1]) = Total(size) + 1
         /\ size[l] > 0 => Total([size EXCEPT ![l] = @ - 1]) = Total(size) - 1
<1>0. IsFiniteSet(Lists) /\ Total(size) \in Nat /\ size[l] \in Nat
  BY ListsAssumption, UnitsFinite
<1>1. Total([size EXCEPT ![l] = @ + 1]) = Total(size) + 1
  <2> DEFINE more == [size EXCEPT ![l] = @ + 1]
  <2>1. more \in [Lists -> Nat] /\ more[l] = size[l] + 1 /\ OnlyAt(size, more, Lists, l)
    BY DEF OnlyAt
  <2> HIDE DEF more
  <2>2. Total(more) \in Nat /\ Total(more) + size[l] = Total(size) + more[l]
    BY <1>0, <2>1, TotalChange, UnitsFinite
  <2>3. Total(more) = Total(size) + 1
    BY <1>0, <2>1, <2>2
  <2> QED
    BY <2>3 DEF more
<1>2. ASSUME size[l] > 0 PROVE Total([size EXCEPT ![l] = @ - 1]) = Total(size) - 1
  <2> DEFINE less == [size EXCEPT ![l] = @ - 1]
  <2>1. less \in [Lists -> Nat] /\ less[l] = size[l] - 1 /\ OnlyAt(size, less, Lists, l)
    BY <1>2 DEF OnlyAt
  <2> HIDE DEF less
  <2>2. Total(less) \in Nat /\ Total(less) + size[l] = Total(size) + less[l]
    BY <1>0, <2>1, TotalChange, UnitsFinite
  <2>3. Total(less) = Total(size) - 1
    BY <1>0, <2>1, <2>2
  <2> QED
    BY <2>3 DEF less
<1> QED
  BY <1>1, <1>2

\* What the counts of SlotInv are.
LEMMA Counts ==
  ASSUME TypeOK
  PROVE  /\ Total(cache_size) \in Nat /\ Total(InitialSize) \in Nat
         /\ IsFiniteSet(Winners) /\ Cardinality(Winners) \in Nat
         /\ Winners = {u \in Threads : Winning(call[u])}
<1>1. InitialSize \in [Lists -> Nat] /\ cache_size \in [Lists -> Nat]
  BY SizesAssumption DEF InitialSize, Classes, TypeOK
<1>2. IsFiniteSet(Winners)
  BY ListsAssumption, FS_Subset DEF Winners
<1>3. Winners = {u \in Threads : Winning(call[u])}
  BY DEF Winners, Winning
<1> QED
  BY <1>1, <1>2, <1>3, ListsAssumption, UnitsFinite, FS_CardinalityType

\* A step that wins no slot and changes the size of no list.
LEMMA QuietStep ==
  ASSUME TypeOK, SlotInv, NEW t \in Threads, NEW c, CallOK(c), Becomes(t, c),
         lock' \in [Lists -> Threads \cup {NoThread}], cache_size' = cache_size,
         tc_slots' \in [Lists -> Seq(Whole)],
         \A l \in Lists : Len(tc_slots'[l]) <= cache_size[l],
         Winning(c) => Winning(call[t])
  PROVE  TypeOK' /\ SlotInv'
<1>1. /\ call' = [u \in Threads |-> call'[u]] /\ \A u \in Threads : CallOK(call'[u])
      /\ call'[t] = c /\ \A u \in Threads \ {t} : call'[u] = call[u]
  BY CallUpdate
<1>2. TypeOK'
  <2>1. \A u \in Threads : CallOK(call[u])'
    BY <1>1 DEF CallOK, Removing, Inserting, Idle
  <2> QED
    BY <1>1, <2>1 DEF TypeOK
<1>3. Winners' \subseteq Winners
  <2>1. \A u \in Threads : Winning(call'[u]) => Winning(call[u])
    BY <1>1
  <2>2. Winners = {u \in Threads : Winning(call[u])}
        /\ Winners' = {u \in Threads : Winning(call'[u])}
    BY DEF Winners, Winning
  <2> QED
    BY <2>1, <2>2
<1>4. Cardinality(Winners') <= Cardinality(Winners)
      /\ Cardinality(Winners) \in Nat /\ Cardinality(Winners') \in Nat
  <2>1. IsFiniteSet(Winners)
    BY ListsAssumption, FS_Subset DEF Winners
  <2> QED
    BY <1>3, <2>1, FS_Subset, FS_CardinalityType
<1>5. Total(cache_size)' = Total(cache_size) /\ Total(InitialSize)' = Total(InitialSize)
  BY DEF Total, Units, InitialSize
<1>6. Total(cache_size) \in Nat /\ Total(InitialSize) \in Nat
  BY Counts
<1>7. Total(cache_size) + Cardinality(Winners')
        <= Total(InitialSize)
  BY <1>4, <1>6 DEF SlotInv
<1> QED
  BY <1>2, <1>5, <1>7 DEF SlotInv

-----------------------------------------------------------------------------
(* The steps one by one.                                                   *)

\* What every step keeps; the locks in a program of the default heap type.
Kept == TypeOK' /\ SlotInv' /\ (DefaultOnly /\ LockInv => LockInv')

\* The last chain leaves the slots, or one comes after it.
LEMMA SlotSequence ==
  ASSUME NEW s \in Seq(Whole)
  PROVE  /\ s # <<>> => /\ Front(s) \in Seq(Whole) /\ Len(Front(s)) = Len(s) - 1
                        /\ Last(s) \in Whole
         /\ \A x \in Whole : Append(s, x) \in Seq(Whole) /\ Len(Append(s, x)) = Len(s) + 1
         /\ Len(s) \in Nat /\ (Len(s) = 0 <=> s = <<>>)
<1>1. Len(s) \in Nat /\ (Len(s) = 0 <=> s = <<>>)
  OBVIOUS
<1>2. \A x \in Whole : Append(s, x) \in Seq(Whole) /\ Len(Append(s, x)) = Len(s) + 1
  OBVIOUS
<1>3. ASSUME s # <<>>
      PROVE  /\ Front(s) \in Seq(Whole) /\ Len(Front(s)) = Len(s) - 1
             /\ Last(s) \in Whole
  <2>1. Len(s) \in 1 .. Len(s)
    BY <1>1, <1>3
  <2>2. Last(s) \in Whole
    BY <2>1 DEF Last
  <2>3. Front(s) \in Seq(Whole) /\ Len(Front(s)) = Len(s) - 1
    <3> DEFINE m == Len(s) - 1
    <3>1. m \in Int /\ (1 <= m => m - 1 + 1 = m) /\ (~(1 <= m) => m = 0)
      <4> DEFINE a == Len(s)
      <4>1. a \in Nat \ {0}
        BY <1>1, <1>3
      <4> HIDE DEF a
      <4>2. a - 1 \in Int /\ (1 <= a - 1 => a - 1 - 1 + 1 = a - 1) /\ (~(1 <= a - 1) => a - 1 = 0)
        BY <4>1
      <4> QED
        BY <4>2 DEF a
    <3>2. \A i \in 1 .. m : s[i] \in Whole
      BY <1>1
    <3> HIDE DEF m
    <3>3. SubSeq(s, 1, m) \in Seq(Whole) /\ Len(SubSeq(s, 1, m)) = m
      BY <3>1, <3>2, SubSeqProperties
    <3> QED
      BY <3>3 DEF Front, m
  <2> QED
    BY <2>2, <2>3
<1> QED
  BY <1>1, <1>2, <1>3

\* A call has a record; an empty chain is no whole one.
LEMMA Records ==
  ASSUME TypeOK, NEW t \in Threads
  PROVE  /\ CallOK(call[t]) /\ Becomes(t, call[t]) <=> UNCHANGED call
         /\ <<>> \notin Whole
<1>1. <<>> \notin Whole
  <2>1. 1 \in 1 .. num_objects_to_move
    BY SizesAssumption
  <2> QED
    BY <2>1 DEF Whole
<1> QED
  BY <1>1 DEF TypeOK, Becomes

\* RemoveRange() from a slot: the chain leaves it, no lock is kept.
LEMMA RemoveSlotKeeps ==
  ASSUME TypeOK, SlotInv, NEW t \in Threads, NEW l \in Lists, RemoveSlot(t, l)
  PROVE  Kept
<1>1. CallOK(call[t]) /\ Becomes(t, call[t])
  BY DEF RemoveSlot, TypeOK, Becomes
<1>2. /\ UNCHANGED <<lock, cache_size>> /\ tc_slots[l] # <<>>
      /\ tc_slots' = [tc_slots EXCEPT ![l] = Front(@)]
      /\ lock' \in [Lists -> Threads \cup {NoThread}] /\ tc_slots \in [Lists -> Seq(Whole)]
      /\ cache_size \in [Lists -> Nat]
  BY DEF RemoveSlot, TypeOK
<1>3. /\ tc_slots' \in [Lists -> Seq(Whole)]
      /\ \A k \in Lists : Len(tc_slots'[k]) <= Len(tc_slots[k])
  <2>1. Front(tc_slots[l]) \in Seq(Whole) /\ Len(Front(tc_slots[l])) <= Len(tc_slots[l])
    BY <1>2, SlotSequence
  <2>2. \A k \in Lists : Len(tc_slots[k]) \in Nat
    BY <1>2, SlotSequence
  <2> QED
    BY <1>2, <2>1, <2>2
<1>4. \A k \in Lists : Len(tc_slots'[k]) <= cache_size[k]
  <2> SUFFICES ASSUME NEW k \in Lists PROVE Len(tc_slots'[k]) <= cache_size[k]
    OBVIOUS
  <2>1. Len(tc_slots[k]) \in Nat /\ Len(tc_slots'[k]) \in Nat /\ cache_size[k] \in Nat
    BY <1>2, <1>3, SlotSequence
  <2>2. Len(tc_slots'[k]) <= Len(tc_slots[k]) /\ Len(tc_slots[k]) <= cache_size[k]
    BY <1>3 DEF SlotInv
  <2> QED
    BY <2>1, <2>2
<1>5. TypeOK' /\ SlotInv'
  BY <1>1, <1>2, <1>3, <1>4, QuietStep
<1>6. LockInv => LockInv'
  BY <1>1, <1>2, LockStep DEF LockShape
<1> QED
  BY <1>5, <1>6 DEF Kept

\* A step that touches neither slots nor their number.
LEMMA CallStep ==
  ASSUME TypeOK, SlotInv, NEW t \in Threads, NEW c, CallOK(c), Becomes(t, c),
         UNCHANGED <<cache_size, tc_slots>>,
         lock' \in [Lists -> Threads \cup {NoThread}],
         Winning(c) => Winning(call[t]),
         DefaultOnly => LockShape(t, c)
  PROVE  Kept
<1>1. tc_slots' \in [Lists -> Seq(Whole)] /\ \A l \in Lists : Len(tc_slots'[l]) <= cache_size[l]
  BY DEF TypeOK, SlotInv
<1>2. TypeOK' /\ SlotInv'
  BY <1>1, QuietStep
<1>3. DefaultOnly /\ LockInv => LockInv'
  BY LockStep
<1> QED
  BY <1>2, <1>3 DEF Kept

\* A list loses a slot, and the call has won it.
LEMMA WinStep ==
  ASSUME TypeOK, SlotInv, NEW t \in Threads, NEW c, CallOK(c), Becomes(t, c),
         lock' \in [Lists -> Threads \cup {NoThread}],
         NEW v \in Lists, cache_size[v] > 0,
         cache_size' = [cache_size EXCEPT ![v] = @ - 1],
         tc_slots' \in [Lists -> Seq(Whole)],
         \A l \in Lists : Len(tc_slots'[l]) <= cache_size'[l],
         ~ Winning(call[t])
  PROVE  TypeOK' /\ SlotInv'
<1>1. /\ call' = [u \in Threads |-> call'[u]] /\ \A u \in Threads : CallOK(call'[u])
      /\ call'[t] = c /\ \A u \in Threads \ {t} : call'[u] = call[u]
  BY CallUpdate
<1>2. cache_size \in [Lists -> Nat] /\ cache_size' \in [Lists -> Nat]
  BY DEF TypeOK
<1>3. TypeOK'
  <2>1. \A u \in Threads : CallOK(call[u])'
    BY <1>1 DEF CallOK, Removing, Inserting, Idle
  <2> QED
    BY <1>1, <1>2, <2>1 DEF TypeOK
<1>4. Total(cache_size') = Total(cache_size) - 1
  BY <1>2, SlotsCounted
<1>5. /\ Total(cache_size) \in Nat /\ Total(InitialSize) \in Nat
      /\ IsFiniteSet(Winners) /\ Cardinality(Winners) \in Nat
      /\ Winners = {u \in Threads : Winning(call[u])}
  BY Counts
<1>6. Winners' \subseteq Winners \cup {t} /\ t \notin Winners
  <2>1. Winners' = {u \in Threads : Winning(call'[u])}
    BY DEF Winners, Winning
  <2>2. \A u \in Threads : Winning(call'[u]) => u = t \/ Winning(call[u])
    BY <1>1
  <2> QED
    BY <1>5, <2>1, <2>2
<1>7. Cardinality(Winners') <= Cardinality(Winners) + 1 /\ Cardinality(Winners') \in Nat
  <2> DEFINE A == Winners \cup {t}
             B == Winners'
  <2>1. IsFiniteSet(A) /\ Cardinality(A) = Cardinality(Winners) + 1
    BY <1>5, <1>6, FS_AddElement
  <2>2. B \subseteq A
    BY <1>6
  <2> HIDE DEF A, B
  <2>3. IsFiniteSet(B) /\ Cardinality(B) <= Cardinality(A)
    BY <2>1, <2>2, FS_Subset
  <2>4. Cardinality(B) \in Nat
    BY <2>3, FS_CardinalityType
  <2> QED
    BY <2>1, <2>3, <2>4 DEF B
<1>8. Total(cache_size') + Cardinality(Winners') <= Total(InitialSize)
  BY <1>4, <1>5, <1>7 DEF SlotInv
<1>9. Total(cache_size)' = Total(cache_size') /\ Total(InitialSize)' = Total(InitialSize)
  BY DEF Total, Units, InitialSize
<1>10. \A l \in Lists : cache_size'[l] <= MaxCacheSize[l[2]]
  <2> SUFFICES ASSUME NEW l \in Lists PROVE cache_size'[l] <= MaxCacheSize[l[2]]
    OBVIOUS
  <2>1. cache_size[l] <= MaxCacheSize[l[2]] /\ MaxCacheSize[l[2]] \in Nat
    BY SizesAssumption DEF SlotInv, Classes
  <2>2. cache_size'[l] <= cache_size[l]
    BY <1>2
  <2> QED
    BY <1>2, <2>1, <2>2
<1> QED
  BY <1>3, <1>8, <1>9, <1>10 DEF SlotInv

\* The list of the call gets the slot that the call has won.
LEMMA GiveStep ==
  ASSUME TypeOK, SlotInv, NEW t \in Threads, Becomes(t, Idle),
         lock' \in [Lists -> Threads \cup {NoThread}],
         NEW l \in Lists, cache_size[l] < MaxCacheSize[l[2]],
         cache_size' = [cache_size EXCEPT ![l] = @ + 1],
         NEW chain \in Whole, tc_slots' = [tc_slots EXCEPT ![l] = Append(@, chain)],
         Winning(call[t])
  PROVE  TypeOK' /\ SlotInv'
<1>0. CallOK(Idle) /\ ~ Winning(Idle)
  BY DEF CallOK, Winning, Idle
<1>1. /\ call' = [u \in Threads |-> call'[u]] /\ \A u \in Threads : CallOK(call'[u])
      /\ call'[t] = Idle /\ \A u \in Threads \ {t} : call'[u] = call[u]
  BY <1>0, CallUpdate
<1>2. /\ cache_size \in [Lists -> Nat] /\ cache_size' \in [Lists -> Nat]
      /\ tc_slots \in [Lists -> Seq(Whole)]
  BY DEF TypeOK
<1>3. /\ tc_slots' \in [Lists -> Seq(Whole)]
      /\ \A k \in Lists : Len(tc_slots'[k]) <= cache_size'[k]
  <2>1. /\ Append(tc_slots[l], chain) \in Seq(Whole)
        /\ Len(Append(tc_slots[l], chain)) = Len(tc_slots[l]) + 1
        /\ Len(tc_slots[l]) \in Nat
    BY <1>2, SlotSequence
  <2>2. \A k \in Lists : Len(tc_slots[k]) <= cache_size[k]
    BY DEF SlotInv
  <2>3. Len(tc_slots'[l]) <= cache_size'[l]
    <3>1. tc_slots'[l] = Append(tc_slots[l], chain) /\ cache_size'[l] = cache_size[l] + 1
      BY <1>2
    <3>2. Len(tc_slots'[l]) = Len(tc_slots[l]) + 1
      BY <2>1, <3>1
    <3>3. Len(tc_slots[l]) <= cache_size[l] /\ cache_size[l] \in Nat
      BY <1>2, <2>2
    <3> DEFINE a == Len(tc_slots[l])
    <3> HIDE DEF a
    <3>4. a \in Nat /\ a <= cache_size[l] /\ Len(tc_slots'[l]) = a + 1
      BY <2>1, <3>2, <3>3 DEF a
    <3> QED
      BY <3>1, <3>3, <3>4
  <2>4. \A k \in Lists \ {l} : tc_slots'[k] = tc_slots[k] /\ cache_size'[k] = cache_size[k]
    BY <1>2
  <2>5. tc_slots' \in [Lists -> Seq(Whole)]
    BY <1>2, <2>1
  <2> QED
    BY <2>2, <2>3, <2>4, <2>5
<1>4. TypeOK'
  <2>1. \A u \in Threads : CallOK(call[u])'
    BY <1>1 DEF CallOK, Removing, Inserting, Idle
  <2> QED
    BY <1>1, <1>2, <1>3, <2>1 DEF TypeOK
<1>5. Total(cache_size') = Total(cache_size) + 1
  BY <1>2, SlotsCounted
<1>6. /\ Total(cache_size) \in Nat /\ Total(InitialSize) \in Nat
      /\ IsFiniteSet(Winners) /\ Cardinality(Winners) \in Nat
      /\ Winners = {u \in Threads : Winning(call[u])}
  BY Counts
<1>7. Winners' = Winners \ {t} /\ t \in Winners
  <2>1. Winners' = {u \in Threads : Winning(call'[u])}
    BY DEF Winners, Winning
  <2>2. \A u \in Threads : Winning(call'[u]) <=> u # t /\ Winning(call[u])
    BY <1>0, <1>1
  <2> QED
    BY <1>6, <2>1, <2>2
<1>8. Cardinality(Winners') = Cardinality(Winners) - 1
  BY <1>6, <1>7, FS_RemoveElement
<1>9. Total(cache_size') + Cardinality(Winners') <= Total(InitialSize)
  BY <1>5, <1>6, <1>8 DEF SlotInv
<1>10. Total(cache_size)' = Total(cache_size') /\ Total(InitialSize)' = Total(InitialSize)
  BY DEF Total, Units, InitialSize
<1>11. \A k \in Lists : cache_size'[k] <= MaxCacheSize[k[2]]
  <2>1. cache_size'[l] = cache_size[l] + 1 /\ \A k \in Lists \ {l} : cache_size'[k] = cache_size[k]
    BY <1>2
  <2>2. MaxCacheSize[l[2]] \in Nat /\ cache_size[l] \in Nat
    BY <1>2, SizesAssumption DEF Classes
  <2>3. cache_size[l] + 1 <= MaxCacheSize[l[2]]
    BY <2>2
  <2> QED
    BY <2>1, <2>3 DEF SlotInv
<1> QED
  BY <1>3, <1>4, <1>9, <1>10, <1>11 DEF SlotInv

\* RemoveRange() from the spans: the lock is taken.
LEMMA RemoveFromSpansKeeps ==
  ASSUME TypeOK, SlotInv, NEW t \in Threads, NEW l \in Lists, NEW n,
         RemoveFromSpans(t, l, n)
  PROVE  Kept
<1> DEFINE c == [pc |-> "fetch", l |-> l, n |-> n, chain |-> <<>>,
                 populated |-> FALSE, span |-> {}]
<1>1. call[t].pc = "idle" /\ Held(call[t]) = {}
  BY DEF RemoveFromSpans, Held
<1>2. Removing(c) /\ Held(c) = {l} /\ CallOK(c)
  BY DEF Removing, Held, CallOK
<1>3. Becomes(t, c) /\ UNCHANGED <<cache_size, tc_slots>>
  BY DEF RemoveFromSpans, Go, Becomes, listVars
<1> HIDE DEF c
<1>4. lock[l] = NoThread /\ lock' = [lock EXCEPT ![l] = t]
      /\ lock' \in [Lists -> Threads \cup {NoThread}]
  BY DEF RemoveFromSpans, Acquire, TypeOK
<1>5. ~ Winning(c)
  BY <1>2, Winner
<1>6. LockShape(t, c)
  BY <1>1, <1>2, <1>4 DEF LockShape
<1> QED
  BY <1>2, <1>3, <1>4, <1>5, <1>6, CallStep

\* FetchFromOneSpans(), with the lock.
LEMMA FetchKeeps ==
  ASSUME TypeOK, SlotInv, NEW t \in Threads, FetchFromOneSpans(t)
  PROVE  Kept
<1>0. CallOK(call[t]) /\ call[t].pc = "fetch" /\ Removing(call[t])
  <2>1. call[t].pc = "fetch"
    BY Zenon DEF FetchFromOneSpans
  <2> QED
    BY <2>1, CallKinds DEF TypeOK
<1>1. \E x : call' = [call EXCEPT ![t].chain = x]
  BY Zenon DEF FetchFromOneSpans
<1>2. PICK x : call' = [call EXCEPT ![t].chain = x]
  BY <1>1
<1> DEFINE c == [call[t] EXCEPT !.chain = x]
<1>3. Removing(c) /\ c.pc = "fetch" /\ c.l = call[t].l
  BY <1>0 DEF Removing
<1>4. Becomes(t, c)
  BY <1>2 DEF Becomes, TypeOK
<1>5. /\ UNCHANGED <<cache_size, tc_slots, lock>>
      /\ lock' \in [Lists -> Threads \cup {NoThread}]
  BY DEF FetchFromOneSpans, TypeOK
<1> HIDE DEF c
<1>6. CallOK(c) /\ ~ Winning(c)
  BY <1>3, Winner DEF CallOK
<1>7. LockShape(t, c)
  BY <1>0, <1>3, <1>5 DEF LockShape, Held
<1> QED
  BY <1>4, <1>5, <1>6, <1>7, CallStep

\* RemoveRange() returns; the lock is given.
LEMMA FinishRemoveKeeps ==
  ASSUME TypeOK, SlotInv, NEW t \in Threads, FinishRemove(t)
  PROVE  Kept
<1>0. CallOK(call[t]) /\ call[t].pc = "fetch" /\ Removing(call[t])
  BY CallKinds DEF FinishRemove, TypeOK
<1>1. Becomes(t, Idle) /\ UNCHANGED <<cache_size, tc_slots>>
      /\ lock' = [lock EXCEPT ![call[t].l] = NoThread] /\ call[t].l \in Lists
  BY <1>0 DEF FinishRemove, Go, Becomes, Release, listVars, Removing
<1>2. lock' \in [Lists -> Threads \cup {NoThread}]
  BY <1>1 DEF TypeOK
<1>3. CallOK(Idle) /\ ~ Winning(Idle) /\ Held(Idle) = {}
  BY DEF CallOK, Winning, Idle, Held
<1>4. LockShape(t, Idle)
  BY <1>0, <1>1, <1>3 DEF LockShape, Held
<1> QED
  BY <1>1, <1>2, <1>3, <1>4, CallStep

\* Populate() gives the lock, and takes it again when the page heap has answered.
LEMMA PopulateKeeps ==
  ASSUME TypeOK, SlotInv, NEW t \in Threads, Populate(t) \/ NewSpan(t) \/ LinkSpan(t)
  PROVE  Kept
<1>0. CallOK(call[t]) /\ UNCHANGED <<cache_size, tc_slots>> /\ Removing(call[t])
      /\ lock \in [Lists -> Threads \cup {NoThread}] /\ call[t].l \in Lists
  <2>1. CallOK(call[t]) /\ lock \in [Lists -> Threads \cup {NoThread}]
    BY DEF TypeOK
  <2>2. call[t].pc \in {"fetch", "populate", "link"} /\ UNCHANGED <<cache_size, tc_slots>>
    BY DEF Populate, NewSpan, LinkSpan, listVars
  <2>3. Removing(call[t])
    BY <2>1, <2>2, CallKinds
  <2> QED
    BY <2>1, <2>2, <2>3 DEF Removing
<1>1. CASE Populate(t)
  <2> DEFINE c == [At(t, "populate") EXCEPT !.populated = TRUE]
  <2>1. Removing(c) /\ c.pc = "populate"
    BY <1>0 DEF Removing, At
  <2>2. Becomes(t, c) /\ call[t].pc = "fetch" /\ lock' = [lock EXCEPT ![call[t].l] = NoThread]
    BY <1>1 DEF Populate, Go, Becomes, Release
  <2> HIDE DEF c
  <2>3. lock' \in [Lists -> Threads \cup {NoThread}]
    BY <1>0, <2>2
  <2>4. CallOK(c) /\ ~ Winning(c)
    BY <2>1, Winner DEF CallOK
  <2>5. LockShape(t, c)
    BY <1>0, <2>1, <2>2 DEF LockShape, Held
  <2> QED
    BY <1>0, <2>2, <2>3, <2>4, <2>5, CallStep
<1>2. CASE NewSpan(t)
  <2>1. UNCHANGED lock /\ call[t].pc = "populate"
    BY <1>2 DEF NewSpan
  <2>2. PICK c : /\ Becomes(t, c)
                 /\ \/ c = At(t, "link")
                    \/ \E s : c = [At(t, "link") EXCEPT !.span = {s}]
    BY <1>2 DEF NewSpan, Go, Becomes
  <2>3. Removing(c) /\ c.pc = "link"
    <3>1. CASE c = At(t, "link")
      BY <1>0, <3>1 DEF Removing, At
    <3>2. ASSUME NEW s, c = [At(t, "link") EXCEPT !.span = {s}] PROVE Removing(c) /\ c.pc = "link"
      <4> DEFINE d == [At(t, "link") EXCEPT !.span = {s}]
      <4>1. Removing(d) /\ d.pc = "link"
        BY <1>0 DEF Removing, At
      <4> QED
        BY <3>2, <4>1
    <3> QED
      BY <2>2, <3>1, <3>2
  <2>4. CallOK(c) /\ ~ Winning(c)
    BY <2>3, Winner DEF CallOK
  <2>5. LockShape(t, c)
    BY <2>1, <2>3 DEF LockShape, Held
  <2> QED
    <3>1. lock' \in [Lists -> Threads \cup {NoThread}]
      BY <1>0, <2>1
    <3> QED
      BY <1>0, <2>2, <2>4, <2>5, <3>1, CallStep
<1>3. CASE LinkSpan(t)
  <2> DEFINE c == [At(t, "fetch") EXCEPT !.span = {}]
  <2>1. Removing(c) /\ c.pc = "fetch" /\ c.l = call[t].l
    BY <1>0 DEF Removing, At
  <2>2. /\ Becomes(t, c) /\ call[t].pc = "link" /\ lock[call[t].l] = NoThread
        /\ lock' = [lock EXCEPT ![call[t].l] = t]
    BY <1>3 DEF LinkSpan, Go, Becomes, Acquire
  <2> HIDE DEF c
  <2>3. lock' \in [Lists -> Threads \cup {NoThread}]
    BY <1>0, <2>2
  <2>4. CallOK(c) /\ ~ Winning(c)
    BY <2>1, Winner DEF CallOK
  <2>5. LockShape(t, c)
    BY <1>0, <2>1, <2>2 DEF LockShape, Held
  <2> QED
    BY <1>0, <2>2, <2>3, <2>4, <2>5, CallStep
<1> QED
  BY <1>1, <1>2, <1>3

\* A chain goes to its spans under the lock of w; the one of the call itself is
\* then no longer with the call.
LEMMA ToSpansInserts ==
  ASSUME NEW c, Inserting(c), NEW w \in Lists, NEW chain
  PROVE  LET d == ToSpans(c, w, chain)
             e == ChainToSpans(c)
         IN  /\ Inserting(d) /\ d.pc = "release" /\ d.w = w
             /\ d.chain = c.chain /\ d.won = c.won
             /\ Inserting(e) /\ e.pc = "release" /\ e.w = c.l /\ e.chain = <<>>
BY DEF Inserting, ToSpans, ChainToSpans

\* InsertRange() puts a whole chain into a slot, or takes the lock.
LEMMA InsertRangeKeeps ==
  ASSUME TypeOK, SlotInv, NEW t \in Threads, InsertRange(t)
  PROVE  Kept
<1>1. PICK l \in Lists, chain \in Chains :
         /\ call[t].pc = "idle"
         /\ InsertSlot(t, l, chain) \/ InsertNoSlot(t, l, chain)
  BY DEF InsertRange
<1>2. Len(chain) = num_objects_to_move => chain \in Whole
  <2>1. PICK m \in 1 .. num_objects_to_move : chain \in [1 .. m -> Spans]
    BY DEF Chains
  <2>2. Len(chain) = m
    BY <2>1, SizesAssumption
  <2> QED
    BY <2>1, <2>2 DEF Whole
<1>3. /\ lock \in [Lists -> Threads \cup {NoThread}] /\ cache_size \in [Lists -> Nat]
      /\ tc_slots \in [Lists -> Seq(Whole)] /\ call[t] = Idle
  BY <1>1, CallKinds DEF TypeOK
<1>4. CASE InsertSlot(t, l, chain)
  <2>1. /\ UNCHANGED <<lock, cache_size, call>> /\ chain \in Whole
        /\ Len(tc_slots[l]) < cache_size[l]
        /\ tc_slots' = [tc_slots EXCEPT ![l] = Append(@, chain)]
    BY <1>2, <1>4 DEF InsertSlot, PutSlot
  <2>2. CallOK(call[t]) /\ Becomes(t, call[t])
    BY <2>1 DEF TypeOK, Becomes
  <2>3. /\ tc_slots' \in [Lists -> Seq(Whole)]
        /\ \A k \in Lists : Len(tc_slots'[k]) <= cache_size[k]
    <3>1. /\ Append(tc_slots[l], chain) \in Seq(Whole)
          /\ Len(Append(tc_slots[l], chain)) = Len(tc_slots[l]) + 1
          /\ Len(tc_slots[l]) \in Nat
      BY <1>3, <2>1, SlotSequence
    <3>2. tc_slots'[l] = Append(tc_slots[l], chain)
          /\ \A k \in Lists \ {l} : tc_slots'[k] = tc_slots[k]
      BY <1>3, <2>1
    <3> DEFINE a == Len(tc_slots[l])
    <3>3. a \in Nat /\ a < cache_size[l] /\ cache_size[l] \in Nat
      BY <1>3, <2>1, <3>1
    <3>4. Len(tc_slots'[l]) = a + 1
      BY <3>1, <3>2
    <3> HIDE DEF a
    <3>5. Len(tc_slots'[l]) <= cache_size[l]
      BY <3>3, <3>4
    <3>6. \A k \in Lists : Len(tc_slots'[k]) <= cache_size[k]
      BY <3>2, <3>5 DEF SlotInv
    <3>7. tc_slots' \in [Lists -> Seq(Whole)]
      BY <1>3, <2>1, <3>1
    <3> QED
      BY <3>6, <3>7
  <2>4. TypeOK' /\ SlotInv'
    BY <1>3, <2>1, <2>2, <2>3, QuietStep
  <2>5. LockInv => LockInv'
    BY <2>1, <2>2, LockStep DEF LockShape
  <2> QED
    BY <2>4, <2>5 DEF Kept
<1>5. CASE InsertNoSlot(t, l, chain)
  <2> DEFINE c == [pc |-> "evict", l |-> l, chain |-> chain, rel |-> <<>>, w |-> l,
                   force |-> FALSE, won |-> FALSE, span |-> {}]
  <2>1. /\ lock[l] = NoThread /\ lock' = [lock EXCEPT ![l] = t]
        /\ UNCHANGED <<cache_size, tc_slots>>
        /\ \/ Becomes(t, ChainToSpans(c))
           \/ Len(chain) = num_objects_to_move /\ Becomes(t, c)
    BY <1>5 DEF InsertNoSlot, Acquire, Go, Becomes
  <2>2. lock' \in [Lists -> Threads \cup {NoThread}]
    BY <1>3, <2>1
  <2>3. Held(call[t]) = {}
    BY <1>3 DEF Held, Idle
  <2>4. ASSUME Len(chain) = num_objects_to_move, Becomes(t, c) PROVE Kept
    <3>1. chain \in Whole /\ chain # <<>>
      BY <1>2, <2>4, Records
    <3>2. Inserting(c) /\ c.pc = "evict" /\ ~ c.won /\ c.l = l
      BY <3>1 DEF Inserting
    <3> HIDE DEF c
    <3>3. CallOK(c) /\ ~ Winning(c)
      BY <3>2, Winner DEF CallOK
    <3>4. LockShape(t, c)
      BY <2>1, <2>3, <3>2 DEF LockShape, Held
    <3> QED
      BY <2>1, <2>2, <2>4, <3>3, <3>4, CallStep
  <2>5. ASSUME Becomes(t, ChainToSpans(c)) PROVE Kept
    <3> DEFINE d == ChainToSpans(c)
    <3>1. Inserting(d) /\ d.pc = "release" /\ d.w = l /\ d.chain = <<>>
      BY DEF ChainToSpans, ToSpans, Inserting
    <3>2. Becomes(t, d)
      BY <2>5
    <3> HIDE DEF d
    <3>3. CallOK(d) /\ ~ Winning(d)
      BY <3>1, Winner DEF CallOK
    <3>4. LockShape(t, d)
      BY <2>1, <2>3, <3>1 DEF LockShape, Held
    <3> QED
      BY <2>1, <2>2, <3>2, <3>3, <3>4, CallStep
  <2> HIDE DEF c
  <2> QED
    BY <2>1, <2>4, <2>5
<1> QED
  BY <1>1, <1>4, <1>5

\* EvictRandomSizeClass() failed: the call goes on under the lock it has.
LEMMA EvictFailedInserts ==
  ASSUME NEW t \in Threads, Inserting(call[t]), ~ call[t].won, call[t].chain # <<>>
  PROVE  LET c == EvictFailed(t)
         IN  CallOK(c) /\ ~ Winning(c) /\ Held(c) = {call[t].l}
<1>1. CASE call[t].force
  <2> DEFINE d == ChainToSpans(call[t])
  <2>1. Inserting(d) /\ d.pc = "release" /\ d.w = call[t].l /\ d.chain = <<>>
    BY ToSpansInserts DEF Inserting
  <2>2. EvictFailed(t) = d
    BY <1>1 DEF EvictFailed
  <2> HIDE DEF d
  <2>3. CallOK(d) /\ ~ Winning(d)
    BY <2>1, Winner DEF CallOK
  <2> QED
    BY <2>1, <2>2, <2>3 DEF Held
<1>2. CASE ~ call[t].force
  <2> DEFINE d == [At(t, "evict") EXCEPT !.force = TRUE]
  <2>1. Inserting(d) /\ d.pc = "evict" /\ d.l = call[t].l /\ ~ d.won
    BY DEF Inserting, At
  <2>2. EvictFailed(t) = d
    BY <1>2 DEF EvictFailed
  <2> HIDE DEF d
  <2>3. CallOK(d) /\ ~ Winning(d)
    BY <2>1, Winner DEF CallOK
  <2> QED
    BY <2>1, <2>2, <2>3 DEF Held
<1> QED
  BY <1>1, <1>2

\* The unlocked look of ShrinkCache(): LockInverter gives the lock of the list of
\* the default type, which is the list the call holds.
LEMMA EvictKeeps ==
  ASSUME TypeOK, SlotInv, NEW t \in Threads, EvictRandomSizeClass(t)
  PROVE  Kept
<1>0. /\ CallOK(call[t]) /\ call[t].pc = "evict" /\ Inserting(call[t])
      /\ UNCHANGED <<cache_size, tc_slots>>
      /\ lock \in [Lists -> Threads \cup {NoThread}]
  BY CallKinds DEF EvictRandomSizeClass, TypeOK, listVars
<1>1. call[t].l \in Lists /\ ~ call[t].won /\ call[t].chain # <<>> /\ Held(call[t]) = {call[t].l}
  BY <1>0 DEF Inserting, Held
<1>2. ASSUME Becomes(t, EvictFailed(t)), UNCHANGED lock PROVE Kept
  <2> DEFINE c == EvictFailed(t)
  <2>1. CallOK(c) /\ ~ Winning(c) /\ Held(c) = {call[t].l}
    BY <1>0, <1>1, EvictFailedInserts
  <2>2. Becomes(t, c)
    BY <1>2
  <2> HIDE DEF c
  <2>3. LockShape(t, c)
    BY <1>1, <1>2, <2>1 DEF LockShape
  <2>4. lock' \in [Lists -> Threads \cup {NoThread}]
    BY <1>0, <1>2
  <2> QED
    BY <1>0, <2>1, <2>2, <2>3, <2>4, CallStep
<1>3. ASSUME NEW v \in Lists, Becomes(t, [At(t, "shrink") EXCEPT !.w = v]),
             Release(Inverted(t))
      PROVE  Kept
  <2> DEFINE c == [At(t, "shrink") EXCEPT !.w = v]
  <2>1. Inserting(c) /\ c.pc = "shrink" /\ ~ c.won
    BY <1>0, <1>1 DEF Inserting, At
  <2>2. Becomes(t, c)
    BY <1>3
  <2> HIDE DEF c
  <2>3. CallOK(c) /\ ~ Winning(c) /\ Held(c) = {}
    BY <2>1, Winner DEF CallOK, Held
  <2>4. lock' \in [Lists -> Threads \cup {NoThread}]
    BY <1>0, <1>3 DEF Release
  <2>5. DefaultOnly => LockShape(t, c)
    <3> SUFFICES ASSUME DefaultOnly PROVE LockShape(t, c)
      OBVIOUS
    <3>1. Inverted(t) = call[t].l
      BY <1>1 DEF Inverted, DefaultOnly
    <3> QED
      BY <1>1, <1>3, <2>3, <3>1 DEF LockShape, Release
  <2> QED
    BY <1>0, <2>2, <2>3, <2>4, <2>5, CallStep
<1>4. \/ Becomes(t, EvictFailed(t)) /\ UNCHANGED lock
      \/ \E v \in Lists : Becomes(t, [At(t, "shrink") EXCEPT !.w = v]) /\ Release(Inverted(t))
  <2>1. \A x \in Classes : Default(x) \in Lists
    BY ListsAssumption
  <2> QED
    BY <2>1 DEF EvictRandomSizeClass, Go, Becomes
<1> QED
  BY <1>2, <1>3, <1>4

\* A call that waits in ShrinkCache() for the lock of another list.
LEMMA Shrinking ==
  ASSUME TypeOK, NEW t \in Threads, call[t].pc = "shrink"
  PROVE  /\ Inserting(call[t]) /\ ~ call[t].won /\ ~ Winning(call[t])
         /\ call[t].chain # <<>> /\ call[t].w \in Lists /\ Held(call[t]) = {}
<1>1. CallOK(call[t]) /\ Inserting(call[t])
  BY CallKinds DEF TypeOK
<1>2. ~ call[t].won /\ call[t].chain # <<>> /\ call[t].w \in Lists
  BY <1>1 DEF Inserting
<1> QED
  BY <1>1, <1>2, Winner DEF Held

\* ShrinkCache() takes a free slot, or with force a used one, whose chain goes to
\* its spans under the lock of the list.
LEMMA ShrinkCacheKeeps ==
  ASSUME TypeOK, SlotInv, NEW t \in Threads, ShrinkCache(t)
  PROVE  Kept
<1> DEFINE v == call[t].w
<1>0. /\ call[t].pc = "shrink" /\ lock[v] = NoThread
      /\ cache_size \in [Lists -> Nat] /\ tc_slots \in [Lists -> Seq(Whole)]
      /\ lock \in [Lists -> Threads \cup {NoThread}]
  BY DEF ShrinkCache, TypeOK
<1>1. /\ Inserting(call[t]) /\ ~ call[t].won /\ ~ Winning(call[t])
      /\ call[t].chain # <<>> /\ v \in Lists /\ Held(call[t]) = {}
  BY <1>0, Shrinking
<1>2. ASSUME Becomes(t, At(t, "invert")), UNCHANGED <<lock, cache_size, tc_slots>>
      PROVE  Kept
  <2> DEFINE c == At(t, "invert")
  <2>1. Inserting(c) /\ c.pc = "invert" /\ ~ c.won
    BY <1>1 DEF Inserting, At
  <2>2. Becomes(t, c)
    BY <1>2
  <2> HIDE DEF c
  <2>3. CallOK(c) /\ ~ Winning(c) /\ Held(c) = {}
    BY <2>1, Winner DEF CallOK, Held
  <2>4. LockShape(t, c)
    BY <1>1, <1>2, <2>3 DEF LockShape
  <2>5. lock' \in [Lists -> Threads \cup {NoThread}]
    BY <1>0, <1>2
  <2> QED
    BY <1>2, <2>2, <2>3, <2>4, <2>5, CallStep
<1>3. ASSUME cache_size[v] > 0, Len(tc_slots[v]) # cache_size[v],
             cache_size' = [cache_size EXCEPT ![v] = @ - 1],
             Becomes(t, [At(t, "invert") EXCEPT !.won = TRUE]),
             UNCHANGED <<lock, tc_slots>>
      PROVE  Kept
  <2> DEFINE c == [At(t, "invert") EXCEPT !.won = TRUE]
  <2>1. Inserting(c) /\ c.pc = "invert"
    BY <1>1 DEF Inserting, At
  <2>2. Becomes(t, c)
    BY <1>3
  <2> HIDE DEF c
  <2>3. CallOK(c) /\ Held(c) = {}
    BY <2>1 DEF CallOK, Held
  <2>4. LockShape(t, c)
    BY <1>1, <1>3, <2>3 DEF LockShape
  <2>5. lock' \in [Lists -> Threads \cup {NoThread}] /\ tc_slots' \in [Lists -> Seq(Whole)]
    BY <1>0, <1>3
  <2>6. \A l \in Lists : Len(tc_slots'[l]) <= cache_size'[l]
    <3> SUFFICES ASSUME NEW l \in Lists PROVE Len(tc_slots'[l]) <= cache_size'[l]
      OBVIOUS
    <3> DEFINE a == Len(tc_slots[l])
    <3>1. a \in Nat /\ a <= cache_size[l] /\ cache_size[l] \in Nat /\ Len(tc_slots'[l]) = a
      BY <1>0, <1>3, SlotSequence DEF SlotInv
    <3>2. cache_size'[l] = IF l = v THEN cache_size[l] - 1 ELSE cache_size[l]
      BY <1>0, <1>1, <1>3
    <3>3. l = v => a # cache_size[l]
      BY <1>3
    <3> HIDE DEF a, v
    <3> QED
      BY <3>1, <3>2, <3>3
  <2>7. TypeOK' /\ SlotInv'
    <3> HIDE DEF v
    <3> QED
      BY <1>1, <1>3, <2>2, <2>3, <2>5, <2>6, WinStep
  <2>8. LockInv => LockInv'
    BY <2>2, <2>3, <2>4, LockStep
  <2> QED
    BY <2>7, <2>8 DEF Kept
<1>4. ASSUME cache_size[v] > 0, Len(tc_slots[v]) = cache_size[v], Acquire(t, v),
             cache_size' = [cache_size EXCEPT ![v] = @ - 1],
             tc_slots' = [tc_slots EXCEPT ![v] = Front(@)],
             Becomes(t, [ToSpans(call[t], v, Last(tc_slots[v])) EXCEPT !.won = TRUE])
      PROVE  Kept
  <2> DEFINE d == ToSpans(call[t], v, Last(tc_slots[v]))
             c == [d EXCEPT !.won = TRUE]
  <2>1. Inserting(c) /\ c.pc = "release" /\ c.w = v
    <3>1. Inserting(d) /\ d.pc = "release" /\ d.w = v
      BY <1>1, ToSpansInserts
    <3> HIDE DEF d
    <3> QED
      BY <3>1 DEF Inserting
  <2>2. Becomes(t, c)
    BY <1>4
  <2> HIDE DEF c, d
  <2>3. CallOK(c) /\ Held(c) = {v}
    BY <2>1 DEF CallOK, Held
  <2>4. lock[v] = NoThread /\ lock' = [lock EXCEPT ![v] = t]
    BY <1>4 DEF Acquire
  <2>5. LockShape(t, c)
    BY <1>1, <2>3, <2>4 DEF LockShape
  <2>6. lock' \in [Lists -> Threads \cup {NoThread}]
    BY <1>0, <2>4
  <2>7. /\ Front(tc_slots[v]) \in Seq(Whole) /\ Len(Front(tc_slots[v])) = Len(tc_slots[v]) - 1
    <3>1. tc_slots[v] \in Seq(Whole)
      BY <1>0, <1>1
    <3>2. Len(tc_slots[v]) # 0
      BY <1>4
    <3> QED
      BY <3>1, <3>2, SlotSequence
  <2>8. tc_slots' \in [Lists -> Seq(Whole)]
    BY <1>0, <1>4, <2>7
  <2>9. \A l \in Lists : Len(tc_slots'[l]) <= cache_size'[l]
    <3> SUFFICES ASSUME NEW l \in Lists PROVE Len(tc_slots'[l]) <= cache_size'[l]
      OBVIOUS
    <3>1. CASE l = v
      <4>1. tc_slots'[l] = Front(tc_slots[v]) /\ cache_size'[l] = cache_size[v] - 1
        BY <1>0, <1>1, <1>4, <3>1
      <4>2. Len(tc_slots'[l]) = cache_size[v] - 1 /\ cache_size[v] \in Nat
        BY <1>0, <1>1, <1>4, <2>7, <4>1
      <4> QED
        BY <4>1, <4>2
    <3>2. CASE l # v
      <4>1. tc_slots'[l] = tc_slots[l] /\ cache_size'[l] = cache_size[l]
        BY <1>0, <1>4, <3>2
      <4> QED
        BY <4>1 DEF SlotInv
    <3> QED
      BY <3>1, <3>2
  <2>10. TypeOK' /\ SlotInv'
    <3> HIDE DEF v
    <3> QED
      BY <1>1, <1>4, <2>2, <2>3, <2>6, <2>8, <2>9, WinStep
  <2>11. LockInv => LockInv'
    BY <2>2, <2>3, <2>5, LockStep
  <2> QED
    BY <2>10, <2>11 DEF Kept
<1> QED
  BY <1>2, <1>3, <1>4 DEF ShrinkCache, Go, Becomes

\* The call has the lock of its list again and gives it the slot it won, or finds
\* the list full meanwhile, or has won none.
LEMMA MakeCacheSpaceKeeps ==
  ASSUME TypeOK, SlotInv, NEW t \in Threads, MakeCacheSpace(t)
  PROVE  Kept
<1> DEFINE l == call[t].l
           h == Inverted(t)
<1>0. /\ call[t].pc = "invert" /\ lock[h] = NoThread
      /\ lock \in [Lists -> Threads \cup {NoThread}] /\ CallOK(call[t])
  BY DEF MakeCacheSpace, TypeOK
<1>1. /\ Inserting(call[t]) /\ call[t].chain # <<>> /\ call[t].chain \in Whole
      /\ l \in Lists /\ Held(call[t]) = {} /\ (Winning(call[t]) <=> call[t].won)
  <2>1. Inserting(call[t])
    BY <1>0, CallKinds
  <2>2. call[t].chain # <<>> /\ call[t].chain \in Whole /\ l \in Lists
    BY <1>0, <2>1 DEF Inserting
  <2> QED
    BY <1>0, <2>1, <2>2, Winner DEF Held
<1>2. h \in Lists /\ (DefaultOnly => h = l)
  <2>1. l[2] \in Classes
    BY <1>1 DEF Classes
  <2>2. h = Default(l[2])
    BY DEF Inverted
  <2> QED
    BY <1>1, <2>1, <2>2, ListsAssumption DEF DefaultOnly
<1>3. CASE call[t].won /\ cache_size[l] < MaxCacheSize[l[2]]
  <2>1. /\ cache_size' = [cache_size EXCEPT ![l] = @ + 1]
        /\ tc_slots' = [tc_slots EXCEPT ![l] = Append(@, call[t].chain)]
        /\ lock' = [lock EXCEPT ![h] = t, ![l] = NoThread]
        /\ Becomes(t, Idle)
    BY <1>3 DEF MakeCacheSpace, PutSlot, Go, Becomes
  <2>2. lock' \in [Lists -> Threads \cup {NoThread}]
    BY <1>0, <1>1, <1>2, <2>1
  <2>3. CallOK(Idle) /\ Held(Idle) = {}
    BY DEF CallOK, Idle, Held
  <2>4. DefaultOnly => UNCHANGED lock
    BY <1>0, <1>1, <1>2, <2>1
  <2>5. DefaultOnly => LockShape(t, Idle)
    BY <1>1, <2>3, <2>4 DEF LockShape
  <2>6. TypeOK' /\ SlotInv'
    <3> DEFINE chain == call[t].chain
    <3>1. chain \in Whole /\ tc_slots' = [tc_slots EXCEPT ![l] = Append(@, chain)]
      BY <1>1, <2>1
    <3>2. cache_size[l] < MaxCacheSize[l[2]] /\ Winning(call[t])
      BY <1>1, <1>3
    <3> HIDE DEF l, chain
    <3> QED
      BY <1>1, <2>1, <2>2, <3>1, <3>2, GiveStep
  <2>7. DefaultOnly /\ LockInv => LockInv'
    BY <2>1, <2>3, <2>5, LockStep
  <2> QED
    BY <2>6, <2>7 DEF Kept
<1>4. ASSUME NEW c, CallOK(c), ~ Winning(c), Held(c) = {l}, Becomes(t, c),
             lock' = [lock EXCEPT ![h] = t], UNCHANGED <<cache_size, tc_slots>>
      PROVE  Kept
  <2>1. lock' \in [Lists -> Threads \cup {NoThread}]
    BY <1>0, <1>2, <1>4
  <2>2. DefaultOnly => LockShape(t, c)
    BY <1>0, <1>1, <1>2, <1>4 DEF LockShape
  <2> QED
    BY <1>4, <2>1, <2>2, CallStep
<1>5. CASE ~ (call[t].won /\ cache_size[l] < MaxCacheSize[l[2]])
  <2>1. /\ lock' = [lock EXCEPT ![h] = t] /\ UNCHANGED <<cache_size, tc_slots>>
        /\ Becomes(t, IF call[t].won THEN ChainToSpans(call[t]) ELSE EvictFailed(t))
    BY <1>5 DEF MakeCacheSpace, Acquire, Go, Becomes
  <2>2. CASE call[t].won
    <3> DEFINE c == ChainToSpans(call[t])
    <3>1. Inserting(c) /\ c.pc = "release" /\ c.w = l /\ c.chain = <<>>
      BY <1>1, ToSpansInserts
    <3>2. Becomes(t, c)
      BY <2>1, <2>2
    <3> HIDE DEF c
    <3>3. CallOK(c) /\ ~ Winning(c) /\ Held(c) = {l}
      BY <3>1, Winner DEF CallOK, Held
    <3> QED
      BY <1>4, <2>1, <3>2, <3>3
  <2>3. CASE ~ call[t].won
    <3> DEFINE c == EvictFailed(t)
    <3>1. CallOK(c) /\ ~ Winning(c) /\ Held(c) = {l}
      BY <1>1, <2>3, EvictFailedInserts
    <3>2. Becomes(t, c)
      BY <2>1, <2>3
    <3> HIDE DEF c
    <3> QED
      BY <1>4, <2>1, <3>1, <3>2
  <2> QED
    BY <2>2, <2>3
<1> QED
  BY <1>3, <1>5

\* A call in ReleaseListToSpans() keeps its chain and what it has won.
LEMMA ReleaseStep ==
  ASSUME TypeOK, SlotInv, NEW t \in Threads, Inserting(call[t]),
         NEW c, Inserting(c), Becomes(t, c), UNCHANGED <<cache_size, tc_slots>>,
         c.won = call[t].won, c.chain = call[t].chain,
         lock' \in [Lists -> Threads \cup {NoThread}],
         LockShape(t, c)
  PROVE  Kept
<1>1. CallOK(c) /\ CallOK(call[t])
  BY DEF CallOK
<1>2. Winning(c) => Winning(call[t])
  BY <1>1, Winner
<1> QED
  BY <1>1, <1>2, CallStep

\* ReleaseListToSpans(): an object goes back under the lock of the list, which is
\* dropped for the page heap and taken again.
LEMMA ReleaseKeeps ==
  ASSUME TypeOK, SlotInv, NEW t \in Threads,
         ReleaseToSpans(t) \/ ReleaseSpan(t) \/ DeleteSpan(t) \/ Relock(t)
  PROVE  Kept
<1> DEFINE w == call[t].w
<1>0. /\ lock \in [Lists -> Threads \cup {NoThread}] /\ CallOK(call[t])
      /\ call[t].pc \in {"release", "delete", "relock"}
      /\ UNCHANGED <<cache_size, tc_slots>>
  BY DEF TypeOK, ReleaseToSpans, ReleaseSpan, DeleteSpan, Relock, listVars
<1>1. Inserting(call[t]) /\ w \in Lists
  <2>1. Inserting(call[t])
    BY <1>0, CallKinds
  <2> QED
    BY <2>1 DEF Inserting
<1>2. CASE ReleaseToSpans(t)
  <2> DEFINE c == [call[t] EXCEPT !.rel = Tail(@)]
  <2>1. Inserting(c) /\ c.pc = "release" /\ c.w = w /\ c.won = call[t].won
        /\ c.chain = call[t].chain
    BY <1>1, <1>2 DEF ReleaseToSpans, Inserting
  <2>2. Becomes(t, c) /\ call[t].pc = "release" /\ UNCHANGED lock
    BY <1>2 DEF ReleaseToSpans, Becomes, TypeOK
  <2> HIDE DEF c
  <2>3. LockShape(t, c)
    BY <2>1, <2>2 DEF LockShape, Held
  <2>4. lock' \in [Lists -> Threads \cup {NoThread}]
    BY <1>0, <2>2
  <2> QED
    BY <1>0, <1>1, <2>1, <2>2, <2>3, <2>4, ReleaseStep
<1>3. CASE ReleaseSpan(t)
  <2>1. PICK s : Becomes(t, [At(t, "delete") EXCEPT !.rel = Tail(@), !.span = {s}])
    BY <1>3 DEF ReleaseSpan, Go, Becomes
  <2> DEFINE c == [At(t, "delete") EXCEPT !.rel = Tail(@), !.span = {s}]
  <2>2. Inserting(c) /\ c.pc = "delete" /\ c.w = w /\ c.won = call[t].won
        /\ c.chain = call[t].chain
    BY <1>1 DEF Inserting, At
  <2>3. Becomes(t, c)
    BY <2>1
  <2> HIDE DEF c
  <2>4. call[t].pc = "release" /\ lock' = [lock EXCEPT ![w] = NoThread]
    BY <1>3 DEF ReleaseSpan, Release
  <2>5. LockShape(t, c)
    BY <1>1, <2>2, <2>4 DEF LockShape, Held
  <2>6. lock' \in [Lists -> Threads \cup {NoThread}]
    BY <1>0, <1>1, <2>4
  <2> QED
    BY <1>0, <1>1, <2>2, <2>3, <2>5, <2>6, ReleaseStep
<1>4. CASE DeleteSpan(t)
  <2> DEFINE c == [At(t, "relock") EXCEPT !.span = {}]
  <2>1. Inserting(c) /\ c.pc = "relock" /\ c.w = w /\ c.won = call[t].won
        /\ c.chain = call[t].chain
    BY <1>1 DEF Inserting, At
  <2>2. Becomes(t, c) /\ call[t].pc = "delete" /\ UNCHANGED lock
    BY <1>4 DEF DeleteSpan, Go, Becomes
  <2> HIDE DEF c
  <2>3. LockShape(t, c)
    BY <2>1, <2>2 DEF LockShape, Held
  <2>4. lock' \in [Lists -> Threads \cup {NoThread}]
    BY <1>0, <2>2
  <2> QED
    BY <1>0, <1>1, <2>1, <2>2, <2>3, <2>4, ReleaseStep
<1>5. CASE Relock(t)
  <2> DEFINE c == At(t, "release")
  <2>1. Inserting(c) /\ c.pc = "release" /\ c.w = w /\ c.won = call[t].won
        /\ c.chain = call[t].chain
    BY <1>1 DEF Inserting, At
  <2>2. /\ Becomes(t, c) /\ call[t].pc = "relock" /\ lock[w] = NoThread
        /\ lock' = [lock EXCEPT ![w] = t]
    BY <1>5 DEF Relock, Go, Becomes, Acquire
  <2> HIDE DEF c
  <2>3. LockShape(t, c)
    BY <1>1, <2>1, <2>2 DEF LockShape, Held
  <2>4. lock' \in [Lists -> Threads \cup {NoThread}]
    BY <1>0, <1>1, <2>2
  <2> QED
    BY <1>0, <1>1, <2>1, <2>2, <2>3, <2>4, ReleaseStep
<1> QED
  BY <1>2, <1>3, <1>4, <1>5

\* ReleaseListToSpans() is done and the lock is dropped.
LEMMA FinishReleaseKeeps ==
  ASSUME TypeOK, SlotInv, NEW t \in Threads, FinishRelease(t)
  PROVE  Kept
<1> DEFINE w == call[t].w
<1>0. /\ lock \in [Lists -> Threads \cup {NoThread}] /\ CallOK(call[t])
      /\ call[t].pc = "release" /\ UNCHANGED <<cache_size, tc_slots>>
      /\ lock' = [lock EXCEPT ![w] = NoThread]
  BY DEF TypeOK, FinishRelease, Release, listVars
<1>1. Inserting(call[t]) /\ w \in Lists /\ Held(call[t]) = {w}
  <2>1. Inserting(call[t])
    BY <1>0, CallKinds
  <2> QED
    BY <1>0, <2>1 DEF Inserting, Held
<1>2. lock' \in [Lists -> Threads \cup {NoThread}]
  BY <1>0, <1>1
<1>3. CASE call[t].chain = <<>>
  <2>1. Becomes(t, Idle)
    BY <1>3 DEF FinishRelease, Go, Becomes
  <2>2. CallOK(Idle) /\ ~ Winning(Idle) /\ Held(Idle) = {}
    BY DEF CallOK, Idle, Winning, Held
  <2>3. LockShape(t, Idle)
    BY <1>0, <1>1, <2>2 DEF LockShape
  <2> QED
    BY <1>0, <1>2, <2>1, <2>2, <2>3, CallStep
<1>4. CASE call[t].chain # <<>>
  <2> DEFINE c == At(t, "invert")
  <2>1. Inserting(c) /\ c.pc = "invert" /\ c.won = call[t].won /\ c.chain = call[t].chain
    BY <1>1, <1>4 DEF Inserting, At
  <2>2. Becomes(t, c)
    BY <1>4 DEF FinishRelease, Go, Becomes
  <2> HIDE DEF c
  <2>3. LockShape(t, c)
    BY <1>0, <1>1, <2>1 DEF LockShape, Held
  <2> QED
    BY <1>0, <1>1, <1>2, <2>1, <2>2, <2>3, ReleaseStep
<1> QED
  BY <1>3, <1>4

-----------------------------------------------------------------------------
(* Chains and lists.                                                       *)

\* What is counted.
Places(chain, s) == {i \in DOMAIN chain : chain[i] = s}

\* A count is a number, and that of no objects is zero.
LEMMA CountType ==
  ASSUME NEW S, NEW chain \in Seq(S), NEW s
  PROVE  Count(chain, s) \in Nat /\ IsFiniteSet(Places(chain, s)) /\ Count(<<>>, s) = 0
         /\ Count(chain, s) = Cardinality(Places(chain, s))
<1>1. DOMAIN chain = 1 .. Len(chain) /\ Len(chain) \in Nat
  OBVIOUS
<1>2. IsFiniteSet(1 .. Len(chain))
  BY <1>1, FS_Interval
<1>3. IsFiniteSet(Places(chain, s))
  BY <1>1, <1>2, FS_Subset DEF Places
<1>4. Places(<<>>, s) = {}
  BY DEF Places
<1>5. Count(<<>>, s) = Cardinality(Places(<<>>, s)) /\ Count(chain, s) = Cardinality(Places(chain, s))
  BY DEF Count, Places
<1> QED
  BY <1>3, <1>4, <1>5, FS_CardinalityType, FS_EmptySet

\* The objects of two chains, one after the other.
LEMMA CountConcat ==
  ASSUME NEW S, NEW a \in Seq(S), NEW b \in Seq(S), NEW s
  PROVE  Count(a \o b, s) = Count(a, s) + Count(b, s)
<1> DEFINE m == Len(a)
           A == Places(a, s)
           B == Places(b, s)
           C == {i \in (m + 1) .. (m + Len(b)) : b[i - m] = s}
           f == [i \in B |-> i + m]
<1>1. /\ a \o b \in Seq(S) /\ Len(a \o b) = m + Len(b) /\ m \in Nat /\ Len(b) \in Nat
      /\ \A i \in 1 .. m + Len(b) : (a \o b)[i] = IF i <= m THEN a[i] ELSE b[i - m]
      /\ DOMAIN a = 1 .. m /\ DOMAIN b = 1 .. Len(b)
  BY ConcatProperties
<1>2. DOMAIN (a \o b) = 1 .. m + Len(b)
  BY <1>1
<1>3. IsFiniteSet(A) /\ IsFiniteSet(B) /\ Count(a, s) = Cardinality(A) /\ Count(b, s) = Cardinality(B)
      /\ Count(a, s) \in Nat /\ Count(b, s) \in Nat /\ Count(a \o b, s) = Cardinality(Places(a \o b, s))
  BY <1>1, CountType
<1>4. f \in Bijection(B, C)
  <2>0. \A i : i \in B <=> i \in 1 .. Len(b) /\ b[i] = s
    BY <1>1 DEF Places
  <2> HIDE DEF m, B
  <2>1. \A i \in B : f[i] \in C
    <3> SUFFICES ASSUME NEW i \in B PROVE i + m \in C
      OBVIOUS
    <3>1. i \in 1 .. Len(b) /\ b[i] = s
      BY <2>0
    <3>2. i + m \in (m + 1) .. (m + Len(b)) /\ (i + m) - m = i
      BY <1>1, <3>1
    <3> QED
      BY <3>1, <3>2
  <2>2. \A i, j \in B : f[i] = f[j] => i = j
    BY <1>1, <2>0
  <2>3. \A k \in C : \E i \in B : f[i] = k
    <3> SUFFICES ASSUME NEW k \in C PROVE \E i \in B : f[i] = k
      OBVIOUS
    <3>1. k - m \in 1 .. Len(b) /\ b[k - m] = s /\ k - m + m = k
      BY <1>1
    <3>2. k - m \in B
      BY <2>0, <3>1
    <3>3. f[k - m] = k
      BY <3>1, <3>2
    <3> QED
      BY <3>2, <3>3
  <2> HIDE DEF C
  <2>4. f \in [B -> C]
    BY <2>1
  <2> HIDE DEF f
  <2>5. f \in Injection(B, C) /\ f \in Surjection(B, C)
    BY <2>2, <2>3, <2>4 DEF Injection, Surjection, IsInjective
  <2> QED
    BY <2>5 DEF Bijection
<1>5. IsFiniteSet(C) /\ Cardinality(C) = Cardinality(B)
  <2> HIDE DEF f, B, C
  <2>1. ExistsBijection(B, C)
    BY <1>4 DEF ExistsBijection
  <2> QED
    BY <1>3, <2>1, FS_Bijection
<1>6. Places(a \o b, s) = A \cup C
  <2>1. ASSUME NEW i \in 1 .. m PROVE i \in Places(a \o b, s) <=> i \in A \cup C
    <3>1. (a \o b)[i] = a[i] /\ i \in DOMAIN (a \o b) /\ i \in DOMAIN a /\ i \notin C
      BY <1>1, <1>2
    <3> QED
      BY <3>1 DEF Places
  <2>2. ASSUME NEW i \in (m + 1) .. (m + Len(b)) PROVE i \in Places(a \o b, s) <=> i \in A \cup C
    <3>1. (a \o b)[i] = b[i - m] /\ i \in DOMAIN (a \o b) /\ i \notin DOMAIN a
      BY <1>1, <1>2
    <3> QED
      BY <3>1 DEF Places
  <2>3. \A i : i \in Places(a \o b, s) \/ i \in A \/ i \in C
                => i \in 1 .. m \/ i \in (m + 1) .. (m + Len(b))
    BY <1>1, <1>2 DEF Places
  <2> HIDE DEF A, C, m
  <2> QED
    BY <2>1, <2>2, <2>3
<1>7. A \cap C = {}
  BY <1>1 DEF Places
<1> HIDE DEF A, B, C
<1>8. Cardinality(A \cup C) = Cardinality(A) + Cardinality(C) - Cardinality({})
  BY <1>3, <1>5, <1>7, FS_Union
<1> QED
  BY <1>3, <1>5, <1>6, <1>8, FS_EmptySet

\* The objects of n of one span.
LEMMA CountFill ==
  ASSUME NEW S, NEW x \in S, NEW n \in Nat, NEW s
  PROVE  /\ [i \in 1 .. n |-> x] \in Seq(S)
         /\ Count([i \in 1 .. n |-> x], s) = IF s = x THEN n ELSE 0
<1> DEFINE q == [i \in 1 .. n |-> x]
<1>1. q \in Seq(S)
  OBVIOUS
<1>2. Count(q, s) = Cardinality(Places(q, s))
  BY <1>1, CountType
<1>3. CASE s = x
  <2>1. Places(q, s) = 1 .. n
    BY <1>3 DEF Places
  <2>2. Cardinality(1 .. n) = IF 1 > n THEN 0 ELSE n - 1 + 1
    BY FS_Interval
  <2>3. Cardinality(1 .. n) = n
    BY <2>2
  <2> QED
    BY <1>1, <1>2, <1>3, <2>1, <2>3
<1>4. CASE s # x
  <2>1. Places(q, s) = {}
    BY <1>4 DEF Places
  <2> QED
    BY <1>1, <1>2, <1>4, <2>1, FS_EmptySet
<1> QED
  BY <1>3, <1>4

\* n objects of one span before a chain.
LEMMA CountPrepend ==
  ASSUME NEW S, NEW x \in S, NEW n \in Nat, NEW chain \in Seq(S)
  PROVE  /\ [i \in 1 .. n |-> x] \o chain \in Seq(S)
         /\ \A s : Count([i \in 1 .. n |-> x] \o chain, s)
                     = Count(chain, s) + IF s = x THEN n ELSE 0
<1> DEFINE q == [i \in 1 .. n |-> x]
<1>1. q \in Seq(S)
  OBVIOUS
<1>2. ASSUME NEW s PROVE Count(q \o chain, s) = Count(chain, s) + IF s = x THEN n ELSE 0
  <2>1. Count(q, s) = IF s = x THEN n ELSE 0
    BY CountFill
  <2> HIDE DEF q
  <2>2. Count(q \o chain, s) = Count(q, s) + Count(chain, s) /\ Count(chain, s) \in Nat
    BY <1>1, CountConcat, CountType
  <2> QED
    BY <2>1, <2>2
<1> QED
  BY <1>1, <1>2

\* The first object of a chain and the others.
LEMMA CountHead ==
  ASSUME NEW S, NEW chain \in Seq(S), chain # <<>>
  PROVE  /\ Head(chain) \in S /\ Tail(chain) \in Seq(S)
         /\ \A s : Count(chain, s) = Count(Tail(chain), s) + IF s = Head(chain) THEN 1 ELSE 0
<1> DEFINE x == Head(chain)
           b == Tail(chain)
           q == [i \in 1 .. 1 |-> x]
<1>1. x \in S /\ b \in Seq(S) /\ Len(b) = Len(chain) - 1 /\ Len(chain) \in Nat /\ x = chain[1]
      /\ \A i \in 1 .. Len(b) : b[i] = chain[i + 1]
  BY HeadTailProperties
<1>2. q \in Seq(S) /\ Len(q) = 1 /\ q[1] = x
  BY <1>1
<1> HIDE DEF x, b, q
<1>3. /\ q \o b \in Seq(S) /\ Len(q \o b) = 1 + Len(b)
      /\ \A i \in 1 .. 1 + Len(b) : (q \o b)[i] = IF i <= 1 THEN q[i] ELSE b[i - 1]
  BY <1>1, <1>2, ConcatProperties
<1>4. Len(q \o b) = Len(chain)
  BY <1>1, <1>3
<1>5. ASSUME NEW i \in 1 .. Len(chain) PROVE (q \o b)[i] = chain[i]
  <2>1. CASE i = 1
    BY <1>1, <1>2, <1>3, <2>1
  <2>2. CASE i # 1
    BY <1>1, <1>3, <2>2
  <2> QED
    BY <2>1, <2>2
<1>6. q \o b = chain
  BY <1>3, <1>4, <1>5
<1>7. \A s : Count(q \o b, s) = Count(b, s) + IF s = x THEN 1 ELSE 0
  <2>1. \A n \in Nat : \A s : Count([i \in 1 .. n |-> x] \o b, s) = Count(b, s) + IF s = x THEN n ELSE 0
    BY <1>1, CountPrepend
  <2>2. 1 \in Nat
    OBVIOUS
  <2>3. \A s : Count([i \in 1 .. 1 |-> x] \o b, s) = Count(b, s) + IF s = x THEN 1 ELSE 0
    BY <2>1, <2>2
  <2> QED
    BY <2>3 DEF q
<1> QED
  BY <1>1, <1>6, <1>7 DEF x, b

\* The slots and one more chain.
LEMMA InSlotsAppend ==
  ASSUME NEW slots \in Seq(Whole), NEW chain \in Whole, NEW s
  PROVE  /\ InSlots(slots, s) \in Nat /\ Count(chain, s) \in Nat
         /\ InSlots(Append(slots, chain), s) = InSlots(slots, s) + Count(chain, s)
<1> DEFINE n == Len(slots)
           f == [i \in DOMAIN slots |-> Count(slots[i], s)]
           more == Append(slots, chain)
           g == [i \in DOMAIN more |-> Count(more[i], s)]
<1>0. num_objects_to_move \in Nat
  BY SizesAssumption
<1>1. \A c \in Whole : c \in Seq(Spans)
  BY <1>0 DEF Whole
<1>2. \A c \in Whole : Count(c, s) \in Nat
  BY <1>1, CountType
<1>3. n \in Nat /\ DOMAIN slots = 1 .. n /\ \A i \in 1 .. n : slots[i] \in Whole
  OBVIOUS
<1>4. more \in Seq(Whole) /\ Len(more) = n + 1 /\ more[n + 1] = chain /\ \A i \in 1 .. n : more[i] = slots[i]
  OBVIOUS
<1>5. DOMAIN more = 1 .. n + 1 /\ \A i \in 1 .. n + 1 : more[i] \in Whole
  BY <1>3, <1>4
<1> HIDE DEF more, n
<1>6. f \in [1 .. n -> Nat]
  BY <1>2, <1>3
<1>7. g \in [1 .. n + 1 -> Nat] /\ DOMAIN g = 1 .. n + 1 /\ g[n + 1] = Count(chain, s)
  BY <1>2, <1>3, <1>4, <1>5
<1>8. Without(g, n + 1) = f
  <2>1. (1 .. n + 1) \ {n + 1} = 1 .. n
    BY <1>3
  <2>2. \A i \in 1 .. n : g[i] = f[i]
    BY <1>3, <1>4, <1>5
  <2> HIDE DEF g
  <2>3. Without(g, n + 1) = [i \in 1 .. n |-> g[i]]
    BY <1>7, <2>1 DEF Without
  <2> HIDE DEF f
  <2> QED
    BY <1>6, <2>2, <2>3
<1>9. IsFiniteSet(1 .. n) /\ IsFiniteSet(1 .. n + 1) /\ n + 1 \in 1 .. n + 1
  <2>1. n \in Int /\ 1 \in Int /\ n + 1 \in Int
    BY <1>3
  <2> QED
    BY <1>3, <2>1, FS_Interval
<1> HIDE DEF f, g
<1>10. Total(g) = Total(Without(g, n + 1)) + g[n + 1] /\ Total(f) \in Nat
  BY <1>6, <1>7, <1>9, TotalSplit, UnitsFinite
<1>11. InSlots(slots, s) = Total(f) /\ InSlots(more, s) = Total(g)
  BY DEF f, g, InSlots
<1> QED
  BY <1>2, <1>7, <1>8, <1>10, <1>11 DEF more

\* The slots without the last chain.
LEMMA InSlotsFront ==
  ASSUME NEW slots \in Seq(Whole), slots # <<>>, NEW s
  PROVE  /\ Front(slots) \in Seq(Whole) /\ Last(slots) \in Whole
         /\ InSlots(Front(slots), s) \in Nat /\ Count(Last(slots), s) \in Nat
         /\ InSlots(slots, s) = InSlots(Front(slots), s) + Count(Last(slots), s)
<1> DEFINE a == Front(slots)
           c == Last(slots)
<1>1. a \in Seq(Whole) /\ c \in Whole /\ Len(a) = Len(slots) - 1 /\ Len(slots) \in Nat /\ Len(slots) # 0
  BY SlotSequence
<1>2. c = slots[Len(slots)]
  BY DEF Last
<1>3. \A i \in 1 .. Len(a) : a[i] = slots[i]
  <2>1. a = SubSeq(slots, 1, Len(slots) - 1)
    BY DEF Front
  <2>2. \A i \in 1 .. Len(slots) - 1 : slots[i] \in Whole
    BY <1>1
  <2>3. Len(slots) - 1 \in Int
    BY <1>1
  <2>4. \A i \in 1 .. Len(slots) - 1 - 1 + 1 : SubSeq(slots, 1, Len(slots) - 1)[i] = slots[1 + i - 1]
    BY <1>1, <2>2, <2>3
  <2> QED
    BY <1>1, <2>1, <2>4
<1> HIDE DEF a, c
<1>4. Append(a, c) = slots
  <2>1. Append(a, c) \in Seq(Whole) /\ Len(Append(a, c)) = Len(slots)
    BY <1>1
  <2>2. ASSUME NEW i \in 1 .. Len(slots) PROVE Append(a, c)[i] = slots[i]
    <3>1. CASE i = Len(slots)
      BY <1>1, <1>2, <3>1
    <3>2. CASE i # Len(slots)
      BY <1>1, <1>3, <3>2
    <3> QED
      BY <3>1, <3>2
  <2> QED
    BY <2>1, <2>2
<1>5. /\ InSlots(a, s) \in Nat /\ Count(c, s) \in Nat
      /\ InSlots(Append(a, c), s) = InSlots(a, s) + Count(c, s)
  BY <1>1, InSlotsAppend
<1> QED
  BY <1>1, <1>4, <1>5 DEF a, c

\* A list without an element: nonempty_ and the span.
IsWithout(d, q, s) ==
    d \in Seq(Spans) /\ IsInjective(d) /\ ToSet(d) = ToSet(q) \ {s}

\* A list with one element more.
IsWith(d, q, s) ==
    d \in Seq(Spans) /\ IsInjective(d) /\ ToSet(d) = ToSet(q) \cup {s}

\* DLL_Prepend().
LEMMA PrependList ==
  ASSUME NEW q \in Seq(Spans), IsInjective(q), NEW s \in Spans, s \notin ToSet(q)
  PROVE  IsWith(<<s>> \o q, q, s)
<1> DEFINE a == <<s>>
           d == a \o q
<1>0. a \in Seq(Spans) /\ Len(a) = 1 /\ a[1] = s
  OBVIOUS
<1> HIDE DEF a
<1>1. /\ d \in Seq(Spans) /\ Len(d) = 1 + Len(q) /\ Len(q) \in Nat
      /\ \A i \in 1 .. 1 + Len(q) : d[i] = IF i <= 1 THEN a[i] ELSE q[i - 1]
  <2>1. /\ a \o q \in Seq(Spans) /\ Len(a \o q) = Len(a) + Len(q)
        /\ \A i \in 1 .. Len(a) + Len(q) : (a \o q)[i] = IF i <= Len(a) THEN a[i] ELSE q[i - Len(a)]
    BY <1>0, ConcatProperties
  <2>2. Len(q) \in Nat
    OBVIOUS
  <2> QED
    BY <1>0, <2>1, <2>2
<1>2. DOMAIN d = 1 .. 1 + Len(q) /\ DOMAIN q = 1 .. Len(q)
  BY <1>1
<1> HIDE DEF d
<1>3. d[1] = s /\ \A i \in 1 .. Len(q) : d[i + 1] = q[i]
  BY <1>0, <1>1
<1>4. \A i \in 1 .. 1 + Len(q) : i = 1 \/ (i - 1 \in 1 .. Len(q) /\ d[i] = q[i - 1])
  BY <1>1
<1>5. \A i \in 1 .. Len(q) : q[i] # s /\ q[i] \in ToSet(q)
  BY <1>2 DEF ToSet
<1>6. IsInjective(d)
  <2> SUFFICES ASSUME NEW i \in 1 .. 1 + Len(q), NEW j \in 1 .. 1 + Len(q), d[i] = d[j] PROVE i = j
    BY <1>2 DEF IsInjective
  <2>1. CASE i = 1 \/ j = 1
    BY <1>3, <1>4, <1>5, <2>1
  <2>2. CASE i # 1 /\ j # 1
    <3>1. i - 1 \in 1 .. Len(q) /\ j - 1 \in 1 .. Len(q) /\ q[i - 1] = q[j - 1]
      BY <1>4, <2>2
    <3>2. i - 1 = j - 1
      BY <1>2, <3>1 DEF IsInjective
    <3> QED
      BY <3>2
  <2> QED
    BY <2>1, <2>2
<1>7. ToSet(d) = ToSet(q) \cup {s}
  <2>1. ASSUME NEW x \in ToSet(d) PROVE x \in ToSet(q) \cup {s}
    <3>1. PICK i \in 1 .. 1 + Len(q) : x = d[i]
      BY <1>2 DEF ToSet
    <3> QED
      BY <1>3, <1>4, <1>5, <3>1
  <2>2. ASSUME NEW x \in ToSet(q) PROVE x \in ToSet(d)
    <3>1. PICK i \in 1 .. Len(q) : x = q[i]
      BY <1>2 DEF ToSet
    <3>2. i + 1 \in DOMAIN d /\ d[i + 1] = x
      BY <1>1, <1>2, <1>3, <3>1
    <3> QED
      BY <3>2 DEF ToSet
  <2>3. s \in ToSet(d)
    <3>1. 1 \in DOMAIN d
      BY <1>1, <1>2
    <3> QED
      BY <1>3, <3>1 DEF ToSet
  <2> QED
    BY <2>1, <2>2, <2>3
<1> QED
  BY <1>1, <1>6, <1>7 DEF IsWith, a, d

\* The elements of a list but the k-th, in order.
Skips(d, q, k) ==
    /\ d \in Seq(Spans) /\ Len(d) = Len(q) - 1
    /\ \A i \in 1 .. Len(q) - 1 : d[i] = IF i < k THEN q[i] ELSE q[i + 1]

\* They are the others.
LEMMA SkipsList ==
  ASSUME NEW q \in Seq(Spans), IsInjective(q), NEW k \in 1 .. Len(q), NEW d, Skips(d, q, k)
  PROVE  IsWithout(d, q, q[k])
<1>1. /\ d \in Seq(Spans) /\ Len(d) = Len(q) - 1 /\ Len(q) \in Nat /\ k \in Nat
      /\ \A i \in 1 .. Len(q) - 1 : d[i] = IF i < k THEN q[i] ELSE q[i + 1]
  BY DEF Skips
<1>2. DOMAIN d = 1 .. Len(q) - 1 /\ DOMAIN q = 1 .. Len(q)
  BY <1>1
<1> DEFINE at(i) == IF i < k THEN i ELSE i + 1
<1>3. \A i \in 1 .. Len(q) - 1 : at(i) \in 1 .. Len(q) /\ at(i) # k /\ d[i] = q[at(i)]
  BY <1>1
<1>4. \A i, j \in 1 .. Len(q) - 1 : at(i) = at(j) => i = j
  BY <1>1
<1>5. \A j \in 1 .. Len(q) : j # k => \E i \in 1 .. Len(q) - 1 : at(i) = j
  <2> SUFFICES ASSUME NEW j \in 1 .. Len(q), j # k PROVE \E i \in 1 .. Len(q) - 1 : at(i) = j
    OBVIOUS
  <2>1. CASE j < k
    <3>1. j \in 1 .. Len(q) - 1 /\ at(j) = j
      BY <1>1, <2>1
    <3> QED
      BY <3>1
  <2>2. CASE j > k
    <3>1. j - 1 \in 1 .. Len(q) - 1 /\ at(j - 1) = j
      BY <1>1, <2>2
    <3> QED
      BY <3>1
  <2> QED
    BY <1>1, <2>1, <2>2
<1> HIDE DEF at
<1>6. \A i, j \in 1 .. Len(q) : q[i] = q[j] => i = j
  BY <1>2 DEF IsInjective
<1>7. IsInjective(d)
  BY <1>2, <1>3, <1>4, <1>6 DEF IsInjective
<1>8. ToSet(d) = ToSet(q) \ {q[k]}
  <2>1. ASSUME NEW x \in ToSet(d) PROVE x \in ToSet(q) \ {q[k]}
    <3>1. PICK i \in 1 .. Len(q) - 1 : x = d[i]
      BY <1>2 DEF ToSet
    <3>2. x = q[at(i)] /\ at(i) \in 1 .. Len(q) /\ at(i) # k
      BY <1>3, <3>1
    <3> QED
      BY <1>2, <1>6, <3>2 DEF ToSet
  <2>2. ASSUME NEW x \in ToSet(q), x # q[k] PROVE x \in ToSet(d)
    <3>1. PICK j \in 1 .. Len(q) : x = q[j]
      BY <1>2 DEF ToSet
    <3>2. PICK i \in 1 .. Len(q) - 1 : at(i) = j
      BY <1>5, <2>2, <3>1
    <3>3. d[i] = x
      BY <1>3, <3>1, <3>2
    <3> QED
      BY <1>2, <3>3 DEF ToSet
  <2> QED
    BY <2>1, <2>2
<1> QED
  BY <1>1, <1>7, <1>8 DEF IsWithout

\* Tail().
LEMMA TailList ==
  ASSUME NEW q \in Seq(Spans), IsInjective(q), q # <<>>
  PROVE  IsWithout(Tail(q), q, Head(q)) /\ Head(q) \in ToSet(q) /\ Head(q) \in Spans
<1>1. /\ Tail(q) \in Seq(Spans) /\ Len(Tail(q)) = Len(q) - 1 /\ Len(q) \in Nat /\ Len(q) # 0
      /\ \A i \in 1 .. Len(Tail(q)) : Tail(q)[i] = q[i + 1]
      /\ Head(q) = q[1] /\ Head(q) \in Spans
  BY HeadTailProperties
<1>2. 1 \in 1 .. Len(q) /\ DOMAIN q = 1 .. Len(q)
  BY <1>1
<1>3. \A i \in 1 .. Len(q) - 1 : ~(i < 1)
  OBVIOUS
<1>4. Skips(Tail(q), q, 1)
  BY <1>1, <1>3 DEF Skips
<1>5. IsWithout(Tail(q), q, q[1])
  BY <1>2, <1>4, SkipsList
<1> QED
  BY <1>1, <1>2, <1>5 DEF ToSet

\* A sequence without its k-th element.
LEMMA RemoveAtProperties ==
  ASSUME NEW S, NEW s \in Seq(S), NEW k \in 1..Len(s)
  PROVE  /\ RemoveAt(s, k) \in Seq(S)
         /\ Len(RemoveAt(s, k)) = Len(s) - 1
         /\ \A i \in 1..(Len(s) - 1) :
               RemoveAt(s, k)[i] = IF i < k THEN s[i] ELSE s[i + 1]
<1> DEFINE a == SubSeq(s, 1, k - 1)
           b == SubSeq(s, k + 1, Len(s))
<1>0. Len(s) \in Nat /\ \A i \in 1..Len(s) : s[i] \in S
  BY LenProperties, ElementOfSeq
<1>1. /\ a \in Seq(S) /\ Len(a) = k - 1
      /\ \A i \in 1..(k - 1) : a[i] = s[i]
  <2>1. \A i \in 1..(k - 1) : s[i] \in S
    BY <1>0
  <2>2. k - 1 \in Int
    BY <1>0
  <2> QED
    BY <2>1, <2>2, <1>0, SubSeqProperties
<1>2. /\ b \in Seq(S) /\ Len(b) = Len(s) - k
      /\ \A i \in 1..(Len(s) - k) : b[i] = s[k + i]
  <2>1. \A i \in (k + 1)..Len(s) : s[i] \in S
    BY <1>0
  <2>2. k + 1 \in Int
    BY <1>0
  <2> QED
    BY <2>1, <2>2, <1>0, SubSeqProperties
<1>3. RemoveAt(s, k) = a \o b
  BY DEF RemoveAt
<1> HIDE DEF a, b
<1>4. /\ a \o b \in Seq(S) /\ Len(a \o b) = Len(a) + Len(b)
      /\ \A i \in 1..(Len(a) + Len(b)) :
            (a \o b)[i] = IF i <= Len(a) THEN a[i] ELSE b[i - Len(a)]
  BY <1>1, <1>2, ConcatProperties
<1>5. ASSUME NEW i \in 1..(Len(s) - 1)
      PROVE  (a \o b)[i] = IF i < k THEN s[i] ELSE s[i + 1]
  <2>1. CASE i < k
    BY <2>1, <1>0, <1>1, <1>2, <1>4
  <2>2. CASE i >= k
    <3>1. (a \o b)[i] = b[i - (k - 1)]
      BY <2>2, <1>0, <1>1, <1>2, <1>4
    <3>2. b[i - (k - 1)] = s[k + (i - (k - 1))]
      BY <2>2, <1>0, <1>2
    <3> QED
      BY <3>1, <3>2, <2>2, <1>0
  <2>3. i < k \/ i >= k
    BY <1>0
  <2> QED
    BY <2>1, <2>2, <2>3
<1> QED
  BY <1>0, <1>1, <1>2, <1>3, <1>4, <1>5
\* DLL_Remove() of a span.
LEMMA RemoveList ==
  ASSUME NEW q \in Seq(Spans), IsInjective(q), NEW s
  PROVE  IsWithout(RemoveFirst(q, s), q, s)
<1> DEFINE I == {i \in 1 .. Len(q) : q[i] = s}
<1>1. DOMAIN q = 1 .. Len(q) /\ Len(q) \in Nat
  OBVIOUS
<1>2. CASE I = {}
  <2>1. RemoveFirst(q, s) = q
    BY <1>2 DEF RemoveFirst
  <2>2. s \notin ToSet(q)
    BY <1>1, <1>2 DEF ToSet
  <2> QED
    BY <2>1, <2>2 DEF IsWithout
<1>3. CASE I # {}
  <2>1. PICK k \in 1 .. Len(q) : q[k] = s
    BY <1>3
  <2>2. I = {k}
    BY <1>1, <2>1 DEF IsInjective
  <2>3. RemoveFirst(q, s) = RemoveAt(q, Min(I))
    BY <1>3 DEF RemoveFirst, SelectInSeq
  <2>4. Min({k}) = k
    BY <1>1 DEF Min
  <2>5. RemoveFirst(q, s) = RemoveAt(q, k)
    BY <2>2, <2>3, <2>4
  <2>6. Skips(RemoveAt(q, k), q, k)
    BY RemoveAtProperties DEF Skips
  <2>7. IsWithout(RemoveAt(q, k), q, q[k])
    BY <2>6, SkipsList
  <2> QED
    BY <2>1, <2>5, <2>7
<1> QED
  BY <1>2, <1>3

\* The smaller of two numbers.
LEMMA MinOfTwo ==
  ASSUME NEW a \in Int, NEW b \in Int
  PROVE  Min({a, b}) \in {a, b} /\ Min({a, b}) <= a /\ Min({a, b}) <= b
<1>1. \E x \in {a, b} : \A y \in {a, b} : x <= y
  <2>1. CASE a <= b
    BY <2>1
  <2>2. CASE ~(a <= b)
    BY <2>2
  <2> QED
    BY <2>1, <2>2
<1> QED
  BY <1>1 DEF Min

-----------------------------------------------------------------------------
(* Objects.                                                                *)

\* The chain a call has in hand, the objects it is giving to their spans, and
\* the span it is bringing from the page heap or taking there.
ChainOf(c) == IF c.pc = "idle" THEN <<>> ELSE c.chain
RelOf(c) == IF "rel" \in DOMAIN c THEN c.rel ELSE <<>>
SpanOf(c) == IF c.pc \in {"link", "delete"} THEN c.span ELSE {}

\* The objects of span s that a call has, and those that came from list l and
\* are in its slots or with the threads.
CallShare(c, s) == Count(ChainOf(c), s) + Count(RelOf(c), s)
ListShare(l, s) == out[l][s] + InSlots(tc_slots[l], s)

SpanType ==
    /\ out \in [Lists -> [Spans -> Nat]]
    /\ home \in [Spans -> Lists \cup {Heap, Taken}]
    /\ objects \in [Spans -> Nat] /\ refcount \in [Spans -> Nat]
    /\ nonempty \in [Lists -> Seq(Spans)] /\ empty \in [Lists -> SUBSET Spans]
    /\ counter \in [Lists -> Int]

\* What a call has is objects, from the spans of the list they are for.
CallFlow(c, hm) ==
    /\ ChainOf(c) \in Seq(Spans) /\ RelOf(c) \in Seq(Spans)
    /\ \A s \in Spans : Count(ChainOf(c), s) > 0 => hm[s] = c.l
    /\ \A s \in Spans : Count(RelOf(c), s) > 0 => hm[s] = c.w
    /\ c.pc \in {"fetch", "populate", "link"} => c.n \in Nat
    /\ c.pc \in {"fetch", "populate"} => c.span = {}
    /\ c.pc \in {"evict", "shrink", "invert"} => c.rel = <<>>

\* A span on its way is with one call, and a new one is whole.
InTransit(c, hm, obj, ref) ==
    /\ \A s \in SpanOf(c) : s \in Spans /\ hm[s] = Taken
    /\ c.pc = "link" => \A s \in c.span : obj[s] = ObjectsPerSpan /\ ref[s] = 0

\* Objects are outside only of spans that are on a list, and only for that list.
FlowInv ==
    /\ \A l \in Lists, s \in Spans : ListShare(l, s) > 0 => home[s] = l
    /\ \A t \in Threads : /\ CallFlow(call[t], home)
                          /\ InTransit(call[t], home, objects, refcount)
    /\ \A t, u \in Threads : t # u => SpanOf(call[t]) \cap SpanOf(call[u]) = {}

Balanced(s) == refcount[s] = Outside(s) /\ refcount[s] + objects[s] = ObjectsPerSpan

Balance == \A s \in Spans : home[s] \in Lists => Balanced(s)

ObjectsInv == SpanType /\ FlowInv /\ Balance /\ ListsAgree

\* What slots hold is a number of objects.
LEMMA InSlotsType ==
  ASSUME NEW slots \in Seq(Whole), NEW s
  PROVE  InSlots(slots, s) \in Nat
<1> DEFINE n == Len(slots)
           f == [i \in DOMAIN slots |-> Count(slots[i], s)]
<1>0. num_objects_to_move \in Nat
  BY SizesAssumption
<1>1. \A c \in Whole : c \in Seq(Spans)
  BY <1>0 DEF Whole
<1>2. \A c \in Whole : Count(c, s) \in Nat
  BY <1>1, CountType
<1>3. n \in Nat /\ DOMAIN slots = 1 .. n /\ \A i \in 1 .. n : slots[i] \in Whole
  OBVIOUS
<1>4. f \in [1 .. n -> Nat]
  BY <1>2, <1>3
<1>5. IsFiniteSet(1 .. n)
  BY <1>3, FS_Interval
<1> HIDE DEF f
<1>6. Total(f) \in Nat
  BY <1>4, <1>5, UnitsFinite
<1> QED
  BY <1>6 DEF f, InSlots

\* What the shares of lists and calls are.
LEMMA ShareType ==
  ASSUME TypeOK, SpanType, FlowInv, NEW s \in Spans
  PROVE  /\ \A l \in Lists : ListShare(l, s) \in Nat
         /\ \A t \in Threads : CallShare(call[t], s) \in Nat /\ InCall(t, s) = CallShare(call[t], s)
         /\ \A t \in Threads : Count(ChainOf(call[t]), s) \in Nat /\ Count(RelOf(call[t]), s) \in Nat
<1>1. ASSUME NEW l \in Lists PROVE ListShare(l, s) \in Nat
  <2>1. tc_slots[l] \in Seq(Whole) /\ out[l][s] \in Nat
    BY DEF TypeOK, SpanType
  <2>2. InSlots(tc_slots[l], s) \in Nat
    BY <2>1, InSlotsType
  <2> QED
    BY <2>1, <2>2 DEF ListShare
<1>2. ASSUME NEW t \in Threads
      PROVE  /\ CallShare(call[t], s) \in Nat /\ InCall(t, s) = CallShare(call[t], s)
             /\ Count(ChainOf(call[t]), s) \in Nat /\ Count(RelOf(call[t]), s) \in Nat
  <2>1. ChainOf(call[t]) \in Seq(Spans) /\ RelOf(call[t]) \in Seq(Spans)
    BY DEF FlowInv, CallFlow
  <2>2. Count(ChainOf(call[t]), s) \in Nat /\ Count(RelOf(call[t]), s) \in Nat /\ Count(<<>>, s) = 0
    BY <2>1, CountType
  <2>3. CASE call[t].pc = "idle"
    <3>1. call[t] = Idle
      BY <2>3, CallKinds DEF TypeOK
    <3>2. RelOf(call[t]) = <<>> /\ ChainOf(call[t]) = <<>>
      BY <3>1 DEF RelOf, ChainOf, Idle
    <3> QED
      BY <2>2, <2>3, <3>2 DEF CallShare, InCall
  <2>4. CASE call[t].pc # "idle"
    <3>1. CASE "rel" \in DOMAIN call[t]
      BY <2>2, <2>4, <3>1 DEF CallShare, InCall, ChainOf, RelOf
    <3>2. CASE "rel" \notin DOMAIN call[t]
      <4>1. RelOf(call[t]) = <<>> /\ ChainOf(call[t]) = call[t].chain
        BY <2>4, <3>2 DEF RelOf, ChainOf
      <4> QED
        BY <2>2, <2>4, <3>2, <4>1 DEF CallShare, InCall
    <3> QED
      BY <3>1, <3>2
  <2> QED
    BY <2>2, <2>3, <2>4
<1> QED
  BY <1>1, <1>2

\* The shares of all lists and of all calls.
ListShares(s) == [l \in Lists |-> ListShare(l, s)]
CallShares(s) == [t \in Threads |-> CallShare(call[t], s)]

\* They are what is outside.
LEMMA OutsideIs ==
  ASSUME TypeOK, SpanType, FlowInv, NEW s \in Spans
  PROVE  /\ Outside(s) = Total(ListShares(s)) + Total(CallShares(s)) /\ Outside(s) \in Nat
         /\ ListShares(s) \in [Lists -> Nat] /\ CallShares(s) \in [Threads -> Nat]
         /\ Total(ListShares(s)) \in Nat /\ Total(CallShares(s)) \in Nat
<1>1. ListShares(s) \in [Lists -> Nat] /\ CallShares(s) \in [Threads -> Nat]
  BY ShareType DEF ListShares, CallShares
<1>2. [t \in Threads |-> InCall(t, s)] = CallShares(s)
  BY ShareType DEF CallShares
<1>3. [l \in Lists |-> out[l][s] + InSlots(tc_slots[l], s)] = ListShares(s)
  BY DEF ListShares, ListShare
<1>4. Outside(s) = Total(ListShares(s)) + Total(CallShares(s))
  BY <1>2, <1>3 DEF Outside
<1>5. Total(ListShares(s)) \in Nat /\ Total(CallShares(s)) \in Nat
  BY <1>1, ListsAssumption, UnitsFinite
<1> QED
  BY <1>1, <1>4, <1>5

\* The same as a formula, and for the state after a step.
OutsideOK ==
    \A s \in Spans :
      /\ Outside(s) = Total(ListShares(s)) + Total(CallShares(s)) /\ Outside(s) \in Nat
      /\ ListShares(s) \in [Lists -> Nat] /\ CallShares(s) \in [Threads -> Nat]
      /\ Total(ListShares(s)) \in Nat /\ Total(CallShares(s)) \in Nat

LEMMA OutsideAlways == TypeOK /\ SpanType /\ FlowInv => OutsideOK
BY OutsideIs DEF OutsideOK

LEMMA OutsideNext ==
  ASSUME TypeOK', SpanType', FlowInv'
  PROVE  OutsideOK'
BY OutsideAlways, PTL

\* What a call has is outside, and if that is all nobody else has any.
LEMMA OutsideOf ==
  ASSUME TypeOK, SpanType, FlowInv, NEW s \in Spans, NEW t \in Threads
  PROVE  /\ CallShare(call[t], s) <= Outside(s)
         /\ CallShare(call[t], s) = Outside(s) =>
              /\ \A l \in Lists : ListShare(l, s) = 0
              /\ \A u \in Threads \ {t} : CallShare(call[u], s) = 0
<1> DEFINE f == CallShares(s)
           F == ListShares(s)
<1>1. /\ Outside(s) = Total(F) + Total(f) /\ F \in [Lists -> Nat] /\ f \in [Threads -> Nat]
      /\ Total(F) \in Nat /\ Total(f) \in Nat
  BY OutsideIs
<1>2. f[t] = CallShare(call[t], s) /\ f[t] \in Nat /\ DOMAIN f = Threads
  BY <1>1 DEF CallShares
<1>3. \A l \in Lists : F[l] = ListShare(l, s)
  BY DEF ListShares
<1>4. \A u \in Threads \ {t} : Without(f, t)[u] = CallShare(call[u], s)
  BY DEF CallShares, Without
<1>0. IsFiniteSet(Threads) /\ IsFiniteSet(Lists) /\ IsFiniteSet(Threads \ {t})
  BY ListsAssumption, FS_RemoveElement
<1> HIDE DEF f, F
<1>5. Total(f) = Total(Without(f, t)) + f[t] /\ Total(Without(f, t)) \in Nat
  BY <1>0, <1>1, TotalSplit
<1>6. Without(f, t) \in [Threads \ {t} -> Nat]
  BY <1>1, <1>2 DEF Without
<1>7. ASSUME CallShare(call[t], s) = Outside(s)
      PROVE  /\ \A l \in Lists : ListShare(l, s) = 0
             /\ \A u \in Threads \ {t} : CallShare(call[u], s) = 0
  <2>1. Total(F) = 0 /\ Total(Without(f, t)) = 0
    BY <1>1, <1>2, <1>5, <1>7
  <2>2. \A l \in Lists : F[l] = 0
    BY <1>0, <1>1, <2>1, TotalZero
  <2>3. \A u \in Threads \ {t} : Without(f, t)[u] = 0
    <3> DEFINE g == Without(f, t)
               P == Threads \ {t}
    <3>1. IsFiniteSet(P) /\ g \in [P -> Nat] /\ Total(g) = 0
      BY <1>0, <1>6, <2>1
    <3> HIDE DEF g, P
    <3>2. \A u \in P : g[u] = 0
      BY <3>1, TotalZero
    <3> QED
      BY <3>2 DEF g, P
  <2> QED
    BY <1>3, <1>4, <2>2, <2>3
<1>8. CallShare(call[t], s) <= Outside(s)
  BY <1>1, <1>2, <1>5
<1> QED
  BY <1>7, <1>8

\* Nothing is outside of a span that is on no list.
LEMMA OutsideNone ==
  ASSUME TypeOK, SpanType, FlowInv, NEW s \in Spans, home[s] \notin Lists
  PROVE  /\ Outside(s) = 0 /\ \A l \in Lists : ListShare(l, s) = 0
         /\ \A t \in Threads : CallShare(call[t], s) = 0
<1>1. \A l \in Lists : ListShare(l, s) = 0
  BY ShareType DEF FlowInv
<1>2. ASSUME NEW t \in Threads PROVE CallShare(call[t], s) = 0
  <2>0. CallOK(call[t]) /\ CallFlow(call[t], home) /\ Count(<<>>, s) = 0
        /\ Count(ChainOf(call[t]), s) \in Nat /\ Count(RelOf(call[t]), s) \in Nat
    <3>1. CallFlow(call[t], home) /\ CallOK(call[t])
      BY DEF FlowInv, TypeOK
    <3>2. ChainOf(call[t]) \in Seq(Spans)
      BY <3>1 DEF CallFlow
    <3> QED
      BY <3>1, <3>2, CountType, ShareType
  <2>1. CASE call[t] = Idle
    <3>1. RelOf(call[t]) = <<>> /\ ChainOf(call[t]) = <<>>
      BY <2>1 DEF RelOf, ChainOf, Idle
    <3> QED
      BY <2>0, <3>1 DEF CallShare
  <2>2. CASE Removing(call[t])
    <3>1. RelOf(call[t]) = <<>> /\ call[t].l \in Lists
      BY <2>2 DEF RelOf, Removing
    <3>2. Count(ChainOf(call[t]), s) = 0
      BY <2>0, <3>1 DEF CallFlow
    <3> QED
      BY <2>0, <3>1, <3>2 DEF CallShare
  <2>3. CASE Inserting(call[t])
    <3>1. call[t].w \in Lists /\ call[t].l \in Lists
      BY <2>3 DEF Inserting
    <3>2. Count(ChainOf(call[t]), s) = 0 /\ Count(RelOf(call[t]), s) = 0
      BY <2>0, <3>1 DEF CallFlow
    <3> QED
      BY <3>2 DEF CallShare
  <2> QED
    BY <2>0, <2>1, <2>2, <2>3 DEF CallOK
<1>3. Outside(s) = 0
  <2> DEFINE f == CallShares(s)
             F == ListShares(s)
  <2>1. Outside(s) = Total(F) + Total(f) /\ F \in [Lists -> Nat] /\ f \in [Threads -> Nat]
    BY OutsideIs
  <2>2. (\A l \in Lists : F[l] = 0) /\ \A t \in Threads : f[t] = 0
    BY <1>1, <1>2 DEF CallShares, ListShares
  <2> HIDE DEF f, F
  <2>3. Total(F) = 0 /\ Total(f) = 0
    BY <2>1, <2>2, ListsAssumption, TotalZero
  <2> QED
    BY <2>1, <2>3
<1> QED
  BY <1>1, <1>2, <1>3

-----------------------------------------------------------------------------
(* Steps and objects.                                                      *)

\* A step changes the call of t and the objects that came from list l only.
Touches(t, l, c) ==
    /\ Becomes(t, c)
    /\ \A k \in Lists \ {l} : out'[k] = out[k] /\ tc_slots'[k] = tc_slots[k]

LEMMA TouchesCall ==
  ASSUME TypeOK, NEW t \in Threads, NEW l \in Lists, NEW c, Touches(t, l, c)
  PROVE  /\ call'[t] = c /\ \A u \in Threads \ {t} : call'[u] = call[u]
         /\ \A k \in Lists \ {l} : \A s : ListShare(k, s)' = ListShare(k, s)
<1>1. DOMAIN call = Threads
  BY DEF TypeOK
<1>2. call'[t] = c /\ \A u \in Threads \ {t} : call'[u] = call[u]
  BY <1>1 DEF Touches, Becomes
<1>3. \A k \in Lists \ {l} : \A s : ListShare(k, s)' = ListShare(k, s)
  BY DEF Touches, ListShare
<1> QED
  BY <1>2, <1>3

\* A span whose objects nobody else has, and that no other call is carrying.
Alone(t, r) ==
    /\ \A k \in Lists : ListShare(k, r) = 0
    /\ \A u \in Threads \ {t} : CallShare(call[u], r) = 0 /\ r \notin SpanOf(call[u])

\* The objects are with the lists of their spans after a step that moves only
\* spans of its own.
LEMMA FlowStep ==
  ASSUME TypeOK, TypeOK', SpanType, FlowInv, NEW t \in Threads, NEW l \in Lists, NEW c,
         Touches(t, l, c),
         \A r \in Spans : home'[r] # home[r] => Alone(t, r),
         \A r \in Spans : ListShare(l, r)' > 0 => home'[r] = l,
         CallFlow(c, home'), InTransit(c, home', objects', refcount'),
         \A u \in Threads \ {t} :
            /\ SpanOf(c) \cap SpanOf(call[u]) = {}
            /\ \A r \in SpanOf(call[u]) : objects'[r] = objects[r] /\ refcount'[r] = refcount[r]
  PROVE  FlowInv'
<1>1. /\ call'[t] = c /\ \A u \in Threads \ {t} : call'[u] = call[u]
      /\ \A k \in Lists \ {l} : \A s : ListShare(k, s)' = ListShare(k, s)
  BY TouchesCall
<1>2. ASSUME NEW k \in Lists, NEW r \in Spans, ListShare(k, r)' > 0 PROVE home'[r] = k
  <2>1. CASE k = l
    BY <1>2, <2>1
  <2>2. CASE k # l
    <3>1. ListShare(k, r) > 0
      BY <1>1, <1>2, <2>2
    <3>2. home[r] = k
      BY <3>1 DEF FlowInv
    <3>3. home'[r] = home[r]
      BY <3>1 DEF Alone
    <3> QED
      BY <3>2, <3>3
  <2> QED
    BY <2>1, <2>2
<1>3. ASSUME NEW u \in Threads \ {t}
      PROVE  CallFlow(call[u], home') /\ InTransit(call[u], home', objects', refcount')
  <2>0. CallFlow(call[u], home) /\ InTransit(call[u], home, objects, refcount)
    BY DEF FlowInv
  <2>1. ASSUME NEW r \in Spans, home'[r] # home[r]
        PROVE  Count(ChainOf(call[u]), r) = 0 /\ Count(RelOf(call[u]), r) = 0
    <3>1. CallShare(call[u], r) = 0
      BY <2>1 DEF Alone
    <3>2. Count(ChainOf(call[u]), r) \in Nat /\ Count(RelOf(call[u]), r) \in Nat
      BY ShareType
    <3> QED
      BY <3>1, <3>2 DEF CallShare
  <2>2. CallFlow(call[u], home')
    BY <2>0, <2>1 DEF CallFlow
  <2>3. ASSUME NEW r \in SpanOf(call[u]) PROVE r \in Spans /\ home'[r] = Taken
    BY <2>0 DEF InTransit, Alone
  <2>4. ASSUME call[u].pc = "link", NEW r \in call[u].span
        PROVE  objects'[r] = ObjectsPerSpan /\ refcount'[r] = 0
    <3>1. r \in SpanOf(call[u])
      BY <2>4 DEF SpanOf
    <3> QED
      BY <2>0, <2>4, <3>1 DEF InTransit
  <2> QED
    BY <2>2, <2>3, <2>4 DEF InTransit
<1>4. \A u \in Threads : /\ CallFlow(call'[u], home')
                         /\ InTransit(call'[u], home', objects', refcount')
  BY <1>1, <1>3
<1>5. ASSUME NEW u \in Threads, NEW v \in Threads, u # v
      PROVE  SpanOf(call'[u]) \cap SpanOf(call'[v]) = {}
  <2>1. CASE u = t
    BY <1>1, <1>5, <2>1
  <2>2. CASE v = t
    BY <1>1, <1>5, <2>2
  <2>3. CASE u # t /\ v # t
    BY <1>1, <1>5, <2>3 DEF FlowInv
  <2> QED
    BY <2>1, <2>2, <2>3
<1> QED
  BY <1>2, <1>4, <1>5 DEF FlowInv

\* What a step adds to what is outside is what it adds to its list and its call.
LEMMA OutsideStep ==
  ASSUME TypeOK, TypeOK', SpanType, SpanType', FlowInv, FlowInv',
         NEW t \in Threads, NEW l \in Lists, NEW c, Touches(t, l, c), NEW s \in Spans
  PROVE  /\ Outside(s)' + ListShare(l, s) + CallShare(call[t], s)
              = Outside(s) + ListShare(l, s)' + CallShare(c, s)
         /\ Outside(s) \in Nat /\ Outside(s)' \in Nat
         /\ ListShare(l, s) \in Nat /\ ListShare(l, s)' \in Nat
         /\ CallShare(call[t], s) \in Nat /\ CallShare(c, s) \in Nat
<1> DEFINE f == CallShares(s)
           F == ListShares(s)
           g == CallShares(s)'
           G == ListShares(s)'
<1>1. /\ call'[t] = c /\ \A u \in Threads \ {t} : call'[u] = call[u]
      /\ \A k \in Lists \ {l} : \A r : ListShare(k, r)' = ListShare(k, r)
  BY TouchesCall
<1>2. /\ Outside(s) = Total(F) + Total(f) /\ F \in [Lists -> Nat] /\ f \in [Threads -> Nat]
      /\ Total(F) \in Nat /\ Total(f) \in Nat
  BY OutsideIs
<1>3. /\ Outside(s)' = Total(G) + Total(g) /\ G \in [Lists -> Nat] /\ g \in [Threads -> Nat]
      /\ Total(G) \in Nat /\ Total(g) \in Nat
  <2>1. /\ Outside(s)' = Total(ListShares(s))' + Total(CallShares(s))'
        /\ ListShares(s)' \in [Lists -> Nat] /\ CallShares(s)' \in [Threads -> Nat]
        /\ Total(ListShares(s))' \in Nat /\ Total(CallShares(s))' \in Nat
    BY OutsideNext DEF OutsideOK
  <2>2. Total(ListShares(s))' = Total(ListShares(s)') /\ Total(CallShares(s))' = Total(CallShares(s)')
    BY DEF Total, Units
  <2> QED
    BY <2>1, <2>2
<1>4. f[t] = CallShare(call[t], s) /\ g[t] = CallShare(c, s) /\ OnlyAt(f, g, Threads, t)
  <2>1. g = [u \in Threads |-> CallShare(call'[u], s)]
    BY DEF CallShares, CallShare, ChainOf, RelOf
  <2> QED
    BY <1>1, <2>1 DEF CallShares, OnlyAt
<1>5. F[l] = ListShare(l, s) /\ G[l] = ListShare(l, s)' /\ OnlyAt(F, G, Lists, l)
  <2>1. G = [k \in Lists |-> ListShare(k, s)']
    BY DEF ListShares
  <2> QED
    BY <1>1, <2>1 DEF ListShares, OnlyAt
<1> HIDE DEF f, F, g, G
<1>0. IsFiniteSet(Threads) /\ IsFiniteSet(Lists)
  BY ListsAssumption
<1>6. Total(g) + f[t] = Total(f) + g[t]
  BY <1>0, <1>2, <1>3, <1>4, TotalChange
<1>7. Total(G) + F[l] = Total(F) + G[l]
  BY <1>0, <1>2, <1>3, <1>5, TotalChange
<1>8. f[t] \in Nat /\ g[t] \in Nat /\ F[l] \in Nat /\ G[l] \in Nat
  BY <1>2, <1>3
<1> QED
  BY <1>2, <1>3, <1>4, <1>5, <1>6, <1>7, <1>8

\* The refcounts are right after a step that counts what it takes and gives.
LEMMA BalanceStep ==
  ASSUME TypeOK, TypeOK', SpanType, SpanType', FlowInv, FlowInv',
         NEW t \in Threads, NEW l \in Lists, NEW c, Touches(t, l, c),
         \A r \in Spans : home'[r] \in Lists =>
            /\ Balanced(r) /\ refcount'[r] + objects'[r] = refcount[r] + objects[r]
            /\ refcount'[r] + ListShare(l, r) + CallShare(call[t], r)
                 = refcount[r] + ListShare(l, r)' + CallShare(c, r)
  PROVE  Balance'
<1> SUFFICES ASSUME NEW r \in Spans, home'[r] \in Lists
             PROVE  refcount'[r] = Outside(r)' /\ refcount'[r] + objects'[r] = ObjectsPerSpan
  BY DEF Balance, Balanced
<1>1. /\ Outside(r)' + ListShare(l, r) + CallShare(call[t], r)
           = Outside(r) + ListShare(l, r)' + CallShare(c, r)
      /\ Outside(r) \in Nat /\ Outside(r)' \in Nat
      /\ ListShare(l, r) \in Nat /\ ListShare(l, r)' \in Nat
      /\ CallShare(call[t], r) \in Nat /\ CallShare(c, r) \in Nat
  BY OutsideStep
<1>2. refcount[r] = Outside(r) /\ refcount[r] + objects[r] = ObjectsPerSpan
  BY DEF Balanced
<1>3. refcount'[r] \in Nat
  BY DEF SpanType
<1> QED
  BY <1>1, <1>2, <1>3

\* What nonempty_ and empty_ of list l should be, and the free objects by span.
Listed(l, ne, em, hm, obj) ==
    /\ \A s \in Spans : (hm[s] = l) <=> (s \in ToSet(ne) \cup em)
    /\ IsInjective(ne)
    /\ \A s \in ToSet(ne) : obj[s] > 0
    /\ \A s \in em : obj[s] = 0
Free(l, hm, obj) == [s \in Spans |-> IF hm[s] = l THEN obj[s] ELSE 0]

LEMMA ListsAgreeIs ==
  ListsAgree <=> \A l \in Lists : /\ Listed(l, nonempty[l], empty[l], home, objects)
                                  /\ counter[l] = Total(Free(l, home, objects))
BY DEF ListsAgree, Listed, Free

LEMMA ListsAgreeNext ==
  ASSUME \A l \in Lists : /\ Listed(l, nonempty'[l], empty'[l], home', objects')
                          /\ counter'[l] = Total(Free(l, home', objects'))
  PROVE  ListsAgree'
BY DEF ListsAgree, Listed, Free, Total, Units

\* The elements of nonempty_ are spans.
LEMMA ListElements ==
  ASSUME SpanType, NEW l \in Lists
  PROVE  ToSet(nonempty[l]) \subseteq Spans /\ empty[l] \subseteq Spans
BY DEF SpanType, ToSet

\* A step that moves no span of a list.
LEMMA ListsQuiet ==
  ASSUME SpanType, SpanType', ListsAgree, UNCHANGED <<nonempty, empty, counter>>,
         \A r \in Spans : \/ home'[r] = home[r] /\ objects'[r] = objects[r]
                          \/ home[r] \notin Lists /\ home'[r] \notin Lists
  PROVE  ListsAgree'
<1> SUFFICES ASSUME NEW l \in Lists
             PROVE  /\ Listed(l, nonempty'[l], empty'[l], home', objects')
                    /\ counter'[l] = Total(Free(l, home', objects'))
  BY ListsAgreeNext
<1>1. Listed(l, nonempty[l], empty[l], home, objects) /\ counter[l] = Total(Free(l, home, objects))
  BY ListsAgreeIs
<1>2. Free(l, home', objects') = Free(l, home, objects)
  BY DEF Free
<1>3. ToSet(nonempty[l]) \subseteq Spans /\ empty[l] \subseteq Spans
  BY ListElements
<1>4. \A s \in Spans : (home'[s] = l) <=> (home[s] = l)
  OBVIOUS
<1>5. \A s \in Spans : home[s] = l => objects'[s] = objects[s]
  OBVIOUS
<1>6. Listed(l, nonempty[l], empty[l], home', objects')
  <2>1. \A s \in Spans : (home'[s] = l) <=> (s \in ToSet(nonempty[l]) \cup empty[l])
    BY <1>1, <1>4 DEF Listed
  <2>2. \A s \in ToSet(nonempty[l]) : objects'[s] > 0
    BY <1>1, <1>3, <1>5 DEF Listed
  <2>3. \A s \in empty[l] : objects'[s] = 0
    BY <1>1, <1>3, <1>5 DEF Listed
  <2> QED
    BY <1>1, <2>1, <2>2, <2>3 DEF Listed
<1> QED
  BY <1>1, <1>2, <1>6

\* A step that changes one span of one list.
LEMMA ListsStep ==
  ASSUME SpanType, SpanType', ListsAgree, NEW s \in Spans, NEW l \in Lists,
         \A k \in Lists \ {l} : /\ nonempty'[k] = nonempty[k] /\ empty'[k] = empty[k]
                                /\ counter'[k] = counter[k],
         \A r \in Spans \ {s} : home'[r] = home[r] /\ objects'[r] = objects[r],
         home[s] \notin Lists \ {l}, home'[s] \notin Lists \ {l},
         Listed(l, nonempty'[l], empty'[l], home', objects'),
         counter'[l] + Free(l, home, objects)[s] = counter[l] + Free(l, home', objects')[s]
  PROVE  ListsAgree'
<1> SUFFICES ASSUME NEW k \in Lists
             PROVE  /\ Listed(k, nonempty'[k], empty'[k], home', objects')
                    /\ counter'[k] = Total(Free(k, home', objects'))
  BY ListsAgreeNext
<1>1. Listed(k, nonempty[k], empty[k], home, objects) /\ counter[k] = Total(Free(k, home, objects))
  BY ListsAgreeIs
<1>2. CASE k = l
  <2> DEFINE f == Free(l, home, objects)
             g == Free(l, home', objects')
  <2>1. f \in [Spans -> Nat] /\ g \in [Spans -> Nat] /\ OnlyAt(f, g, Spans, s)
    BY DEF Free, SpanType, OnlyAt
  <2>2. counter'[l] + f[s] = counter[l] + g[s] /\ counter[l] = Total(f)
    BY <1>1, <1>2
  <2>3. counter'[l] \in Int
    BY DEF SpanType
  <2>4. IsFiniteSet(Spans)
    BY ListsAssumption
  <2> HIDE DEF f, g
  <2>5. Total(g) + f[s] = Total(f) + g[s] /\ Total(f) \in Nat /\ Total(g) \in Nat
    BY <2>1, <2>4, TotalChange, UnitsFinite
  <2>6. f[s] \in Nat /\ g[s] \in Nat
    BY <2>1
  <2>7. counter'[l] = Total(g)
    BY <2>2, <2>3, <2>5, <2>6
  <2> QED
    BY <1>2, <2>7 DEF g
<1>3. CASE k # l
  <2>1. home[s] # k /\ home'[s] # k
    BY <1>3
  <2>2. Free(k, home', objects') = Free(k, home, objects)
    BY <2>1 DEF Free
  <2>3. ToSet(nonempty[k]) \subseteq Spans /\ empty[k] \subseteq Spans
    BY ListElements
  <2>4. \A r \in Spans : (home'[r] = k) <=> (home[r] = k)
    BY <2>1
  <2>5. \A r \in Spans : home[r] = k => objects'[r] = objects[r]
    BY <2>1
  <2>6. Listed(k, nonempty[k], empty[k], home', objects')
    <3>1. \A r \in Spans : (home'[r] = k) <=> (r \in ToSet(nonempty[k]) \cup empty[k])
      BY <1>1, <2>4 DEF Listed
    <3>2. \A r \in ToSet(nonempty[k]) : objects'[r] > 0
      BY <1>1, <2>3, <2>5 DEF Listed
    <3>3. \A r \in empty[k] : objects'[r] = 0
      BY <1>1, <2>3, <2>5 DEF Listed
    <3> QED
      BY <1>1, <3>1, <3>2, <3>3 DEF Listed
  <2> QED
    BY <1>1, <1>3, <2>2, <2>6
<1> QED
  BY <1>2, <1>3

\* A step that passes objects between the threads, the slots of list l and its
\* call, and moves no span.
LEMMA TransferStep ==
  ASSUME TypeOK, TypeOK', ObjectsInv, NEW t \in Threads, NEW l \in Lists, NEW c,
         Touches(t, l, c), out' \in [Lists -> [Spans -> Nat]],
         UNCHANGED <<nonempty, empty, counter, home, objects, refcount>>,
         CallFlow(c, home), SpanOf(c) = {},
         \A r \in Spans : /\ ListShare(l, r)' + CallShare(c, r)
                               = ListShare(l, r) + CallShare(call[t], r)
                          /\ ListShare(l, r)' > 0 => home[r] = l
  PROVE  ObjectsInv'
<1>1. SpanType /\ FlowInv /\ Balance /\ ListsAgree
  BY DEF ObjectsInv
<1>2. SpanType'
  BY <1>1 DEF SpanType
<1>3. InTransit(c, home', objects', refcount')
  BY DEF InTransit, SpanOf
<1>4. /\ \A r \in Spans : home'[r] # home[r] => Alone(t, r)
      /\ \A r \in Spans : ListShare(l, r)' > 0 => home'[r] = l
      /\ CallFlow(c, home')
      /\ \A u \in Threads \ {t} :
            /\ SpanOf(c) \cap SpanOf(call[u]) = {}
            /\ \A r \in SpanOf(call[u]) : objects'[r] = objects[r] /\ refcount'[r] = refcount[r]
  OBVIOUS
<1>5. FlowInv'
  BY <1>1, <1>2, <1>3, <1>4, FlowStep
<1>6. \A r \in Spans : home'[r] \in Lists =>
         /\ Balanced(r) /\ refcount'[r] + objects'[r] = refcount[r] + objects[r]
         /\ refcount'[r] + ListShare(l, r) + CallShare(call[t], r)
              = refcount[r] + ListShare(l, r)' + CallShare(c, r)
  <2> SUFFICES ASSUME NEW r \in Spans, home'[r] \in Lists
               PROVE  /\ Balanced(r) /\ refcount'[r] + objects'[r] = refcount[r] + objects[r]
                      /\ refcount'[r] + ListShare(l, r) + CallShare(call[t], r)
                           = refcount[r] + ListShare(l, r)' + CallShare(c, r)
    OBVIOUS
  <2>1. Balanced(r)
    BY <1>1 DEF Balance
  <2>2. /\ ListShare(l, r) \in Nat /\ ListShare(l, r)' \in Nat
        /\ CallShare(call[t], r) \in Nat /\ CallShare(c, r) \in Nat
    BY <1>1, <1>2, <1>5, OutsideStep
  <2>3. refcount[r] \in Nat
    BY <1>1 DEF SpanType
  <2>4. ListShare(l, r)' + CallShare(c, r) = ListShare(l, r) + CallShare(call[t], r)
    OBVIOUS
  <2>5. refcount[r] + (ListShare(l, r) + CallShare(call[t], r))
          = refcount[r] + (ListShare(l, r)' + CallShare(c, r))
    BY <2>4
  <2>6. \A a, b, d \in Nat : a + b + d = a + (b + d)
    OBVIOUS
  <2>7. refcount[r] + ListShare(l, r) + CallShare(call[t], r)
          = refcount[r] + (ListShare(l, r) + CallShare(call[t], r))
    BY <2>2, <2>3, <2>6
  <2>8. refcount[r] + ListShare(l, r)' + CallShare(c, r)
          = refcount[r] + (ListShare(l, r)' + CallShare(c, r))
    BY <2>2, <2>3, <2>6
  <2> QED
    BY <2>1, <2>5, <2>7, <2>8
<1>7. Balance'
  BY <1>1, <1>2, <1>5, <1>6, BalanceStep
<1>8. ListsAgree'
  BY <1>1, <1>2, ListsQuiet
<1> QED
  BY <1>2, <1>5, <1>7, <1>8 DEF ObjectsInv

\* A step in which only the call goes on.
LEMMA CallOnlyStep ==
  ASSUME TypeOK, TypeOK', ObjectsInv, NEW t \in Threads, NEW l \in Lists, NEW c, Becomes(t, c),
         UNCHANGED <<out, tc_slots, nonempty, empty, counter, home, objects, refcount>>,
         CallFlow(c, home), SpanOf(c) = {},
         \A r \in Spans : CallShare(c, r) = CallShare(call[t], r)
  PROVE  ObjectsInv'
<1>1. Touches(t, l, c)
  BY DEF Touches
<1>2. \A r \in Spans : ListShare(l, r)' = ListShare(l, r)
  BY DEF ListShare
<1>3. \A r \in Spans : /\ ListShare(l, r)' + CallShare(c, r)
                            = ListShare(l, r) + CallShare(call[t], r)
                       /\ ListShare(l, r)' > 0 => home[r] = l
  BY <1>2 DEF ObjectsInv, FlowInv
<1>4. out' \in [Lists -> [Spans -> Nat]]
  BY DEF ObjectsInv, SpanType
<1> QED
  BY <1>1, <1>3, <1>4, TransferStep

-----------------------------------------------------------------------------
(* The steps one by one, and the objects.                                  *)

\* A call that has nothing.
LEMMA IdleFlow ==
  ASSUME NEW hm
  PROVE  /\ CallFlow(Idle, hm) /\ SpanOf(Idle) = {} /\ \A r : CallShare(Idle, r) = 0
         /\ ChainOf(Idle) = <<>> /\ RelOf(Idle) = <<>>
<1>1. ChainOf(Idle) = <<>> /\ RelOf(Idle) = <<>> /\ Idle.pc = "idle"
  BY DEF ChainOf, RelOf, Idle
<1>2. <<>> \in Seq(Spans)
  OBVIOUS
<1>3. \A r : Count(<<>>, r) = 0
  BY <1>2, CountType
<1> QED
  BY <1>1, <1>2, <1>3 DEF CallFlow, SpanOf, CallShare

\* What a call of RemoveRange() has, and one of InsertRange().
LEMMA RemovingFlow ==
  ASSUME NEW c, Removing(c)
  PROVE  /\ RelOf(c) = <<>> /\ ChainOf(c) = c.chain /\ c.l \in Lists
         /\ (c.chain \in Seq(Spans) => \A r : CallShare(c, r) = Count(c.chain, r))
<1>1. RelOf(c) = <<>> /\ ChainOf(c) = c.chain /\ c.l \in Lists
  BY DEF RelOf, ChainOf, Removing
<1>2. ASSUME c.chain \in Seq(Spans), NEW r PROVE CallShare(c, r) = Count(c.chain, r)
  <2>1. Count(c.chain, r) \in Nat /\ Count(<<>>, r) = 0
    BY <1>2, CountType
  <2> QED
    BY <1>1, <2>1 DEF CallShare
<1> QED
  BY <1>1, <1>2

LEMMA InsertingFlow ==
  ASSUME NEW c, Inserting(c)
  PROVE  /\ RelOf(c) = c.rel /\ ChainOf(c) = c.chain /\ c.l \in Lists /\ c.w \in Lists
         /\ c.chain \in Seq(Spans)
         /\ \A r : CallShare(c, r) = Count(c.chain, r) + Count(c.rel, r)
<1>1. RelOf(c) = c.rel /\ ChainOf(c) = c.chain /\ c.l \in Lists /\ c.w \in Lists
  BY DEF RelOf, ChainOf, Inserting
<1>2. num_objects_to_move \in Nat
  BY SizesAssumption
<1>3. c.chain \in Whole \cup {<<>>}
  BY DEF Inserting
<1>4. c.chain \in Seq(Spans)
  <2>1. \A q \in Whole : q \in Seq(Spans)
    BY <1>2 DEF Whole
  <2>2. <<>> \in Seq(Spans)
    OBVIOUS
  <2> QED
    BY <1>3, <2>1, <2>2
<1> QED
  BY <1>1, <1>4 DEF CallShare

\* What the invariant says of one call.
LEMMA FlowOf ==
  ASSUME TypeOK, ObjectsInv, NEW t \in Threads
  PROVE  /\ SpanType /\ FlowInv /\ Balance /\ ListsAgree /\ CallOK(call[t])
         /\ CallFlow(call[t], home) /\ InTransit(call[t], home, objects, refcount)
         /\ ChainOf(call[t]) \in Seq(Spans) /\ RelOf(call[t]) \in Seq(Spans)
BY DEF ObjectsInv, FlowInv, TypeOK, CallFlow

\* A call goes on with the same objects.
GoesOn(d, c) ==
    /\ ChainOf(c) = ChainOf(d) /\ RelOf(c) = RelOf(d) /\ c.l = d.l
    /\ RelOf(c) # <<>> => c.w = d.w
    /\ c.pc \in {"fetch", "populate", "link"} => c.n \in Nat
    /\ c.pc \in {"fetch", "populate"} => c.span = {}
    /\ c.pc \in {"evict", "shrink", "invert"} => c.rel = <<>>

LEMMA FlowGoes ==
  ASSUME NEW hm, NEW d, CallFlow(d, hm), NEW c, GoesOn(d, c)
  PROVE  CallFlow(c, hm) /\ \A r : CallShare(c, r) = CallShare(d, r)
<1>1. \A s \in Spans : Count(RelOf(c), s) > 0 => hm[s] = c.w
  <2>1. CASE RelOf(c) = <<>>
    <3>1. RelOf(c) \in Seq(Spans)
      BY DEF CallFlow, GoesOn
    <3>2. \A s \in Spans : Count(RelOf(c), s) = 0
      BY <2>1, <3>1, CountType
    <3> QED
      BY <3>2
  <2>2. CASE RelOf(c) # <<>>
    BY <2>2 DEF CallFlow, GoesOn
  <2> QED
    BY <2>1, <2>2
<1> QED
  BY <1>1 DEF CallFlow, CallShare, GoesOn

\* The chain of a call becomes what it gives to the spans.
LEMMA FlowToSpans ==
  ASSUME NEW hm, NEW d, CallFlow(d, hm), NEW c, c.pc = "release",
         ChainOf(d) \in Seq(Spans), RelOf(d) = <<>>,
         ChainOf(c) = <<>>, RelOf(c) = ChainOf(d), c.w = d.l
  PROVE  CallFlow(c, hm) /\ SpanOf(c) = {} /\ \A r : CallShare(c, r) = CallShare(d, r)
<1>1. \A r : Count(<<>>, r) = 0 /\ Count(ChainOf(d), r) \in Nat
  BY CountType
<1>2. <<>> \in Seq(Spans)
  OBVIOUS
<1>3. \A r : CallShare(c, r) = CallShare(d, r)
  BY <1>1 DEF CallShare
<1>4. SpanOf(c) = {}
  BY DEF SpanOf
<1> QED
  BY <1>1, <1>2, <1>3, <1>4 DEF CallFlow

\* RemoveRange() passes a chain from a slot to the thread.
LEMMA RemoveSlotObjects ==
  ASSUME TypeOK, TypeOK', ObjectsInv, NEW t \in Threads, NEW l \in Lists, RemoveSlot(t, l)
  PROVE  ObjectsInv'
<1> DEFINE q == tc_slots[l]
           chain == Last(q)
<1>0. /\ call[t] = Idle /\ q # <<>> /\ q \in Seq(Whole)
      /\ UNCHANGED <<call, nonempty, empty, counter, home, objects, refcount>>
      /\ out' = [out EXCEPT ![l] = [s \in Spans |-> @[s] + Count(chain, s)]]
      /\ tc_slots' = [tc_slots EXCEPT ![l] = Front(@)]
      /\ tc_slots \in [Lists -> Seq(Whole)]
  <2>1. call[t].pc = "idle" /\ CallOK(call[t])
    BY DEF RemoveSlot, TypeOK
  <2>2. call[t] = Idle
    BY <2>1, CallKinds
  <2> QED
    BY <2>2 DEF RemoveSlot, HandOut, TypeOK, spanVars
<1>1. SpanType /\ FlowInv /\ CallFlow(Idle, home)
  BY <1>0, FlowOf
<1>2. \A r : /\ chain \in Whole /\ InSlots(Front(q), r) \in Nat /\ Count(chain, r) \in Nat
             /\ InSlots(q, r) = InSlots(Front(q), r) + Count(chain, r)
  BY <1>0, InSlotsFront
<1>3. out \in [Lists -> [Spans -> Nat]]
  BY <1>1 DEF SpanType
<1>4. tc_slots'[l] = Front(q) /\ \A k \in Lists \ {l} : tc_slots'[k] = tc_slots[k]
  BY <1>0
<1> HIDE DEF chain, q
<1>5. /\ \A r \in Spans : out'[l][r] = out[l][r] + Count(chain, r)
      /\ \A k \in Lists \ {l} : out'[k] = out[k]
  BY <1>0, <1>3
<1>6. out' \in [Lists -> [Spans -> Nat]]
  BY <1>0, <1>2, <1>3
<1>7. Becomes(t, Idle)
  BY <1>0 DEF Becomes, TypeOK
<1>8. Touches(t, l, Idle)
  BY <1>4, <1>5, <1>7 DEF Touches
<1>9. ASSUME NEW r \in Spans PROVE ListShare(l, r)' = ListShare(l, r)
  <2>1. out[l][r] \in Nat
    BY <1>3
  <2> QED
    BY <1>2, <1>4, <1>5, <2>1 DEF ListShare, q
<1>10. \A r \in Spans : /\ ListShare(l, r)' + CallShare(Idle, r)
                             = ListShare(l, r) + CallShare(call[t], r)
                        /\ ListShare(l, r)' > 0 => home[r] = l
  BY <1>0, <1>1, <1>9 DEF FlowInv
<1>11. SpanOf(Idle) = {}
  BY IdleFlow
<1> QED
  BY <1>0, <1>1, <1>6, <1>8, <1>10, <1>11, TransferStep

\* RemoveRange() begins with nothing.
LEMMA RemoveFromSpansObjects ==
  ASSUME TypeOK, TypeOK', ObjectsInv, NEW t \in Threads, NEW l \in Lists,
         NEW n \in 1 .. num_objects_to_move, RemoveFromSpans(t, l, n)
  PROVE  ObjectsInv'
<1> DEFINE c == [pc |-> "fetch", l |-> l, n |-> n, chain |-> <<>>,
                 populated |-> FALSE, span |-> {}]
<1>0. /\ call[t] = Idle /\ Becomes(t, c)
      /\ UNCHANGED <<out, tc_slots, nonempty, empty, counter, home, objects, refcount>>
  <2>1. call[t].pc = "idle" /\ CallOK(call[t])
    BY DEF RemoveFromSpans, TypeOK
  <2>2. call[t] = Idle
    BY <2>1, CallKinds
  <2> QED
    BY <2>2 DEF RemoveFromSpans, Go, Becomes, spanVars, listVars
<1>1. ChainOf(c) = <<>> /\ RelOf(c) = <<>> /\ c.n \in Nat /\ c.span = {} /\ c.pc = "fetch"
  BY SizesAssumption DEF ChainOf, RelOf
<1>2. <<>> \in Seq(Spans)
  OBVIOUS
<1>3. \A r : Count(<<>>, r) = 0
  BY <1>2, CountType
<1> HIDE DEF c
<1>4. CallFlow(c, home) /\ SpanOf(c) = {}
  BY <1>1, <1>2, <1>3 DEF CallFlow, SpanOf
<1>5. \A r \in Spans : CallShare(c, r) = CallShare(call[t], r)
  BY <1>0, <1>1, <1>3, IdleFlow DEF CallShare
<1> QED
  BY <1>0, <1>4, <1>5, CallOnlyStep

\* RemoveRange() passes its chain to the thread.
LEMMA FinishRemoveObjects ==
  ASSUME TypeOK, TypeOK', ObjectsInv, NEW t \in Threads, FinishRemove(t)
  PROVE  ObjectsInv'
<1> DEFINE chain == call[t].chain
<1>1. SpanType /\ FlowInv /\ CallFlow(call[t], home) /\ CallOK(call[t]) /\ call[t].pc = "fetch"
  BY FlowOf DEF FinishRemove
<1>2. Removing(call[t])
  BY <1>1, CallKinds
<1>11. PICK l \in Lists : l = call[t].l
  BY <1>2, RemovingFlow
<1>0. /\ call[t].pc = "fetch" /\ Becomes(t, Idle)
      /\ UNCHANGED <<tc_slots, nonempty, empty, counter, home, objects, refcount>>
      /\ out' = [out EXCEPT ![l] = [s \in Spans |-> @[s] + Count(chain, s)]]
  BY <1>11 DEF FinishRemove, Go, Becomes, HandOut, spanVars, listVars
<1>3. /\ chain \in Seq(Spans) /\ \A r : CallShare(call[t], r) = Count(chain, r)
      /\ \A r \in Spans : Count(chain, r) > 0 => home[r] = l
  BY <1>1, <1>2, <1>11, RemovingFlow DEF CallFlow
<1>4. \A r : Count(chain, r) \in Nat
  BY <1>3, CountType
<1>5. out \in [Lists -> [Spans -> Nat]]
  BY <1>1 DEF SpanType
<1> HIDE DEF chain
<1>6. /\ \A r \in Spans : out'[l][r] = out[l][r] + Count(chain, r)
      /\ \A k \in Lists \ {l} : out'[k] = out[k]
  BY <1>0, <1>3, <1>5
<1>7. out' \in [Lists -> [Spans -> Nat]]
  BY <1>0, <1>3, <1>4, <1>5
<1>8. Touches(t, l, Idle)
  BY <1>0, <1>6 DEF Touches
<1>9. ASSUME NEW r \in Spans
      PROVE  /\ ListShare(l, r)' + CallShare(Idle, r) = ListShare(l, r) + CallShare(call[t], r)
             /\ ListShare(l, r)' > 0 => home[r] = l
  <2>2. ListShare(l, r) \in Nat /\ InSlots(tc_slots[l], r) \in Nat /\ out[l][r] \in Nat
    BY <1>1, <1>3, <1>5, ShareType, InSlotsType DEF TypeOK
  <2>3. ListShare(l, r)' = ListShare(l, r) + Count(chain, r)
    BY <1>0, <1>4, <1>6, <2>2 DEF ListShare
  <2>4. CallShare(Idle, r) = 0
    BY IdleFlow
  <2>5. ListShare(l, r) > 0 => home[r] = l
    BY <1>1, <1>3 DEF FlowInv
  <2> QED
    BY <1>3, <1>4, <2>2, <2>3, <2>4, <2>5
<1>10. CallFlow(Idle, home) /\ SpanOf(Idle) = {}
  BY IdleFlow
<1> QED
  BY <1>0, <1>3, <1>7, <1>8, <1>9, <1>10, TransferStep

\* Populate() drops the lock.
LEMMA PopulateObjects ==
  ASSUME TypeOK, TypeOK', ObjectsInv, NEW t \in Threads, Populate(t)
  PROVE  ObjectsInv'
<1> DEFINE c == [At(t, "populate") EXCEPT !.populated = TRUE]
<1>0. /\ call[t].pc = "fetch" /\ Becomes(t, c)
      /\ UNCHANGED <<out, tc_slots, nonempty, empty, counter, home, objects, refcount>>
  BY DEF Populate, Go, Becomes, spanVars, listVars
<1>1. CallFlow(call[t], home) /\ CallOK(call[t])
  BY FlowOf
<1>2. Removing(call[t])
  BY <1>0, <1>1, CallKinds
<1>3. /\ Removing(c) /\ c.pc = "populate" /\ c.l = call[t].l /\ c.chain = call[t].chain
      /\ c.n = call[t].n /\ c.span = call[t].span
  BY <1>2 DEF Removing, At
<1> HIDE DEF c
<1>4. ChainOf(c) = ChainOf(call[t]) /\ RelOf(c) = RelOf(call[t]) /\ RelOf(c) = <<>> /\ c.l \in Lists
  BY <1>2, <1>3, RemovingFlow
<1>5. GoesOn(call[t], c)
  BY <1>0, <1>1, <1>3, <1>4 DEF CallFlow, GoesOn
<1>6. CallFlow(c, home) /\ \A r : CallShare(c, r) = CallShare(call[t], r)
  BY <1>1, <1>5, FlowGoes
<1>7. SpanOf(c) = {}
  BY <1>3 DEF SpanOf
<1> QED
  BY <1>0, <1>4, <1>6, <1>7, CallOnlyStep

\* A call of InsertRange() goes on with the same objects.
LEMMA InsertingGoes ==
  ASSUME NEW hm, NEW d, Inserting(d), CallFlow(d, hm), NEW c, Inserting(c),
         c.chain = d.chain, c.rel = d.rel, c.l = d.l, c.w = d.w \/ c.rel = <<>>,
         c.pc \in {"evict", "shrink", "invert"} => c.rel = <<>>
  PROVE  CallFlow(c, hm) /\ \A r : CallShare(c, r) = CallShare(d, r)
<1>1. ChainOf(c) = ChainOf(d) /\ RelOf(c) = RelOf(d) /\ RelOf(c) = c.rel
  BY InsertingFlow
<1>2. c.pc \notin {"fetch", "populate", "link"}
  BY DEF Inserting
<1>3. GoesOn(d, c)
  BY <1>1, <1>2 DEF GoesOn
<1> QED
  BY <1>3, FlowGoes

\* The chain of a call of InsertRange() goes to the spans.
LEMMA ChainToSpansFlow ==
  ASSUME NEW hm, NEW d, Inserting(d), CallFlow(d, hm), d.rel = <<>>
  PROVE  LET c == ChainToSpans(d)
         IN  CallFlow(c, hm) /\ SpanOf(c) = {} /\ \A r : CallShare(c, r) = CallShare(d, r)
<1> DEFINE c == ChainToSpans(d)
<1>1. Inserting(c) /\ c.pc = "release" /\ c.w = d.l /\ c.chain = <<>> /\ c.rel = d.chain
  BY DEF Inserting, ToSpans, ChainToSpans
<1> HIDE DEF c
<1>2. /\ ChainOf(c) = <<>> /\ RelOf(c) = ChainOf(d) /\ RelOf(d) = <<>>
      /\ ChainOf(d) \in Seq(Spans)
  BY <1>1, InsertingFlow
<1>3. CallFlow(c, hm) /\ SpanOf(c) = {} /\ \A r : CallShare(c, r) = CallShare(d, r)
  BY <1>1, <1>2, FlowToSpans
<1> QED
  BY <1>3 DEF c

LEMMA EvictFailedFlow ==
  ASSUME NEW hm, NEW t \in Threads, Inserting(call[t]), CallFlow(call[t], hm), call[t].rel = <<>>,
         ~ call[t].won, call[t].chain # <<>>
  PROVE  LET c == EvictFailed(t)
         IN  /\ CallFlow(c, hm) /\ SpanOf(c) = {}
             /\ \A r : CallShare(c, r) = CallShare(call[t], r)
<1>1. CASE call[t].force
  BY <1>1, ChainToSpansFlow DEF EvictFailed
<1>2. CASE ~ call[t].force
  <2> DEFINE c == [At(t, "evict") EXCEPT !.force = TRUE]
  <2>1. /\ Inserting(c) /\ c.pc = "evict" /\ c.chain = call[t].chain /\ c.rel = <<>>
        /\ c.l = call[t].l
    BY DEF Inserting, At
  <2>2. EvictFailed(t) = c
    BY <1>2 DEF EvictFailed
  <2> HIDE DEF c
  <2>3. CallFlow(c, hm) /\ \A r : CallShare(c, r) = CallShare(call[t], r)
    BY <2>1, InsertingGoes
  <2>4. SpanOf(c) = {}
    BY <2>1 DEF SpanOf
  <2> QED
    BY <2>2, <2>3, <2>4
<1> QED
  BY <1>1, <1>2

\* EvictRandomSizeClass() moves no object.
LEMMA EvictObjects ==
  ASSUME TypeOK, TypeOK', ObjectsInv, NEW t \in Threads, EvictRandomSizeClass(t)
  PROVE  ObjectsInv'
<1>0. /\ call[t].pc = "evict"
      /\ UNCHANGED <<out, tc_slots, nonempty, empty, counter, home, objects, refcount>>
      /\ \/ Becomes(t, EvictFailed(t))
         \/ \E v : v \in Lists /\ Becomes(t, [At(t, "shrink") EXCEPT !.w = v])
  <2>1. \A e \in Classes : Default(e) \in Lists
    BY ListsAssumption
  <2> QED
    BY <2>1 DEF EvictRandomSizeClass, Go, Becomes, spanVars, listVars
<1>1. CallFlow(call[t], home) /\ CallOK(call[t])
  BY FlowOf
<1>2. Inserting(call[t])
  BY <1>0, <1>1, CallKinds
<1>3. call[t].rel = <<>> /\ ~ call[t].won /\ call[t].chain # <<>> /\ call[t].l \in Lists
  BY <1>0, <1>1, <1>2 DEF CallFlow, Inserting
<1>4. CASE Becomes(t, EvictFailed(t))
  <2> DEFINE c == EvictFailed(t)
  <2>1. CallFlow(c, home) /\ SpanOf(c) = {} /\ \A r : CallShare(c, r) = CallShare(call[t], r)
    BY <1>1, <1>2, <1>3, EvictFailedFlow
  <2> HIDE DEF c
  <2>2. Becomes(t, c)
    BY <1>4 DEF c
  <2> QED
    BY <1>0, <1>3, <2>1, <2>2, CallOnlyStep
<1>5. ASSUME NEW v \in Lists, Becomes(t, [At(t, "shrink") EXCEPT !.w = v]) PROVE ObjectsInv'
  <2> DEFINE c == [At(t, "shrink") EXCEPT !.w = v]
  <2>1. /\ Inserting(c) /\ c.pc = "shrink" /\ c.chain = call[t].chain /\ c.rel = <<>>
        /\ c.l = call[t].l
    BY <1>2, <1>3 DEF Inserting, At
  <2>2. Becomes(t, c)
    BY <1>5
  <2> HIDE DEF c
  <2>3. CallFlow(c, home) /\ \A r : CallShare(c, r) = CallShare(call[t], r)
    BY <1>1, <1>2, <1>3, <2>1, InsertingGoes
  <2>4. SpanOf(c) = {}
    BY <2>1 DEF SpanOf
  <2> QED
    BY <1>0, <1>3, <2>2, <2>3, <2>4, CallOnlyStep
<1> QED
  BY <1>0, <1>4, <1>5

\* What InsertRange() does to the thread's objects if all came from list l.
FromOwnList(t, l, chain) ==
    /\ call[t].pc = "idle" /\ \A s \in Spans : Count(chain, s) <= out[l][s]
    /\ out' = [out EXCEPT ![l] = [s \in Spans |-> @[s] - Count(chain, s)]]
    /\ InsertSlot(t, l, chain) \/ InsertNoSlot(t, l, chain)
    /\ UNCHANGED <<nonempty, empty, counter, home, objects, refcount>>

\* In a program of the default heap type objects reach the list they came from.
LEMMA InsertedWhereFrom ==
  ASSUME DefaultOnly, NEW t \in Threads, InsertRange(t), out \in [Lists -> [Spans -> Nat]]
  PROVE  \E l \in Lists, chain \in Chains : FromOwnList(t, l, chain)
<1>1. PICK l \in Lists, chain \in Chains : \E from \in Origins(l) :
         /\ call[t].pc = "idle" /\ \A s \in Spans : Count(chain, s) <= out[from[s]][s]
         /\ out' = [k \in Lists |-> [s \in Spans |->
                      IF from[s] = k THEN out[k][s] - Count(chain, s) ELSE out[k][s]]]
         /\ InsertSlot(t, l, chain) \/ InsertNoSlot(t, l, chain)
         /\ UNCHANGED <<nonempty, empty, counter, home, objects, refcount>>
  BY Zenon DEF InsertRange, spanVars
<1>2. PICK from \in Origins(l) :
         /\ call[t].pc = "idle" /\ \A s \in Spans : Count(chain, s) <= out[from[s]][s]
         /\ out' = [k \in Lists |-> [s \in Spans |->
                      IF from[s] = k THEN out[k][s] - Count(chain, s) ELSE out[k][s]]]
         /\ InsertSlot(t, l, chain) \/ InsertNoSlot(t, l, chain)
         /\ UNCHANGED <<nonempty, empty, counter, home, objects, refcount>>
  BY <1>1
<1>3. \A s \in Spans : from[s] = l
  <2> SUFFICES ASSUME NEW s \in Spans PROVE from[s] = l
    OBVIOUS
  <2>1. from[s] \in Lists /\ from[s][2] = l[2]
    BY DEF Origins
  <2>2. from[s] = Default(from[s][2]) /\ l = Default(l[2])
    BY <2>1 DEF DefaultOnly
  <2> QED
    BY <2>1, <2>2
<1>4. \A s \in Spans : Count(chain, s) <= out[l][s]
  BY <1>2, <1>3
<1>5. out' = [out EXCEPT ![l] = [s \in Spans |-> @[s] - Count(chain, s)]]
  <2> DEFINE taken(k) == [s \in Spans |->
                 IF from[s] = k THEN out[k][s] - Count(chain, s) ELSE out[k][s]]
  <2>1. taken(l) = [s \in Spans |-> out[l][s] - Count(chain, s)]
    BY <1>3
  <2>2. ASSUME NEW k \in Lists, k # l PROVE taken(k) = out[k]
    <3>1. taken(k) = [s \in Spans |-> out[k][s]]
      BY <1>3, <2>2
    <3> QED
      BY <3>1
  <2>3. out' = [k \in Lists |-> taken(k)]
    BY <1>2
  <2> HIDE DEF taken
  <2> QED
    BY <2>1, <2>2, <2>3
<1> QED
  BY <1>2, <1>4, <1>5 DEF FromOwnList

\* InsertRange() takes a chain from the thread.
LEMMA InsertRangeObjects ==
  ASSUME DefaultOnly, TypeOK, TypeOK', ObjectsInv, NEW t \in Threads, InsertRange(t)
  PROVE  ObjectsInv'
<1>0. out \in [Lists -> [Spans -> Nat]]
  BY DEF ObjectsInv, SpanType
<1>1. PICK l \in Lists, chain \in Chains :
         /\ call[t].pc = "idle" /\ \A s \in Spans : Count(chain, s) <= out[l][s]
         /\ out' = [out EXCEPT ![l] = [s \in Spans |-> @[s] - Count(chain, s)]]
         /\ InsertSlot(t, l, chain) \/ InsertNoSlot(t, l, chain)
         /\ UNCHANGED <<nonempty, empty, counter, home, objects, refcount>>
  BY <1>0, InsertedWhereFrom DEF FromOwnList
<1>2. chain \in Seq(Spans) /\ (Len(chain) = num_objects_to_move => chain \in Whole)
  <2>1. PICK m \in 1 .. num_objects_to_move : chain \in [1 .. m -> Spans]
    BY DEF Chains
  <2>2. m \in Nat
    BY SizesAssumption
  <2>3. Len(chain) = m /\ chain \in Seq(Spans)
    BY <2>1, <2>2
  <2> QED
    BY <2>1, <2>3 DEF Whole
<1>3. \A r : Count(chain, r) \in Nat /\ Count(<<>>, r) = 0
  BY <1>2, CountType
<1>4. SpanType /\ FlowInv /\ CallOK(call[t]) /\ out \in [Lists -> [Spans -> Nat]]
      /\ tc_slots \in [Lists -> Seq(Whole)]
  BY FlowOf DEF SpanType, TypeOK
<1>5. call[t] = Idle
  BY <1>1, <1>4, CallKinds
<1>6. /\ \A r \in Spans : out'[l][r] = out[l][r] - Count(chain, r) /\ out[l][r] \in Nat
      /\ \A k \in Lists \ {l} : out'[k] = out[k]
  BY <1>1, <1>4
<1>7. out' \in [Lists -> [Spans -> Nat]]
  <2>1. [s \in Spans |-> out[l][s] - Count(chain, s)] \in [Spans -> Nat]
    BY <1>1, <1>3, <1>6
  <2> QED
    BY <1>1, <1>4, <2>1
<1>8. \A r \in Spans : /\ ListShare(l, r) \in Nat /\ InSlots(tc_slots[l], r) \in Nat
                       /\ (ListShare(l, r) > 0 => home[r] = l) /\ CallShare(call[t], r) = 0
  BY <1>4, <1>5, ShareType, InSlotsType, IdleFlow DEF FlowInv
<1>9. \A r \in Spans : Count(chain, r) > 0 => home[r] = l
  <2> SUFFICES ASSUME NEW r \in Spans, Count(chain, r) > 0 PROVE home[r] = l
    OBVIOUS
  <2>1. ListShare(l, r) > 0
    BY <1>1, <1>3, <1>6, <1>8 DEF ListShare
  <2> QED
    BY <1>8, <2>1
<1>10. CASE InsertSlot(t, l, chain)
  <2>1. /\ UNCHANGED call /\ tc_slots' = [tc_slots EXCEPT ![l] = Append(@, chain)] /\ chain \in Whole
    BY <1>2, <1>10 DEF InsertSlot, PutSlot
  <2>2. Becomes(t, Idle)
    BY <1>5, <2>1 DEF Becomes, TypeOK
  <2>3. tc_slots'[l] = Append(tc_slots[l], chain) /\ \A k \in Lists \ {l} : tc_slots'[k] = tc_slots[k]
    BY <1>4, <2>1
  <2>4. Touches(t, l, Idle)
    BY <1>6, <2>2, <2>3 DEF Touches
  <2>5. \A r : InSlots(Append(tc_slots[l], chain), r) = InSlots(tc_slots[l], r) + Count(chain, r)
    BY <1>4, <2>1, InSlotsAppend
  <2>6. ASSUME NEW r \in Spans PROVE ListShare(l, r)' = ListShare(l, r)
    BY <1>3, <1>6, <1>8, <2>3, <2>5 DEF ListShare
  <2>7. \A r \in Spans : /\ ListShare(l, r)' + CallShare(Idle, r)
                              = ListShare(l, r) + CallShare(call[t], r)
                         /\ ListShare(l, r)' > 0 => home[r] = l
    BY <1>5, <1>8, <2>6
  <2>8. CallFlow(Idle, home) /\ SpanOf(Idle) = {}
    BY IdleFlow
  <2> QED
    BY <1>1, <1>7, <2>4, <2>7, <2>8, TransferStep
<1>11. ASSUME NEW c, Becomes(t, c), UNCHANGED tc_slots, CallFlow(c, home), SpanOf(c) = {},
              \A r : CallShare(c, r) = Count(chain, r)
       PROVE  ObjectsInv'
  <2>1. Touches(t, l, c)
    BY <1>6, <1>11 DEF Touches
  <2>2. ASSUME NEW r \in Spans
        PROVE  /\ ListShare(l, r)' + CallShare(c, r) = ListShare(l, r) + CallShare(call[t], r)
               /\ ListShare(l, r)' > 0 => home[r] = l
    <3>1. ListShare(l, r)' = ListShare(l, r) - Count(chain, r)
      BY <1>3, <1>6, <1>8, <1>11 DEF ListShare
    <3> QED
      BY <1>3, <1>8, <1>11, <3>1
  <2> QED
    BY <1>1, <1>7, <1>11, <2>1, <2>2, TransferStep
<1>12. CASE InsertNoSlot(t, l, chain)
  <2> DEFINE d == [pc |-> "evict", l |-> l, chain |-> chain, rel |-> <<>>, w |-> l,
                   force |-> FALSE, won |-> FALSE, span |-> {}]
             e == ChainToSpans(d)
  <2>1. UNCHANGED tc_slots /\ (Becomes(t, e) \/ Becomes(t, d))
    BY <1>12 DEF InsertNoSlot, Go, Becomes
  <2>2. ChainOf(d) = chain /\ RelOf(d) = <<>> /\ d.l = l /\ d.w = l /\ d.pc = "evict" /\ d.rel = <<>>
    BY DEF ChainOf, RelOf
  <2>3. ChainOf(e) = <<>> /\ RelOf(e) = chain /\ e.w = l /\ e.pc = "release"
    BY DEF ChainOf, RelOf, ChainToSpans, ToSpans
  <2> HIDE DEF d, e
  <2>4. <<>> \in Seq(Spans)
    OBVIOUS
  <2>5. /\ CallFlow(d, home) /\ SpanOf(d) = {} /\ \A r : CallShare(d, r) = Count(chain, r)
    BY <1>2, <1>3, <1>9, <2>2, <2>4 DEF CallFlow, SpanOf, CallShare
  <2>6. /\ CallFlow(e, home) /\ SpanOf(e) = {} /\ \A r : CallShare(e, r) = Count(chain, r)
    BY <1>2, <1>3, <1>9, <2>3, <2>4 DEF CallFlow, SpanOf, CallShare
  <2> QED
    BY <1>11, <2>1, <2>5, <2>6
<1> QED
  BY <1>1, <1>10, <1>12

\* ShrinkCache() moves no object, or the chain of a slot to the call.
LEMMA ShrinkCacheObjects ==
  ASSUME TypeOK, TypeOK', ObjectsInv, NEW t \in Threads, SlotInv, ShrinkCache(t)
  PROVE  ObjectsInv'
<1>0. call[t].pc = "shrink" /\ UNCHANGED <<out, nonempty, empty, counter, home, objects, refcount>>
  BY DEF ShrinkCache, spanVars
<1>1. CallFlow(call[t], home) /\ CallOK(call[t]) /\ SpanType /\ FlowInv
  BY FlowOf
<1>2. Inserting(call[t])
  BY <1>0, <1>1, CallKinds
<1>3. call[t].rel = <<>> /\ ~ call[t].won /\ call[t].chain # <<>> /\ call[t].l \in Lists
  BY <1>0, <1>1, <1>2 DEF CallFlow, Inserting
<1>4. PICK v \in Lists : v = call[t].w
  BY <1>2, InsertingFlow
<1>5. ASSUME NEW c, Becomes(t, c), UNCHANGED tc_slots, Inserting(c), c.pc = "invert",
             c.chain = call[t].chain, c.rel = call[t].rel, c.l = call[t].l
      PROVE  ObjectsInv'
  <2>1. CallFlow(c, home) /\ \A r : CallShare(c, r) = CallShare(call[t], r)
    BY <1>1, <1>2, <1>3, <1>5, InsertingGoes
  <2>2. SpanOf(c) = {}
    BY <1>5 DEF SpanOf
  <2> QED
    BY <1>0, <1>3, <1>5, <2>1, <2>2, CallOnlyStep
<1>6. CASE UNCHANGED tc_slots /\ Becomes(t, At(t, "invert"))
  <2> DEFINE c == At(t, "invert")
  <2>1. /\ Inserting(c) /\ c.pc = "invert" /\ c.chain = call[t].chain /\ c.rel = call[t].rel
        /\ c.l = call[t].l
    BY <1>2, <1>3 DEF Inserting, At
  <2>2. Becomes(t, c)
    BY <1>6
  <2> HIDE DEF c
  <2> QED
    BY <1>5, <1>6, <2>1, <2>2
<1>7. CASE UNCHANGED tc_slots /\ Becomes(t, [At(t, "invert") EXCEPT !.won = TRUE])
  <2> DEFINE c == [At(t, "invert") EXCEPT !.won = TRUE]
  <2>1. /\ Inserting(c) /\ c.pc = "invert" /\ c.chain = call[t].chain /\ c.rel = call[t].rel
        /\ c.l = call[t].l
    BY <1>2, <1>3 DEF Inserting, At
  <2>2. Becomes(t, c)
    BY <1>7
  <2> HIDE DEF c
  <2> QED
    BY <1>5, <1>7, <2>1, <2>2
<1>8. CASE /\ cache_size[v] > 0 /\ Len(tc_slots[v]) = cache_size[v]
           /\ tc_slots' = [tc_slots EXCEPT ![v] = Front(@)]
           /\ Becomes(t, [ToSpans(call[t], v, Last(tc_slots[v])) EXCEPT !.won = TRUE])
  <2> DEFINE q == tc_slots[v]
             last == Last(q)
             c == [ToSpans(call[t], v, last) EXCEPT !.won = TRUE]
  <2>1. /\ Inserting(c) /\ c.pc = "release" /\ c.chain = call[t].chain /\ c.rel = last
        /\ c.l = call[t].l /\ c.w = v
    BY <1>2, <1>3, <1>4 DEF Inserting, ToSpans
  <2>2. Becomes(t, c)
    BY <1>8
  <2> HIDE DEF c
  <2>3. q \in Seq(Whole) /\ tc_slots \in [Lists -> Seq(Whole)] /\ out \in [Lists -> [Spans -> Nat]]
    BY <1>1 DEF TypeOK, SpanType
  <2>4. q # <<>>
    <3>1. Len(q) # 0
      BY <1>8 DEF TypeOK
    <3> QED
      BY <2>3, <3>1, SlotSequence
  <2>5. \A r : /\ last \in Whole /\ InSlots(Front(q), r) \in Nat /\ Count(last, r) \in Nat
               /\ InSlots(q, r) = InSlots(Front(q), r) + Count(last, r)
    BY <2>3, <2>4, InSlotsFront
  <2>6. tc_slots'[v] = Front(q) /\ \A k \in Lists \ {v} : tc_slots'[k] = tc_slots[k]
    BY <1>8, <2>3
  <2> HIDE DEF q, last
  <2>7. Touches(t, v, c)
    BY <1>0, <2>2, <2>6 DEF Touches
  <2>8. \A r \in Spans : /\ ListShare(v, r) \in Nat /\ out[v][r] \in Nat
                         /\ (ListShare(v, r) > 0 => home[r] = v)
    BY <1>1, <2>3, ShareType DEF FlowInv
  <2>9. \A r \in Spans : ListShare(v, r)' = ListShare(v, r) - Count(last, r)
    BY <1>0, <2>5, <2>6, <2>8 DEF ListShare, q
  <2>10. \A r \in Spans : Count(last, r) > 0 => home[r] = v
    <3> SUFFICES ASSUME NEW r \in Spans, Count(last, r) > 0 PROVE home[r] = v
      OBVIOUS
    <3>1. ListShare(v, r) > 0
      BY <2>5, <2>8 DEF ListShare, q
    <3> QED
      BY <2>8, <3>1
  <2>11. last \in Seq(Spans)
    BY <2>5, SizesAssumption DEF Whole
  <2>12. /\ ChainOf(c) = ChainOf(call[t]) /\ RelOf(c) = last /\ RelOf(call[t]) = <<>>
         /\ ChainOf(call[t]) \in Seq(Spans)
    BY <1>2, <1>3, <2>1, InsertingFlow
  <2>13. CallFlow(c, home) /\ SpanOf(c) = {}
    BY <1>1, <2>1, <2>10, <2>11, <2>12 DEF CallFlow, SpanOf
  <2>14. \A r \in Spans : CallShare(c, r) = CallShare(call[t], r) + Count(last, r)
                          /\ CallShare(call[t], r) \in Nat
    <3> SUFFICES ASSUME NEW r \in Spans
                 PROVE  /\ CallShare(c, r) = CallShare(call[t], r) + Count(last, r)
                        /\ CallShare(call[t], r) \in Nat
      OBVIOUS
    <3>1. Count(ChainOf(call[t]), r) \in Nat /\ Count(<<>>, r) = 0 /\ Count(last, r) \in Nat
      BY <2>5, <2>12, CountType
    <3> QED
      BY <2>12, <3>1 DEF CallShare
  <2>15. ASSUME NEW r \in Spans
         PROVE  /\ ListShare(v, r)' + CallShare(c, r) = ListShare(v, r) + CallShare(call[t], r)
                /\ ListShare(v, r)' > 0 => home[r] = v
    <3>1. Count(last, r) \in Nat
      BY <2>5
    <3> QED
      BY <2>8, <2>9, <2>14, <3>1
  <2>16. out' \in [Lists -> [Spans -> Nat]]
    BY <1>0, <2>3
  <2> QED
    BY <1>0, <2>7, <2>13, <2>15, <2>16, TransferStep
<1>9. \/ UNCHANGED tc_slots /\ Becomes(t, At(t, "invert"))
      \/ UNCHANGED tc_slots /\ Becomes(t, [At(t, "invert") EXCEPT !.won = TRUE])
      \/ /\ cache_size[v] > 0 /\ Len(tc_slots[v]) = cache_size[v]
         /\ tc_slots' = [tc_slots EXCEPT ![v] = Front(@)]
         /\ Becomes(t, [ToSpans(call[t], v, Last(tc_slots[v])) EXCEPT !.won = TRUE])
  BY <1>4 DEF ShrinkCache, Go, Becomes
<1> QED
  BY <1>6, <1>7, <1>8, <1>9

\* MakeCacheSpace() puts the chain of the call into a slot, or moves no object.
LEMMA MakeCacheSpaceObjects ==
  ASSUME TypeOK, TypeOK', ObjectsInv, NEW t \in Threads, MakeCacheSpace(t)
  PROVE  ObjectsInv'
<1>0. call[t].pc = "invert" /\ UNCHANGED <<out, nonempty, empty, counter, home, objects, refcount>>
  BY DEF MakeCacheSpace, spanVars
<1>1. CallFlow(call[t], home) /\ CallOK(call[t]) /\ SpanType /\ FlowInv
  BY FlowOf
<1>2. Inserting(call[t])
  BY <1>0, <1>1, CallKinds
<1>3. call[t].rel = <<>> /\ call[t].chain # <<>> /\ call[t].chain \in Whole
  BY <1>0, <1>1, <1>2 DEF CallFlow, Inserting
<1>4. PICK l \in Lists : l = call[t].l
  BY <1>2, InsertingFlow
<1>5. CASE /\ tc_slots' = [tc_slots EXCEPT ![l] = Append(@, call[t].chain)]
           /\ Becomes(t, Idle)
  <2> DEFINE chain == call[t].chain
  <2>1. tc_slots \in [Lists -> Seq(Whole)] /\ out \in [Lists -> [Spans -> Nat]]
    BY <1>1 DEF TypeOK, SpanType
  <2>2. tc_slots'[l] = Append(tc_slots[l], chain) /\ \A k \in Lists \ {l} : tc_slots'[k] = tc_slots[k]
    BY <1>5, <2>1
  <2>3. /\ \A r : CallShare(call[t], r) = Count(chain, r) + Count(<<>>, r)
        /\ chain \in Seq(Spans)
    BY <1>2, <1>3, InsertingFlow
  <2>4. \A r : Count(chain, r) \in Nat /\ Count(<<>>, r) = 0
    BY <2>3, CountType
  <2>5. \A r : CallShare(call[t], r) = Count(chain, r)
    BY <2>3, <2>4
  <2>6. chain \in Whole /\ ChainOf(call[t]) = chain
    BY <1>2, <1>3, InsertingFlow
  <2>7. \A r \in Spans : Count(chain, r) > 0 => home[r] = l
    BY <1>1, <1>4, <2>6 DEF CallFlow
  <2> HIDE DEF chain
  <2>8. \A r : /\ InSlots(Append(tc_slots[l], chain), r) = InSlots(tc_slots[l], r) + Count(chain, r)
               /\ InSlots(tc_slots[l], r) \in Nat
    BY <2>1, <2>6, InSlotsAppend
  <2>9. \A r \in Spans : /\ ListShare(l, r) \in Nat /\ out[l][r] \in Nat
                         /\ (ListShare(l, r) > 0 => home[r] = l)
    BY <1>1, <2>1, ShareType DEF FlowInv
  <2>10. \A r \in Spans : ListShare(l, r)' = ListShare(l, r) + Count(chain, r)
    BY <1>0, <2>2, <2>4, <2>8, <2>9 DEF ListShare
  <2>11. Touches(t, l, Idle)
    BY <1>0, <1>5, <2>2 DEF Touches
  <2>12. CallFlow(Idle, home) /\ SpanOf(Idle) = {} /\ \A r : CallShare(Idle, r) = 0
    BY IdleFlow
  <2>13. ASSUME NEW r \in Spans
         PROVE  /\ ListShare(l, r)' + CallShare(Idle, r) = ListShare(l, r) + CallShare(call[t], r)
                /\ ListShare(l, r)' > 0 => home[r] = l
    <3>1. Count(chain, r) \in Nat /\ CallShare(Idle, r) = 0 /\ CallShare(call[t], r) = Count(chain, r)
      BY <2>4, <2>5, <2>12
    <3> QED
      BY <2>7, <2>9, <2>10, <3>1
  <2>14. out' \in [Lists -> [Spans -> Nat]]
    BY <1>0, <2>1
  <2> QED
    BY <1>0, <2>11, <2>12, <2>13, <2>14, TransferStep
<1>6. CASE call[t].won /\ UNCHANGED tc_slots /\ Becomes(t, ChainToSpans(call[t]))
  <2> DEFINE c == ChainToSpans(call[t])
  <2>1. CallFlow(c, home) /\ SpanOf(c) = {} /\ \A r : CallShare(c, r) = CallShare(call[t], r)
    BY <1>1, <1>2, <1>3, ChainToSpansFlow
  <2>2. Becomes(t, c)
    BY <1>6
  <2> HIDE DEF c
  <2> QED
    BY <1>0, <1>6, <2>1, <2>2, CallOnlyStep
<1>7. CASE ~ call[t].won /\ UNCHANGED tc_slots /\ Becomes(t, EvictFailed(t))
  <2> DEFINE c == EvictFailed(t)
  <2>1. CallFlow(c, home) /\ SpanOf(c) = {} /\ \A r : CallShare(c, r) = CallShare(call[t], r)
    BY <1>1, <1>2, <1>3, <1>7, EvictFailedFlow
  <2>2. Becomes(t, c)
    BY <1>7
  <2> HIDE DEF c
  <2> QED
    BY <1>0, <1>7, <2>1, <2>2, CallOnlyStep
<1>8. \/ tc_slots' = [tc_slots EXCEPT ![l] = Append(@, call[t].chain)] /\ Becomes(t, Idle)
      \/ call[t].won /\ UNCHANGED tc_slots /\ Becomes(t, ChainToSpans(call[t]))
      \/ ~ call[t].won /\ UNCHANGED tc_slots /\ Becomes(t, EvictFailed(t))
  BY <1>4 DEF MakeCacheSpace, PutSlot, Go, Becomes
<1> QED
  BY <1>5, <1>6, <1>7, <1>8

\* The lock is taken again for the next object.
LEMMA RelockObjects ==
  ASSUME TypeOK, TypeOK', ObjectsInv, NEW t \in Threads, Relock(t)
  PROVE  ObjectsInv'
<1> DEFINE c == At(t, "release")
<1>0. /\ call[t].pc = "relock" /\ Becomes(t, c)
      /\ UNCHANGED <<out, tc_slots, nonempty, empty, counter, home, objects, refcount>>
  BY DEF Relock, Go, Becomes, spanVars, listVars
<1>1. CallFlow(call[t], home) /\ CallOK(call[t])
  BY FlowOf
<1>2. Inserting(call[t]) /\ call[t].l \in Lists
  BY <1>0, <1>1, CallKinds, InsertingFlow
<1>3. /\ Inserting(c) /\ c.pc = "release" /\ c.l = call[t].l /\ c.chain = call[t].chain
      /\ c.rel = call[t].rel /\ c.w = call[t].w
  BY <1>2 DEF Inserting, At
<1> HIDE DEF c
<1>4. CallFlow(c, home) /\ \A r : CallShare(c, r) = CallShare(call[t], r)
  BY <1>1, <1>2, <1>3, InsertingGoes
<1>5. SpanOf(c) = {}
  BY <1>3 DEF SpanOf
<1> QED
  BY <1>0, <1>2, <1>4, <1>5, CallOnlyStep

\* All objects are back.
LEMMA FinishReleaseObjects ==
  ASSUME TypeOK, TypeOK', ObjectsInv, NEW t \in Threads, FinishRelease(t)
  PROVE  ObjectsInv'
<1>0. /\ call[t].pc = "release" /\ call[t].rel = <<>>
      /\ Becomes(t, IF call[t].chain = <<>> THEN Idle ELSE At(t, "invert"))
      /\ UNCHANGED <<out, tc_slots, nonempty, empty, counter, home, objects, refcount>>
  BY DEF FinishRelease, Go, Becomes, spanVars, listVars
<1>1. CallFlow(call[t], home) /\ CallOK(call[t])
  BY FlowOf
<1>2. Inserting(call[t]) /\ call[t].l \in Lists
  BY <1>0, <1>1, CallKinds, InsertingFlow
<1>3. CASE call[t].chain = <<>>
  <2>1. Becomes(t, Idle)
    BY <1>0, <1>3
  <2>2. <<>> \in Seq(Spans)
    OBVIOUS
  <2>3. \A r : Count(<<>>, r) = 0
    BY <2>2, CountType
  <2>4. \A r : CallShare(call[t], r) = CallShare(Idle, r)
    BY <1>0, <1>2, <1>3, <2>3, InsertingFlow, IdleFlow
  <2>5. CallFlow(Idle, home) /\ SpanOf(Idle) = {}
    BY IdleFlow
  <2> QED
    BY <1>0, <1>2, <2>1, <2>4, <2>5, CallOnlyStep
<1>4. CASE call[t].chain # <<>>
  <2> DEFINE c == At(t, "invert")
  <2>1. /\ Inserting(c) /\ c.pc = "invert" /\ c.chain = call[t].chain /\ c.rel = call[t].rel
        /\ c.l = call[t].l
    BY <1>2, <1>4 DEF Inserting, At
  <2>2. Becomes(t, c)
    BY <1>0, <1>4
  <2> HIDE DEF c
  <2>3. CallFlow(c, home) /\ \A r : CallShare(c, r) = CallShare(call[t], r)
    BY <1>0, <1>1, <1>2, <2>1, InsertingGoes
  <2>4. SpanOf(c) = {}
    BY <2>1 DEF SpanOf
  <2> QED
    BY <1>0, <1>2, <2>2, <2>3, <2>4, CallOnlyStep
<1> QED
  BY <1>3, <1>4

\* A step that moves spans of its own, or takes objects from a span or gives some
\* back, and counts them.
LEMMA SpanStep ==
  ASSUME TypeOK, TypeOK', ObjectsInv, SpanType', NEW t \in Threads, NEW l \in Lists, NEW c,
         Becomes(t, c), UNCHANGED <<out, tc_slots>>,
         \A r \in Spans : home'[r] # home[r] => Alone(t, r),
         CallFlow(c, home'), InTransit(c, home', objects', refcount'),
         \A u \in Threads \ {t} :
            /\ SpanOf(c) \cap SpanOf(call[u]) = {}
            /\ \A r \in SpanOf(call[u]) : objects'[r] = objects[r] /\ refcount'[r] = refcount[r],
         \A r \in Spans : home'[r] \in Lists =>
            /\ Balanced(r) /\ refcount'[r] + objects'[r] = refcount[r] + objects[r]
            /\ refcount'[r] + CallShare(call[t], r) = refcount[r] + CallShare(c, r),
         ListsAgree'
  PROVE  ObjectsInv'
<1>1. SpanType /\ FlowInv /\ Balance /\ ListsAgree
  BY DEF ObjectsInv
<1>2. Touches(t, l, c)
  BY DEF Touches
<1>3. \A r : ListShare(l, r)' = ListShare(l, r)
  BY DEF ListShare
<1>4. \A r \in Spans : ListShare(l, r)' > 0 => home'[r] = l
  BY <1>1, <1>3 DEF FlowInv, Alone
<1>5. FlowInv'
  BY <1>1, <1>2, <1>4, FlowStep
<1>6. \A r \in Spans : home'[r] \in Lists =>
         /\ Balanced(r) /\ refcount'[r] + objects'[r] = refcount[r] + objects[r]
         /\ refcount'[r] + ListShare(l, r) + CallShare(call[t], r)
              = refcount[r] + ListShare(l, r)' + CallShare(c, r)
  <2> SUFFICES ASSUME NEW r \in Spans, home'[r] \in Lists
               PROVE  /\ Balanced(r) /\ refcount'[r] + objects'[r] = refcount[r] + objects[r]
                      /\ refcount'[r] + ListShare(l, r) + CallShare(call[t], r)
                           = refcount[r] + ListShare(l, r)' + CallShare(c, r)
    OBVIOUS
  <2>1. /\ ListShare(l, r) \in Nat /\ CallShare(call[t], r) \in Nat /\ CallShare(c, r) \in Nat
    BY <1>1, <1>2, <1>5, OutsideStep
  <2>2. refcount[r] \in Nat /\ refcount'[r] \in Nat
    BY <1>1 DEF SpanType
  <2>3. refcount'[r] + CallShare(call[t], r) = refcount[r] + CallShare(c, r)
    OBVIOUS
  <2>4. refcount'[r] + ListShare(l, r) + CallShare(call[t], r)
          = refcount[r] + ListShare(l, r)' + CallShare(c, r)
    BY <1>3, <2>1, <2>2, <2>3
  <2> QED
    BY <2>4
<1>7. Balance'
  BY <1>1, <1>2, <1>5, <1>6, BalanceStep
<1> QED
  BY <1>5, <1>7 DEF ObjectsInv

\* A call's objects are for the same lists if the spans that move have none in it.
LEMMA FlowHome ==
  ASSUME NEW h1, NEW h2, NEW c, CallFlow(c, h1),
         \A r \in Spans : h2[r] # h1[r] => CallShare(c, r) = 0
  PROVE  CallFlow(c, h2)
<1>1. \A r \in Spans : Count(ChainOf(c), r) \in Nat /\ Count(RelOf(c), r) \in Nat
  BY CountType DEF CallFlow
<1>2. \A r \in Spans : h2[r] # h1[r] => Count(ChainOf(c), r) = 0 /\ Count(RelOf(c), r) = 0
  BY <1>1 DEF CallShare
<1> QED
  BY <1>2 DEF CallFlow

\* The spans that calls carry.
LEMMA Carried ==
  ASSUME FlowInv
  PROVE  /\ \A u \in Threads : \A r \in SpanOf(call[u]) : r \in Spans /\ home[r] = Taken
         /\ \A t, u \in Threads : t # u => SpanOf(call[t]) \cap SpanOf(call[u]) = {}
         /\ Taken \notin Lists /\ Heap \notin Lists /\ Heap # Taken
<1>1. Heap # Taken
  <2>1. Len(Heap) = 1 /\ Len(Taken) = 3
    BY DEF Heap, Taken
  <2> QED
    BY <2>1
<1> QED
  BY <1>1, ListsAssumption DEF FlowInv, InTransit

\* FetchFromOneSpans(): objects of the first span go to the call.
LEMMA FetchObjects ==
  ASSUME TypeOK, TypeOK', ObjectsInv, NEW t \in Threads, FetchFromOneSpans(t)
  PROVE  ObjectsInv'
<1>1. CallFlow(call[t], home) /\ CallOK(call[t]) /\ SpanType /\ FlowInv /\ Balance /\ ListsAgree
  BY FlowOf
<1>2. call[t].pc = "fetch"
  BY Zenon DEF FetchFromOneSpans
<1>3. Removing(call[t])
  BY <1>1, <1>2, CallKinds
<1>4. PICK l \in Lists : l = call[t].l
  BY <1>3, RemovingFlow
<1> DEFINE q == nonempty[l]
           chain == call[t].chain
<1>5. q # <<>> /\ Len(chain) < call[t].n
  BY <1>4, Zenon DEF FetchFromOneSpans
<1>6. q \in Seq(Spans) /\ Listed(l, q, empty[l], home, objects)
  BY <1>1, ListsAgreeIs DEF SpanType
<1>7. IsInjective(q)
  BY <1>6 DEF Listed
<1>8. PICK s \in Spans : s = Head(q) /\ s \in ToSet(q) /\ IsWithout(Tail(q), q, s)
  BY <1>5, <1>6, <1>7, TailList
<1>9. home[s] = l /\ objects[s] > 0 /\ objects[s] \in Nat /\ s \notin empty[l]
  BY <1>1, <1>6, <1>8 DEF Listed, SpanType
<1>10. chain \in Seq(Spans) /\ ChainOf(call[t]) = chain /\ Len(chain) \in Nat
  <2>1. chain \in Seq(Spans) /\ ChainOf(call[t]) = chain
    BY <1>1, <1>3, RemovingFlow DEF CallFlow
  <2> QED
    BY <2>1, LenProperties
<1>11. call[t].n \in Nat
  BY <1>1, <1>2 DEF CallFlow
<1>12. PICK n \in Nat : n = Min({call[t].n - Len(chain), objects[s]}) /\ 0 < n /\ n <= objects[s]
  <2> DEFINE a == call[t].n - Len(chain)
             b == objects[s]
  <2>1. a \in Int /\ b \in Int /\ a > 0 /\ b > 0
    <3> DEFINE x == call[t].n
               y == Len(chain)
    <3>1. x \in Nat /\ y \in Nat /\ y < x
      BY <1>5, <1>10, <1>11
    <3> HIDE DEF x, y
    <3>2. x - y \in Int /\ x - y > 0
      BY <3>1
    <3> QED
      BY <1>9, <3>2 DEF x, y
  <2> HIDE DEF a, b
  <2>2. Min({a, b}) \in {a, b} /\ Min({a, b}) <= a /\ Min({a, b}) <= b
    BY <2>1, MinOfTwo
  <2>3. Min({a, b}) \in Nat /\ 0 < Min({a, b}) /\ Min({a, b}) <= b
    BY <2>1, <2>2
  <2> QED
    BY <2>3 DEF a, b
<1> DEFINE fill == [i \in 1 .. n |-> s]
           c == [call[t] EXCEPT !.chain = fill \o @]
<1>13. /\ objects' = [objects EXCEPT ![s] = @ - n]
       /\ refcount' = [refcount EXCEPT ![s] = @ + n]
       /\ counter' = [counter EXCEPT ![l] = @ - n]
       /\ objects[s] = n => /\ nonempty' = [nonempty EXCEPT ![l] = Tail(@)]
                            /\ empty' = [empty EXCEPT ![l] = @ \cup {s}]
       /\ objects[s] # n => UNCHANGED <<nonempty, empty>>
       /\ call' = [call EXCEPT ![t].chain = fill \o @]
       /\ UNCHANGED <<lock, cache_size, tc_slots, home, out>>
  BY <1>4, <1>8, <1>12, Zenon DEF FetchFromOneSpans
<1>14. Becomes(t, c)
  BY <1>13 DEF Becomes, TypeOK
<1>15. /\ Removing(c) /\ c.pc = "fetch" /\ c.l = l /\ c.chain = fill \o chain
       /\ c.n = call[t].n /\ c.span = call[t].span
  BY <1>2, <1>3, <1>4 DEF Removing
<1>16. /\ fill \o chain \in Seq(Spans)
       /\ \A r : Count(fill \o chain, r) = Count(chain, r) + IF r = s THEN n ELSE 0
  BY <1>10, CountPrepend
<1>17. \A r : Count(chain, r) \in Nat /\ Count(<<>>, r) = 0
  BY <1>10, CountType
<1> HIDE DEF fill, c, q
<1>18. /\ ChainOf(c) = fill \o chain /\ RelOf(c) = <<>>
       /\ \A r : CallShare(c, r) = Count(fill \o chain, r)
       /\ \A r : CallShare(call[t], r) = Count(chain, r)
  BY <1>3, <1>10, <1>15, <1>16, RemovingFlow
<1> HIDE DEF chain
<1>19. CallFlow(c, home')
  <2>1. \A r \in Spans : Count(ChainOf(c), r) > 0 => home'[r] = c.l
    <3> SUFFICES ASSUME NEW r \in Spans, Count(ChainOf(c), r) > 0 PROVE home[r] = l
      BY <1>13, <1>15
    <3>1. CASE r = s
      BY <1>9, <3>1
    <3>2. CASE r # s
      <4>1. Count(chain, r) > 0
        BY <1>16, <1>17, <1>18, <3>2
      <4> QED
        BY <1>1, <1>4, <1>10, <4>1 DEF CallFlow
    <3> QED
      BY <3>1, <3>2
  <2>2. c.n \in Nat /\ c.span = {}
    BY <1>1, <1>2, <1>11, <1>15 DEF CallFlow
  <2>3. <<>> \in Seq(Spans)
    OBVIOUS
  <2> QED
    BY <1>15, <1>16, <1>17, <1>18, <2>1, <2>2, <2>3 DEF CallFlow
<1>20. SpanOf(c) = {} /\ InTransit(c, home', objects', refcount')
  BY <1>15 DEF SpanOf, InTransit
<1>21. /\ objects'[s] = objects[s] - n /\ refcount'[s] = refcount[s] + n /\ counter'[l] = counter[l] - n
       /\ \A r \in Spans \ {s} : objects'[r] = objects[r] /\ refcount'[r] = refcount[r]
       /\ refcount[s] \in Nat /\ counter[l] \in Int
  BY <1>1, <1>13 DEF SpanType
<1>22. \A k \in Lists \ {l} : /\ nonempty'[k] = nonempty[k] /\ empty'[k] = empty[k]
                              /\ counter'[k] = counter[k]
  BY <1>1, <1>13 DEF SpanType
<1>23. nonempty' \in [Lists -> Seq(Spans)] /\ empty' \in [Lists -> SUBSET Spans]
       /\ Listed(l, nonempty'[l], empty'[l], home', objects')
  <2>1. CASE objects[s] = n
    <3>1. nonempty'[l] = Tail(q) /\ empty'[l] = empty[l] \cup {s}
      BY <1>1, <1>13, <2>1 DEF SpanType, q
    <3>2. Tail(q) \in Seq(Spans) /\ IsInjective(Tail(q)) /\ ToSet(Tail(q)) = ToSet(q) \ {s}
      BY <1>8 DEF IsWithout
    <3>3. nonempty' \in [Lists -> Seq(Spans)] /\ empty' \in [Lists -> SUBSET Spans]
      <4>1. nonempty' = [nonempty EXCEPT ![l] = Tail(q)] /\ empty' = [empty EXCEPT ![l] = @ \cup {s}]
        BY <1>13, <2>1 DEF q
      <4>2. nonempty \in [Lists -> Seq(Spans)] /\ empty \in [Lists -> SUBSET Spans]
        BY <1>1 DEF SpanType
      <4>3. nonempty' \in [Lists -> Seq(Spans)]
        BY <3>2, <4>1, <4>2
      <4>4. empty' \in [Lists -> SUBSET Spans]
        BY <4>1, <4>2
      <4> QED
        BY <4>3, <4>4
    <3>4. objects'[s] = 0
      BY <1>9, <1>21, <2>1
    <3>5. ToSet(q) \subseteq Spans /\ empty[l] \subseteq Spans
      BY <1>1, ListElements DEF q
    <3>6. \A r \in Spans : (home'[r] = l) <=> (r \in ToSet(Tail(q)) \cup (empty[l] \cup {s}))
      BY <1>6, <1>8, <1>9, <1>13, <3>2 DEF Listed
    <3>7. \A r \in ToSet(Tail(q)) : objects'[r] > 0
      BY <1>6, <1>21, <3>2, <3>5 DEF Listed
    <3>8. \A r \in empty[l] \cup {s} : objects'[r] = 0
      BY <1>6, <1>21, <3>4, <3>5 DEF Listed
    <3> QED
      BY <3>1, <3>2, <3>3, <3>6, <3>7, <3>8 DEF Listed
  <2>2. CASE objects[s] # n
    <3>1. nonempty'[l] = q /\ empty'[l] = empty[l]
      BY <1>13, <2>2 DEF q
    <3>2. nonempty' \in [Lists -> Seq(Spans)] /\ empty' \in [Lists -> SUBSET Spans]
      BY <1>1, <1>13, <2>2 DEF SpanType
    <3>3. objects'[s] > 0
      BY <1>9, <1>12, <1>21, <2>2
    <3>4. ToSet(q) \subseteq Spans /\ empty[l] \subseteq Spans
      BY <1>1, ListElements DEF q
    <3>5. \A r \in ToSet(q) : objects'[r] > 0
      BY <1>6, <1>21, <3>3, <3>4 DEF Listed
    <3>6. \A r \in empty[l] : objects'[r] = 0
      BY <1>6, <1>9, <1>21, <3>4 DEF Listed
    <3> QED
      BY <1>6, <1>13, <3>1, <3>2, <3>5, <3>6 DEF Listed
  <2> QED
    BY <2>1, <2>2
<1>24. SpanType'
  <2>1. objects' \in [Spans -> Nat] /\ refcount' \in [Spans -> Nat]
    <3>1. objects[s] - n \in Nat /\ refcount[s] + n \in Nat
      BY <1>9, <1>12, <1>21
    <3> QED
      BY <1>1, <1>13, <3>1 DEF SpanType
  <2>2. counter' \in [Lists -> Int]
    <3>1. counter \in [Lists -> Int]
      BY <1>1 DEF SpanType
    <3>2. ASSUME NEW k \in Lists PROVE counter[k] - n \in Int
      BY <1>21, <3>1
    <3> QED
      BY <1>13, <3>1, <3>2
  <2> QED
    BY <1>1, <1>13, <1>23, <2>1, <2>2 DEF SpanType
<1>25. ListsAgree'
  <2>1. Free(l, home, objects)[s] = objects[s] /\ Free(l, home', objects')[s] = objects[s] - n
    BY <1>9, <1>13, <1>21 DEF Free
  <2>2. counter'[l] + Free(l, home, objects)[s] = counter[l] + Free(l, home', objects')[s]
    BY <1>9, <1>21, <2>1
  <2>3. \A r \in Spans \ {s} : home'[r] = home[r] /\ objects'[r] = objects[r]
    BY <1>13, <1>21
  <2>4. home[s] \notin Lists \ {l} /\ home'[s] \notin Lists \ {l}
    BY <1>9, <1>13
  <2> QED
    BY <1>1, <1>22, <1>23, <1>24, <2>2, <2>3, <2>4, ListsStep
<1>26. ASSUME NEW r \in Spans, home'[r] \in Lists
       PROVE  /\ Balanced(r) /\ refcount'[r] + objects'[r] = refcount[r] + objects[r]
              /\ refcount'[r] + CallShare(call[t], r) = refcount[r] + CallShare(c, r)
  <2>1. Balanced(r)
    BY <1>1, <1>13, <1>26 DEF Balance
  <2>2. CASE r = s
    <3>1. CallShare(c, s) = CallShare(call[t], s) + n /\ CallShare(call[t], s) \in Nat
      BY <1>16, <1>17, <1>18
    <3> QED
      BY <1>9, <1>21, <2>1, <2>2, <3>1
  <2>3. CASE r # s
    <3>1. CallShare(c, r) = CallShare(call[t], r) /\ CallShare(call[t], r) \in Nat
      BY <1>16, <1>17, <1>18, <2>3
    <3> QED
      BY <1>21, <2>1, <2>3, <3>1
  <2> QED
    BY <2>2, <2>3
<1>27. \A u \in Threads \ {t} :
          /\ SpanOf(c) \cap SpanOf(call[u]) = {}
          /\ \A r \in SpanOf(call[u]) : objects'[r] = objects[r] /\ refcount'[r] = refcount[r]
  BY <1>1, <1>9, <1>20, <1>21, Carried
<1>28. UNCHANGED <<out, tc_slots>> /\ \A r \in Spans : home'[r] # home[r] => Alone(t, r)
  BY <1>13
<1> QED
  BY <1>14, <1>19, <1>20, <1>24, <1>25, <1>26, <1>27, <1>28, SpanStep

\* NewSpan() takes a span from the page heap, or finds none.
LEMMA NewSpanObjects ==
  ASSUME TypeOK, TypeOK', ObjectsInv, NEW t \in Threads, NewSpan(t)
  PROVE  ObjectsInv'
<1>1. CallFlow(call[t], home) /\ CallOK(call[t]) /\ SpanType /\ FlowInv /\ Balance /\ ListsAgree
  BY FlowOf
<1>2. call[t].pc = "populate" /\ UNCHANGED <<out, tc_slots, nonempty, empty, counter>>
  BY DEF NewSpan, listVars
<1>3. Removing(call[t])
  BY <1>1, <1>2, CallKinds
<1>4. PICK l \in Lists : l = call[t].l
  BY <1>3, RemovingFlow
<1>5. call[t].n \in Nat /\ call[t].span = {}
  BY <1>1, <1>2 DEF CallFlow
<1>6. ASSUME NEW c, Removing(c), c.pc = "link", c.l = call[t].l, c.chain = call[t].chain,
             c.n = call[t].n
      PROVE  CallFlow(c, home) /\ \A r : CallShare(c, r) = CallShare(call[t], r)
  <2>1. ChainOf(c) = ChainOf(call[t]) /\ RelOf(c) = RelOf(call[t]) /\ RelOf(c) = <<>>
    BY <1>3, <1>6, RemovingFlow
  <2>2. GoesOn(call[t], c)
    BY <1>5, <1>6, <2>1 DEF GoesOn
  <2> QED
    BY <1>1, <2>2, FlowGoes
<1>7. CASE Becomes(t, At(t, "link")) /\ UNCHANGED <<home, objects, refcount>>
  <2> DEFINE c == At(t, "link")
  <2>1. /\ Removing(c) /\ c.pc = "link" /\ c.l = call[t].l /\ c.chain = call[t].chain
        /\ c.n = call[t].n /\ c.span = call[t].span
    BY <1>3 DEF Removing, At
  <2>2. Becomes(t, c)
    BY <1>7
  <2> HIDE DEF c
  <2>3. CallFlow(c, home) /\ \A r : CallShare(c, r) = CallShare(call[t], r)
    BY <1>6, <2>1
  <2>4. SpanOf(c) = {}
    BY <1>5, <2>1 DEF SpanOf
  <2> QED
    BY <1>2, <1>7, <2>2, <2>3, <2>4, CallOnlyStep
<1>8. ASSUME NEW s \in Spans, home[s] = Heap, home' = [home EXCEPT ![s] = Taken],
             objects' = [objects EXCEPT ![s] = ObjectsPerSpan],
             refcount' = [refcount EXCEPT ![s] = 0],
             Becomes(t, [At(t, "link") EXCEPT !.span = {s}])
      PROVE  ObjectsInv'
  <2> DEFINE c == [At(t, "link") EXCEPT !.span = {s}]
  <2>1. /\ Removing(c) /\ c.pc = "link" /\ c.l = call[t].l /\ c.chain = call[t].chain
        /\ c.n = call[t].n /\ c.span = {s}
    BY <1>3 DEF Removing, At
  <2>2. Becomes(t, c)
    BY <1>8
  <2> HIDE DEF c
  <2>3. CallFlow(c, home) /\ \A r : CallShare(c, r) = CallShare(call[t], r)
    BY <1>6, <2>1
  <2>4. /\ \A u \in Threads : \A r \in SpanOf(call[u]) : r \in Spans /\ home[r] = Taken
        /\ Taken \notin Lists /\ Heap \notin Lists /\ Heap # Taken
    BY <1>1, Carried
  <2>5. /\ \A k \in Lists : ListShare(k, s) = 0
        /\ \A u \in Threads : CallShare(call[u], s) = 0
    BY <1>1, <1>8, <2>4, OutsideNone
  <2>6. \A u \in Threads : s \notin SpanOf(call[u])
    BY <1>8, <2>4
  <2>7. Alone(t, s)
    BY <2>5, <2>6 DEF Alone
  <2>8. /\ home'[s] = Taken /\ objects'[s] = ObjectsPerSpan /\ refcount'[s] = 0
        /\ \A r \in Spans \ {s} : /\ home'[r] = home[r] /\ objects'[r] = objects[r]
                                  /\ refcount'[r] = refcount[r]
    BY <1>1, <1>8 DEF SpanType
  <2>9. \A r \in Spans : home'[r] # home[r] => Alone(t, r) /\ CallShare(c, r) = 0
    BY <2>3, <2>5, <2>7, <2>8
  <2>10. CallFlow(c, home')
    BY <2>3, <2>9, FlowHome
  <2>11. SpanOf(c) = {s} /\ InTransit(c, home', objects', refcount')
    BY <2>1, <2>8 DEF SpanOf, InTransit
  <2>12. \A u \in Threads \ {t} :
            /\ SpanOf(c) \cap SpanOf(call[u]) = {}
            /\ \A r \in SpanOf(call[u]) : objects'[r] = objects[r] /\ refcount'[r] = refcount[r]
    BY <2>4, <2>6, <2>8, <2>11
  <2>13. SpanType'
    <3>1. ObjectsPerSpan \in Nat
      BY SizesAssumption
    <3>2. home' \in [Spans -> Lists \cup {Heap, Taken}]
      BY <1>1, <1>8 DEF SpanType
    <3>3. objects' \in [Spans -> Nat] /\ refcount' \in [Spans -> Nat]
      BY <1>1, <1>8, <3>1 DEF SpanType
    <3> QED
      BY <1>1, <1>2, <3>2, <3>3 DEF SpanType
  <2>14. \A r \in Spans : \/ home'[r] = home[r] /\ objects'[r] = objects[r]
                          \/ home[r] \notin Lists /\ home'[r] \notin Lists
    BY <1>8, <2>4, <2>8
  <2>15. ListsAgree'
    BY <1>1, <1>2, <2>13, <2>14, ListsQuiet
  <2>16. ASSUME NEW r \in Spans, home'[r] \in Lists
         PROVE  /\ Balanced(r) /\ refcount'[r] + objects'[r] = refcount[r] + objects[r]
                /\ refcount'[r] + CallShare(call[t], r) = refcount[r] + CallShare(c, r)
    <3>1. r # s
      BY <2>4, <2>8, <2>16
    <3> QED
      BY <1>1, <2>3, <2>8, <2>16, <3>1 DEF Balance
  <2> QED
    BY <1>2, <2>2, <2>9, <2>10, <2>11, <2>12, <2>13, <2>15, <2>16, SpanStep
<1>9. \/ Becomes(t, At(t, "link")) /\ UNCHANGED <<home, objects, refcount>>
      \/ \E s \in Spans :
           /\ home[s] = Heap /\ home' = [home EXCEPT ![s] = Taken]
           /\ objects' = [objects EXCEPT ![s] = ObjectsPerSpan]
           /\ refcount' = [refcount EXCEPT ![s] = 0]
           /\ Becomes(t, [At(t, "link") EXCEPT !.span = {s}])
  BY DEF NewSpan, Go, Becomes, spanVars
<1> QED
  BY <1>7, <1>8, <1>9

\* The new span is linked into nonempty_.
LEMMA LinkSpanObjects ==
  ASSUME TypeOK, TypeOK', ObjectsInv, NEW t \in Threads, LinkSpan(t)
  PROVE  ObjectsInv'
<1> DEFINE c == [At(t, "fetch") EXCEPT !.span = {}]
<1>1. /\ CallFlow(call[t], home) /\ CallOK(call[t]) /\ SpanType /\ FlowInv /\ Balance /\ ListsAgree
      /\ InTransit(call[t], home, objects, refcount)
  BY FlowOf
<1>2. /\ call[t].pc = "link" /\ UNCHANGED <<out, tc_slots, empty, objects, refcount>>
      /\ Becomes(t, c)
  BY DEF LinkSpan, Go, Becomes
<1>3. Removing(call[t])
  BY <1>1, <1>2, CallKinds
<1>4. PICK l \in Lists : l = call[t].l
  BY <1>3, RemovingFlow
<1>5. /\ Removing(c) /\ c.pc = "fetch" /\ c.l = call[t].l /\ c.chain = call[t].chain
      /\ c.n = call[t].n /\ c.span = {}
  BY <1>3 DEF Removing, At
<1> HIDE DEF c
<1>6. CallFlow(c, home) /\ \A r : CallShare(c, r) = CallShare(call[t], r)
  <2>1. ChainOf(c) = ChainOf(call[t]) /\ RelOf(c) = RelOf(call[t]) /\ RelOf(c) = <<>>
    BY <1>3, <1>5, RemovingFlow
  <2>2. GoesOn(call[t], c)
    BY <1>1, <1>2, <1>5, <2>1 DEF GoesOn, CallFlow
  <2> QED
    BY <1>1, <2>2, FlowGoes
<1>7. SpanOf(c) = {} /\ SpanOf(call[t]) = call[t].span
  BY <1>2, <1>5 DEF SpanOf
<1>8. CASE UNCHANGED <<nonempty, counter, home>>
  BY <1>2, <1>4, <1>6, <1>7, <1>8, CallOnlyStep
<1>9. ASSUME NEW s \in call[t].span,
             nonempty' = [nonempty EXCEPT ![l] = <<s>> \o @],
             counter' = [counter EXCEPT ![l] = @ + ObjectsPerSpan],
             home' = [home EXCEPT ![s] = l]
      PROVE  ObjectsInv'
  <2>1. /\ \A u \in Threads : \A r \in SpanOf(call[u]) : r \in Spans /\ home[r] = Taken
        /\ \A u \in Threads \ {t} : SpanOf(call[t]) \cap SpanOf(call[u]) = {}
        /\ Taken \notin Lists
    BY <1>1, Carried
  <2>2. s \in Spans /\ home[s] = Taken /\ objects[s] = ObjectsPerSpan /\ refcount[s] = 0
    BY <1>1, <1>2, <1>7, <1>9, <2>1 DEF InTransit
  <2>3. /\ Outside(s) = 0 /\ \A k \in Lists : ListShare(k, s) = 0
        /\ \A u \in Threads : CallShare(call[u], s) = 0
    BY <1>1, <2>1, <2>2, OutsideNone
  <2>4. Alone(t, s)
    BY <1>7, <1>9, <2>1, <2>3 DEF Alone
  <2>5. home'[s] = l /\ \A r \in Spans \ {s} : home'[r] = home[r]
    BY <1>1, <1>9, <2>2 DEF SpanType
  <2>6. \A r \in Spans : home'[r] # home[r] => Alone(t, r) /\ CallShare(c, r) = 0
    BY <1>6, <2>3, <2>4, <2>5
  <2>7. CallFlow(c, home')
    BY <1>6, <2>6, FlowHome
  <2>8. InTransit(c, home', objects', refcount')
    BY <1>5, <1>7 DEF InTransit
  <2> DEFINE q == nonempty[l]
             d == <<s>> \o q
  <2>9. q \in Seq(Spans) /\ Listed(l, q, empty[l], home, objects) /\ counter[l] \in Int
    BY <1>1, ListsAgreeIs DEF SpanType
  <2>10. s \notin ToSet(q) /\ s \notin empty[l] /\ IsInjective(q)
    BY <2>1, <2>2, <2>9 DEF Listed
  <2>11. IsWith(d, q, s)
    BY <2>2, <2>9, <2>10, PrependList
  <2>12. /\ nonempty'[l] = d /\ counter'[l] = counter[l] + ObjectsPerSpan
         /\ nonempty' = [nonempty EXCEPT ![l] = d]
         /\ \A k \in Lists \ {l} : nonempty'[k] = nonempty[k] /\ counter'[k] = counter[k]
    BY <1>1, <1>9 DEF SpanType
  <2> HIDE DEF q, d
  <2>13. d \in Seq(Spans) /\ IsInjective(d) /\ ToSet(d) = ToSet(q) \cup {s}
    BY <2>11 DEF IsWith
  <2>14. ObjectsPerSpan \in Nat /\ ObjectsPerSpan > 0
    BY SizesAssumption
  <2>15. SpanType'
    <3>1. home' \in [Spans -> Lists \cup {Heap, Taken}]
      BY <1>1, <1>9 DEF SpanType
    <3>2. nonempty' \in [Lists -> Seq(Spans)]
      BY <1>1, <2>12, <2>13 DEF SpanType
    <3>3. counter' \in [Lists -> Int]
      BY <1>1, <1>9, <2>14 DEF SpanType
    <3> QED
      BY <1>1, <1>2, <3>1, <3>2, <3>3 DEF SpanType
  <2>16. Listed(l, nonempty'[l], empty'[l], home', objects')
    <3>1. \A r \in Spans : (home'[r] = l) <=> (r \in ToSet(d) \cup empty[l])
      BY <2>5, <2>9, <2>13 DEF Listed
    <3>2. \A r \in ToSet(d) : objects[r] > 0
      BY <2>2, <2>9, <2>13, <2>14 DEF Listed
    <3>3. \A r \in empty[l] : objects[r] = 0
      BY <2>9 DEF Listed
    <3> QED
      BY <1>2, <2>12, <2>13, <3>1, <3>2, <3>3 DEF Listed
  <2>17. counter'[l] + Free(l, home, objects)[s] = counter[l] + Free(l, home', objects')[s]
    <3>1. Free(l, home, objects)[s] = 0 /\ Free(l, home', objects')[s] = ObjectsPerSpan
      BY <1>2, <2>1, <2>2, <2>5 DEF Free
    <3> QED
      BY <2>9, <2>12, <2>14, <3>1
  <2>18. ListsAgree'
    <3>1. \A k \in Lists \ {l} : /\ nonempty'[k] = nonempty[k] /\ empty'[k] = empty[k]
                                 /\ counter'[k] = counter[k]
      BY <1>2, <2>12
    <3>2. \A r \in Spans \ {s} : home'[r] = home[r] /\ objects'[r] = objects[r]
      BY <1>2, <2>5
    <3>3. home[s] \notin Lists \ {l} /\ home'[s] \notin Lists \ {l}
      BY <2>1, <2>2, <2>5
    <3> QED
      BY <1>1, <2>2, <2>15, <2>16, <2>17, <3>1, <3>2, <3>3, ListsStep
  <2>19. ASSUME NEW r \in Spans, home'[r] \in Lists
         PROVE  /\ Balanced(r) /\ refcount'[r] + objects'[r] = refcount[r] + objects[r]
                /\ refcount'[r] + CallShare(call[t], r) = refcount[r] + CallShare(c, r)
    <3>1. CASE r = s
      BY <1>2, <1>6, <2>2, <2>3, <2>14, <3>1 DEF Balanced
    <3>2. CASE r # s
      BY <1>1, <1>2, <1>6, <2>5, <2>19, <3>2 DEF Balance
    <3> QED
      BY <3>1, <3>2
  <2>20. \A u \in Threads \ {t} :
            /\ SpanOf(c) \cap SpanOf(call[u]) = {}
            /\ \A r \in SpanOf(call[u]) : objects'[r] = objects[r] /\ refcount'[r] = refcount[r]
    BY <1>2, <1>7
  <2> QED
    BY <1>2, <2>6, <2>7, <2>8, <2>15, <2>18, <2>19, <2>20, SpanStep
<1>10. \/ UNCHANGED <<nonempty, counter, home>>
       \/ \E s \in call[t].span : /\ nonempty' = [nonempty EXCEPT ![l] = <<s>> \o @]
                                  /\ counter' = [counter EXCEPT ![l] = @ + ObjectsPerSpan]
                                  /\ home' = [home EXCEPT ![s] = l]
  BY <1>4 DEF LinkSpan
<1> QED
  BY <1>8, <1>9, <1>10

\* The page heap takes the span.
LEMMA DeleteSpanObjects ==
  ASSUME TypeOK, TypeOK', ObjectsInv, NEW t \in Threads, DeleteSpan(t)
  PROVE  ObjectsInv'
<1> DEFINE c == [At(t, "relock") EXCEPT !.span = {}]
<1>1. CallFlow(call[t], home) /\ CallOK(call[t]) /\ SpanType /\ FlowInv /\ Balance /\ ListsAgree
  BY FlowOf
<1>2. /\ call[t].pc = "delete" /\ Becomes(t, c)
      /\ UNCHANGED <<out, tc_slots, nonempty, empty, counter, objects, refcount>>
      /\ home' = [s \in Spans |-> IF s \in call[t].span THEN Heap ELSE home[s]]
  BY DEF DeleteSpan, Go, Becomes, listVars
<1>3. Inserting(call[t])
  BY <1>1, <1>2, CallKinds
<1>4. PICK l \in Lists : l = call[t].l
  BY <1>3, InsertingFlow
<1>5. /\ Inserting(c) /\ c.pc = "relock" /\ c.l = call[t].l /\ c.chain = call[t].chain
      /\ c.rel = call[t].rel /\ c.w = call[t].w /\ c.span = {}
  BY <1>3 DEF Inserting, At
<1> HIDE DEF c
<1>6. CallFlow(c, home) /\ \A r : CallShare(c, r) = CallShare(call[t], r)
  BY <1>1, <1>3, <1>5, InsertingGoes
<1>7. SpanOf(c) = {} /\ SpanOf(call[t]) = call[t].span
  BY <1>2, <1>5 DEF SpanOf
<1>8. /\ \A u \in Threads : \A r \in SpanOf(call[u]) : r \in Spans /\ home[r] = Taken
      /\ \A u \in Threads \ {t} : SpanOf(call[t]) \cap SpanOf(call[u]) = {}
      /\ Taken \notin Lists /\ Heap \notin Lists
  BY <1>1, Carried
<1>9. ASSUME NEW r \in Spans, home'[r] # home[r]
      PROVE  /\ Alone(t, r) /\ CallShare(c, r) = 0
             /\ home[r] \notin Lists /\ home'[r] \notin Lists
  <2>1. r \in SpanOf(call[t]) /\ home'[r] = Heap
    BY <1>2, <1>7, <1>9
  <2>2. home[r] = Taken
    BY <1>8, <2>1
  <2>3. /\ \A k \in Lists : ListShare(k, r) = 0
        /\ \A u \in Threads : CallShare(call[u], r) = 0
    BY <1>1, <1>8, <2>2, OutsideNone
  <2> QED
    BY <1>6, <1>8, <2>1, <2>2, <2>3 DEF Alone
<1>10. CallFlow(c, home')
  BY <1>6, <1>9, FlowHome
<1>11. InTransit(c, home', objects', refcount')
  BY <1>5, <1>7 DEF InTransit
<1>12. SpanType'
  <2>1. home' \in [Spans -> Lists \cup {Heap, Taken}]
    BY <1>1, <1>2 DEF SpanType
  <2> QED
    BY <1>1, <1>2, <2>1 DEF SpanType
<1>13. \A r \in Spans : \/ home'[r] = home[r] /\ objects'[r] = objects[r]
                        \/ home[r] \notin Lists /\ home'[r] \notin Lists
  BY <1>2, <1>9
<1>14. ListsAgree'
  BY <1>1, <1>2, <1>12, <1>13, ListsQuiet
<1>15. ASSUME NEW r \in Spans, home'[r] \in Lists
       PROVE  /\ Balanced(r) /\ refcount'[r] + objects'[r] = refcount[r] + objects[r]
              /\ refcount'[r] + CallShare(call[t], r) = refcount[r] + CallShare(c, r)
  <2>1. home'[r] = home[r]
    BY <1>9, <1>15
  <2> QED
    BY <1>1, <1>2, <1>6, <1>15, <2>1 DEF Balance
<1>16. \A u \in Threads \ {t} :
          /\ SpanOf(c) \cap SpanOf(call[u]) = {}
          /\ \A r \in SpanOf(call[u]) : objects'[r] = objects[r] /\ refcount'[r] = refcount[r]
  BY <1>2, <1>7
<1>17. UNCHANGED <<out, tc_slots>> /\ \A r \in Spans : home'[r] # home[r] => Alone(t, r)
  BY <1>2, <1>9
<1> QED
  BY <1>2, <1>10, <1>11, <1>12, <1>14, <1>15, <1>16, <1>17, SpanStep

\* The object that a call gives to its span next: the span is on the list, and
\* its refcount counts the object.
NextObject(t, l, s) ==
    /\ l = call[t].w /\ s = Head(call[t].rel) /\ home[s] = l /\ Balanced(s)
    /\ Tail(call[t].rel) \in Seq(Spans)
    /\ \A r : Count(call[t].rel, r) = Count(Tail(call[t].rel), r) + IF r = s THEN 1 ELSE 0
    /\ CallShare(call[t], s) >= 1 /\ CallShare(call[t], s) <= refcount[s]

LEMMA NextObjectIs ==
  ASSUME TypeOK, ObjectsInv, NEW t \in Threads, call[t].pc = "release", call[t].rel # <<>>
  PROVE  Inserting(call[t]) /\ \E l \in Lists, s \in Spans : NextObject(t, l, s)
<1>1. CallFlow(call[t], home) /\ CallOK(call[t]) /\ SpanType /\ FlowInv /\ Balance /\ ListsAgree
  BY FlowOf
<1>2. Inserting(call[t])
  BY <1>1, CallKinds
<1> DEFINE rel == call[t].rel
<1>3. /\ RelOf(call[t]) = rel /\ call[t].w \in Lists /\ rel \in Seq(Spans) /\ rel # <<>>
      /\ call[t].chain \in Seq(Spans)
      /\ \A r : CallShare(call[t], r) = Count(call[t].chain, r) + Count(rel, r)
  BY <1>1, <1>2, InsertingFlow DEF CallFlow
<1> HIDE DEF rel
<1>4. /\ Head(rel) \in Spans /\ Tail(rel) \in Seq(Spans)
      /\ \A r : Count(rel, r) = Count(Tail(rel), r) + IF r = Head(rel) THEN 1 ELSE 0
  BY <1>3, CountHead
<1>5. \A r : Count(Tail(rel), r) \in Nat /\ Count(call[t].chain, r) \in Nat
  BY <1>3, <1>4, CountType
<1>6. PICK s \in Spans : s = Head(rel)
  BY <1>4
<1>7. Count(rel, s) = Count(Tail(rel), s) + 1
  BY <1>4, <1>6
<1>8. home[s] = call[t].w
  <2>1. Count(rel, s) > 0
    BY <1>5, <1>7
  <2> QED
    BY <1>1, <1>3, <2>1 DEF CallFlow
<1>9. Balanced(s)
  BY <1>1, <1>3, <1>8 DEF Balance
<1>10. CallShare(call[t], s) >= 1
  BY <1>3, <1>5, <1>7
<1>11. CallShare(call[t], s) <= refcount[s]
  BY <1>1, <1>9, OutsideOf DEF Balanced
<1>12. NextObject(t, call[t].w, s)
  BY <1>4, <1>6, <1>8, <1>9, <1>10, <1>11 DEF NextObject, rel
<1> QED
  BY <1>2, <1>3, <1>12

\* The objects of a call without the one it gives back.
LEMMA GivenBack ==
  ASSUME TypeOK, ObjectsInv, NEW t \in Threads, Inserting(call[t]), NEW l \in Lists, NEW s \in Spans,
         NextObject(t, l, s), NEW c, Inserting(c), c.chain = call[t].chain, c.l = call[t].l,
         c.rel = Tail(call[t].rel), c.w = call[t].w, c.pc \in {"release", "delete"}
  PROVE  /\ CallFlow(c, home)
         /\ \A r \in Spans : /\ CallShare(call[t], r) = CallShare(c, r) + IF r = s THEN 1 ELSE 0
                             /\ CallShare(c, r) \in Nat
<1> DEFINE rel == call[t].rel
           chain == call[t].chain
<1>1. CallFlow(call[t], home)
  BY FlowOf
<1>2. /\ RelOf(call[t]) = rel /\ ChainOf(call[t]) = chain /\ chain \in Seq(Spans)
      /\ \A r : CallShare(call[t], r) = Count(chain, r) + Count(rel, r)
  BY InsertingFlow
<1>3. /\ RelOf(c) = Tail(rel) /\ ChainOf(c) = chain
      /\ \A r : CallShare(c, r) = Count(chain, r) + Count(Tail(rel), r)
  BY InsertingFlow
<1>4. /\ Tail(rel) \in Seq(Spans)
      /\ \A r : Count(rel, r) = Count(Tail(rel), r) + IF r = s THEN 1 ELSE 0
  BY DEF NextObject
<1> HIDE DEF rel, chain
<1>5. \A r : Count(chain, r) \in Nat /\ Count(Tail(rel), r) \in Nat
  BY <1>2, <1>4, CountType
<1>6. \A r \in Spans : /\ CallShare(call[t], r) = CallShare(c, r) + IF r = s THEN 1 ELSE 0
                       /\ CallShare(c, r) \in Nat
  BY <1>2, <1>3, <1>4, <1>5
<1>7. \A r \in Spans : Count(RelOf(c), r) > 0 => home[r] = c.w
  <2> SUFFICES ASSUME NEW r \in Spans, Count(Tail(rel), r) > 0 PROVE home[r] = call[t].w
    BY <1>3
  <2>1. Count(rel, r) > 0
    BY <1>4, <1>5
  <2> QED
    BY <1>1, <1>2, <2>1 DEF CallFlow
<1>8. CallFlow(c, home)
  BY <1>1, <1>2, <1>3, <1>4, <1>7 DEF CallFlow
<1> QED
  BY <1>6, <1>8

\* A span on list l is on no other list.
LEMMA OnOneList ==
  ASSUME SpanType, ListsAgree, NEW l \in Lists, NEW s \in Spans, home[s] = l
  PROVE  /\ [k \in Lists |-> empty[k] \ {s}] = [empty EXCEPT ![l] = @ \ {s}]
         /\ [k \in Lists |-> RemoveFirst(nonempty[k], s)]
              = [nonempty EXCEPT ![l] = RemoveFirst(@, s)]
         /\ [home EXCEPT ![s] = l] = home
<1>1. /\ nonempty \in [Lists -> Seq(Spans)] /\ empty \in [Lists -> SUBSET Spans]
      /\ home \in [Spans -> Lists \cup {Heap, Taken}]
  BY DEF SpanType
<1>2. ASSUME NEW k \in Lists, k # l
      PROVE  empty[k] \ {s} = empty[k] /\ RemoveFirst(nonempty[k], s) = nonempty[k]
  <2>1. s \notin ToSet(nonempty[k]) /\ s \notin empty[k]
    BY <1>2 DEF ListsAgree
  <2>2. ~ \E i \in 1 .. Len(nonempty[k]) : nonempty[k][i] = s
    BY <1>1, <2>1 DEF ToSet
  <2> QED
    BY <2>1, <2>2 DEF RemoveFirst
<1>3. [k \in Lists |-> empty[k] \ {s}] = [empty EXCEPT ![l] = @ \ {s}]
  BY <1>1, <1>2
<1>4. [k \in Lists |-> RemoveFirst(nonempty[k], s)]
        = [nonempty EXCEPT ![l] = RemoveFirst(@, s)]
  BY <1>1, <1>2
<1>5. [home EXCEPT ![s] = l] = home
  BY <1>1
<1> QED
  BY <1>3, <1>4, <1>5

\* ReleaseToSpans() of an object that is not the last one out.
LEMMA ReleaseToSpansObjects ==
  ASSUME TypeOK, TypeOK', ObjectsInv, NEW t \in Threads, ReleaseToSpans(t)
  PROVE  ObjectsInv'
<1>1. SpanType /\ FlowInv /\ Balance /\ ListsAgree
  BY DEF ObjectsInv
<1>2. call[t].pc = "release" /\ call[t].rel # <<>>
  BY DEF ReleaseToSpans
<1>3. PICK l \in Lists, s \in Spans : Inserting(call[t]) /\ NextObject(t, l, s)
  BY <1>2, NextObjectIs
<1> DEFINE c == [call[t] EXCEPT !.rel = Tail(@)]
           q == nonempty[l]
           d == <<s>> \o q
<1>4. l = call[t].w /\ s = Head(call[t].rel) /\ home[s] = l /\ Balanced(s)
  BY <1>3 DEF NextObject
<1>5. /\ refcount[s] # 1
      /\ objects[s] = 0 => /\ empty' = [empty EXCEPT ![l] = @ \ {s}]
                           /\ nonempty' = [nonempty EXCEPT ![l] = d]
      /\ objects[s] # 0 => UNCHANGED <<nonempty, empty>>
      /\ counter' = [counter EXCEPT ![l] = @ + 1]
      /\ refcount' = [refcount EXCEPT ![s] = @ - 1]
      /\ objects' = [objects EXCEPT ![s] = @ + 1]
      /\ call' = [call EXCEPT ![t].rel = Tail(@)]
      /\ UNCHANGED <<out, tc_slots, home>>
  <2>1. /\ [k \in Lists |-> empty[k] \ {s}] = [empty EXCEPT ![l] = @ \ {s}]
        /\ [home EXCEPT ![s] = l] = home
    BY <1>1, <1>4, OnOneList
  <2> QED
    BY <1>4, <2>1 DEF ReleaseToSpans
<1>6. Becomes(t, c)
  BY <1>5 DEF Becomes, TypeOK
<1>7. /\ Inserting(c) /\ c.pc = "release" /\ c.chain = call[t].chain /\ c.l = call[t].l
      /\ c.rel = Tail(call[t].rel) /\ c.w = call[t].w
  BY <1>2, <1>3 DEF Inserting
<1> HIDE DEF c
<1>8. /\ CallFlow(c, home)
      /\ \A r \in Spans : /\ CallShare(call[t], r) = CallShare(c, r) + IF r = s THEN 1 ELSE 0
                          /\ CallShare(c, r) \in Nat
  BY <1>3, <1>7, GivenBack
<1>9. CallShare(call[t], s) >= 1 /\ CallShare(call[t], s) <= refcount[s]
      /\ CallShare(call[t], s) \in Nat /\ refcount[s] \in Nat /\ objects[s] \in Nat
  BY <1>1, <1>3, ShareType DEF NextObject, SpanType
<1>10. /\ refcount'[s] = refcount[s] - 1 /\ objects'[s] = objects[s] + 1
       /\ counter'[l] = counter[l] + 1 /\ counter[l] \in Int
       /\ \A r \in Spans \ {s} : objects'[r] = objects[r] /\ refcount'[r] = refcount[r]
  BY <1>1, <1>5 DEF SpanType
<1>11. \A k \in Lists \ {l} : /\ nonempty'[k] = nonempty[k] /\ empty'[k] = empty[k]
                              /\ counter'[k] = counter[k]
  BY <1>1, <1>5 DEF SpanType
<1>12. q \in Seq(Spans) /\ Listed(l, q, empty[l], home, objects) /\ IsInjective(q)
       /\ ToSet(q) \subseteq Spans /\ empty[l] \subseteq Spans
  <2>1. q \in Seq(Spans) /\ Listed(l, q, empty[l], home, objects)
    BY <1>1, ListsAgreeIs DEF SpanType
  <2> QED
    BY <1>1, <2>1, ListElements DEF Listed
<1>13. nonempty' \in [Lists -> Seq(Spans)] /\ empty' \in [Lists -> SUBSET Spans]
       /\ Listed(l, nonempty'[l], empty'[l], home', objects')
  <2>1. CASE objects[s] = 0
    <3>1. s \in empty[l] /\ s \notin ToSet(q)
      BY <1>4, <1>12, <2>1 DEF Listed
    <3>2. IsWith(d, q, s)
      BY <1>12, <3>1, PrependList
    <3> HIDE DEF d, q
    <3>3. d \in Seq(Spans) /\ IsInjective(d) /\ ToSet(d) = ToSet(q) \cup {s}
      BY <3>2 DEF IsWith
    <3>4. nonempty \in [Lists -> Seq(Spans)] /\ empty \in [Lists -> SUBSET Spans]
      BY <1>1 DEF SpanType
    <3>5. nonempty'[l] = d /\ empty'[l] = empty[l] \ {s}
      BY <1>5, <2>1, <3>4
    <3>6. nonempty' \in [Lists -> Seq(Spans)]
      BY <1>5, <2>1, <3>3, <3>4
    <3>7. empty' \in [Lists -> SUBSET Spans]
      BY <1>5, <2>1, <3>4
    <3>8. \A r \in Spans : (home'[r] = l) <=> (r \in ToSet(d) \cup (empty[l] \ {s}))
      BY <1>4, <1>5, <1>12, <3>3 DEF Listed
    <3>9. objects'[s] > 0
      BY <1>9, <1>10
    <3>10. \A r \in ToSet(d) : objects'[r] > 0
      BY <1>10, <1>12, <3>1, <3>3, <3>9 DEF Listed
    <3>11. \A r \in empty[l] \ {s} : objects'[r] = 0
      BY <1>10, <1>12 DEF Listed
    <3> QED
      BY <3>3, <3>5, <3>6, <3>7, <3>8, <3>10, <3>11 DEF Listed
  <2>2. CASE objects[s] # 0
    <3>1. nonempty'[l] = q /\ empty'[l] = empty[l] /\ home' = home
      BY <1>5, <2>2
    <3>2. nonempty' \in [Lists -> Seq(Spans)] /\ empty' \in [Lists -> SUBSET Spans]
      BY <1>1, <1>5, <2>2 DEF SpanType
    <3> HIDE DEF d, q
    <3>3. objects'[s] > 0
      BY <1>9, <1>10
    <3>4. \A r \in ToSet(q) : objects'[r] > 0
      BY <1>10, <1>12, <3>3 DEF Listed
    <3>5. \A r \in empty[l] : objects'[r] = 0
      BY <1>10, <1>12, <2>2 DEF Listed
    <3> QED
      BY <1>12, <3>1, <3>2, <3>4, <3>5 DEF Listed
  <2> QED
    BY <2>1, <2>2
<1>14. SpanType'
  <2>1. objects' \in [Spans -> Nat] /\ refcount' \in [Spans -> Nat]
    <3>1. objects[s] + 1 \in Nat /\ refcount[s] - 1 \in Nat
      BY <1>9
    <3> QED
      BY <1>1, <1>5, <3>1 DEF SpanType
  <2>2. counter' \in [Lists -> Int]
    BY <1>1, <1>5 DEF SpanType
  <2> QED
    BY <1>1, <1>5, <1>13, <2>1, <2>2 DEF SpanType
<1>15. ListsAgree'
  <2>1. Free(l, home, objects)[s] = objects[s] /\ Free(l, home', objects')[s] = objects[s] + 1
    BY <1>4, <1>5, <1>10 DEF Free
  <2>2. counter'[l] + Free(l, home, objects)[s] = counter[l] + Free(l, home', objects')[s]
    BY <1>9, <1>10, <2>1
  <2>3. \A r \in Spans \ {s} : home'[r] = home[r] /\ objects'[r] = objects[r]
    BY <1>5, <1>10
  <2>4. home[s] \notin Lists \ {l} /\ home'[s] \notin Lists \ {l}
    BY <1>4, <1>5
  <2> QED
    BY <1>1, <1>11, <1>13, <1>14, <2>2, <2>3, <2>4, ListsStep
<1>16. ASSUME NEW r \in Spans, home'[r] \in Lists
       PROVE  /\ Balanced(r) /\ refcount'[r] + objects'[r] = refcount[r] + objects[r]
              /\ refcount'[r] + CallShare(call[t], r) = refcount[r] + CallShare(c, r)
  <2>1. Balanced(r)
    BY <1>1, <1>5, <1>16 DEF Balance
  <2>2. CASE r = s
    <3>1. CallShare(call[t], s) = CallShare(c, s) + 1 /\ CallShare(c, s) \in Nat
      BY <1>8
    <3> QED
      BY <1>9, <1>10, <2>1, <2>2, <3>1
  <2>3. CASE r # s
    <3>1. CallShare(c, r) = CallShare(call[t], r)
      BY <1>8, <2>3
    <3> QED
      BY <1>10, <2>1, <2>3, <3>1
  <2> QED
    BY <2>2, <2>3
<1>17. SpanOf(c) = {} /\ InTransit(c, home', objects', refcount') /\ CallFlow(c, home')
  BY <1>5, <1>7, <1>8 DEF SpanOf, InTransit
<1>18. \A u \in Threads \ {t} :
          /\ SpanOf(c) \cap SpanOf(call[u]) = {}
          /\ \A r \in SpanOf(call[u]) : objects'[r] = objects[r] /\ refcount'[r] = refcount[r]
  BY <1>1, <1>4, <1>10, <1>17, Carried
<1>19. UNCHANGED <<out, tc_slots>> /\ \A r \in Spans : home'[r] # home[r] => Alone(t, r)
  BY <1>5
<1> QED
  BY <1>6, <1>14, <1>15, <1>16, <1>17, <1>18, <1>19, SpanStep

\* ReleaseToSpans() of the last object out: the span leaves the list.
LEMMA ReleaseSpanObjects ==
  ASSUME TypeOK, TypeOK', ObjectsInv, NEW t \in Threads, ReleaseSpan(t)
  PROVE  ObjectsInv'
<1>1. SpanType /\ FlowInv /\ Balance /\ ListsAgree
  BY DEF ObjectsInv
<1>2. call[t].pc = "release" /\ call[t].rel # <<>>
  BY DEF ReleaseSpan
<1>3. PICK l \in Lists, s \in Spans : Inserting(call[t]) /\ NextObject(t, l, s)
  BY <1>2, NextObjectIs
<1> DEFINE c == [At(t, "delete") EXCEPT !.rel = Tail(@), !.span = {s}]
           q == nonempty[l]
           d == RemoveFirst(q, s)
<1>4. l = call[t].w /\ s = Head(call[t].rel) /\ home[s] = l /\ Balanced(s)
  BY <1>3 DEF NextObject
<1>5. /\ refcount[s] = 1 /\ Becomes(t, c)
      /\ nonempty' = [nonempty EXCEPT ![l] = d]
      /\ empty' = [empty EXCEPT ![l] = @ \ {s}]
      /\ counter' = [counter EXCEPT ![l] = @ + 1 - ObjectsPerSpan]
      /\ refcount' = [refcount EXCEPT ![s] = 0]
      /\ home' = [home EXCEPT ![s] = Taken]
      /\ UNCHANGED <<out, tc_slots, objects>>
  <2>1. /\ [k \in Lists |-> empty[k] \ {s}] = [empty EXCEPT ![l] = @ \ {s}]
        /\ [k \in Lists |-> RemoveFirst(nonempty[k], s)]
             = [nonempty EXCEPT ![l] = RemoveFirst(@, s)]
    BY <1>1, <1>4, OnOneList
  <2> QED
    BY <1>4, <2>1 DEF ReleaseSpan, Go, Becomes
<1>6. /\ Inserting(c) /\ c.pc = "delete" /\ c.chain = call[t].chain /\ c.l = call[t].l
      /\ c.rel = Tail(call[t].rel) /\ c.w = call[t].w /\ c.span = {s}
  BY <1>3 DEF Inserting, At
<1> HIDE DEF c
<1>7. /\ CallFlow(c, home)
      /\ \A r \in Spans : /\ CallShare(call[t], r) = CallShare(c, r) + IF r = s THEN 1 ELSE 0
                          /\ CallShare(c, r) \in Nat
  BY <1>3, <1>6, GivenBack
<1>8. /\ CallShare(call[t], s) >= 1 /\ CallShare(call[t], s) <= refcount[s]
      /\ CallShare(call[t], s) \in Nat /\ refcount[s] = Outside(s)
      /\ refcount[s] + objects[s] = ObjectsPerSpan /\ objects[s] \in Nat
  BY <1>1, <1>3, <1>4, ShareType DEF NextObject, SpanType, Balanced
<1>9. CallShare(call[t], s) = Outside(s) /\ CallShare(c, s) = 0
  <2>1. CallShare(call[t], s) = 1
    BY <1>5, <1>8
  <2>2. CallShare(call[t], s) = CallShare(c, s) + 1 /\ CallShare(c, s) \in Nat
    BY <1>7
  <2> QED
    BY <1>5, <1>8, <2>1, <2>2
<1>10. /\ \A k \in Lists : ListShare(k, s) = 0
       /\ \A u \in Threads \ {t} : CallShare(call[u], s) = 0
  BY <1>1, <1>9, OutsideOf
<1>11. /\ \A u \in Threads : \A r \in SpanOf(call[u]) : r \in Spans /\ home[r] = Taken
       /\ Taken \notin Lists
  BY <1>1, Carried
<1>12. \A u \in Threads : s \notin SpanOf(call[u])
  BY <1>4, <1>11
<1>13. Alone(t, s)
  BY <1>10, <1>12 DEF Alone
<1>14. /\ home'[s] = Taken /\ refcount'[s] = 0 /\ counter'[l] = counter[l] + 1 - ObjectsPerSpan
       /\ counter[l] \in Int
       /\ \A r \in Spans \ {s} : home'[r] = home[r] /\ refcount'[r] = refcount[r]
  BY <1>1, <1>5 DEF SpanType
<1>15. \A r \in Spans : home'[r] # home[r] => Alone(t, r) /\ CallShare(c, r) = 0
  BY <1>9, <1>13, <1>14
<1>16. CallFlow(c, home')
  BY <1>7, <1>15, FlowHome
<1>17. SpanOf(c) = {s} /\ InTransit(c, home', objects', refcount')
  BY <1>6, <1>14 DEF SpanOf, InTransit
<1>18. q \in Seq(Spans) /\ Listed(l, q, empty[l], home, objects) /\ IsInjective(q)
       /\ ToSet(q) \subseteq Spans /\ empty[l] \subseteq Spans
  <2>1. q \in Seq(Spans) /\ Listed(l, q, empty[l], home, objects)
    BY <1>1, ListsAgreeIs DEF SpanType
  <2> QED
    BY <1>1, <2>1, ListElements DEF Listed
<1>19. IsWithout(d, q, s)
  BY <1>18, RemoveList
<1> HIDE DEF d, q
<1>20. d \in Seq(Spans) /\ IsInjective(d) /\ ToSet(d) = ToSet(q) \ {s}
  BY <1>19 DEF IsWithout
<1>21. ObjectsPerSpan \in Nat
  BY SizesAssumption
<1>22. /\ nonempty'[l] = d /\ empty'[l] = empty[l] \ {s}
       /\ \A k \in Lists \ {l} : /\ nonempty'[k] = nonempty[k] /\ empty'[k] = empty[k]
                                 /\ counter'[k] = counter[k]
  BY <1>1, <1>5 DEF SpanType
<1>23. SpanType'
  <2>1. nonempty' \in [Lists -> Seq(Spans)]
    BY <1>1, <1>5, <1>20 DEF SpanType
  <2>2. empty' \in [Lists -> SUBSET Spans]
    BY <1>1, <1>5 DEF SpanType
  <2>3. counter' \in [Lists -> Int]
    BY <1>1, <1>5, <1>21 DEF SpanType
  <2>4. home' \in [Spans -> Lists \cup {Heap, Taken}] /\ refcount' \in [Spans -> Nat]
    BY <1>1, <1>5 DEF SpanType
  <2> QED
    BY <1>1, <1>5, <2>1, <2>2, <2>3, <2>4 DEF SpanType
<1>24. Listed(l, nonempty'[l], empty'[l], home', objects')
  <2>1. \A r \in Spans : (home'[r] = l) <=> (r \in ToSet(d) \cup (empty[l] \ {s}))
    BY <1>11, <1>14, <1>18, <1>20 DEF Listed
  <2>2. \A r \in ToSet(d) : objects[r] > 0
    BY <1>18, <1>20 DEF Listed
  <2>3. \A r \in empty[l] \ {s} : objects[r] = 0
    BY <1>18 DEF Listed
  <2> QED
    BY <1>5, <1>20, <1>22, <2>1, <2>2, <2>3 DEF Listed
<1>25. ListsAgree'
  <2>1. Free(l, home, objects)[s] = objects[s] /\ Free(l, home', objects')[s] = 0
    BY <1>4, <1>11, <1>14 DEF Free
  <2>2. counter'[l] + Free(l, home, objects)[s] = counter[l] + Free(l, home', objects')[s]
    BY <1>5, <1>8, <1>14, <1>21, <2>1
  <2>3. \A r \in Spans \ {s} : home'[r] = home[r] /\ objects'[r] = objects[r]
    BY <1>5, <1>14
  <2>4. home[s] \notin Lists \ {l} /\ home'[s] \notin Lists \ {l}
    BY <1>4, <1>11, <1>14
  <2> QED
    BY <1>1, <1>22, <1>23, <1>24, <2>2, <2>3, <2>4, ListsStep
<1>26. ASSUME NEW r \in Spans, home'[r] \in Lists
       PROVE  /\ Balanced(r) /\ refcount'[r] + objects'[r] = refcount[r] + objects[r]
              /\ refcount'[r] + CallShare(call[t], r) = refcount[r] + CallShare(c, r)
  <2>1. r # s
    BY <1>11, <1>14, <1>26
  <2>2. CallShare(c, r) = CallShare(call[t], r)
    BY <1>7, <2>1
  <2> QED
    BY <1>1, <1>5, <1>14, <1>26, <2>1, <2>2 DEF Balance
<1>27. \A u \in Threads \ {t} :
          /\ SpanOf(c) \cap SpanOf(call[u]) = {}
          /\ \A r \in SpanOf(call[u]) : objects'[r] = objects[r] /\ refcount'[r] = refcount[r]
  BY <1>5, <1>11, <1>12, <1>14, <1>17
<1>28. UNCHANGED <<out, tc_slots>> /\ \A r \in Spans : home'[r] # home[r] => Alone(t, r)
  BY <1>5, <1>15
<1>29. Becomes(t, c) /\ InTransit(c, home', objects', refcount')
  BY <1>5, <1>17
<1>30. \A r \in Spans : home'[r] \in Lists =>
          /\ Balanced(r) /\ refcount'[r] + objects'[r] = refcount[r] + objects[r]
          /\ refcount'[r] + CallShare(call[t], r) = refcount[r] + CallShare(c, r)
  BY <1>26
<1> QED
  BY <1>16, <1>23, <1>25, <1>27, <1>28, <1>29, <1>30, SpanStep

-----------------------------------------------------------------------------
(* Theorems.                                                               *)

\* At the start no lock is held, no slot is used and none is under way.
LEMMA InitKept ==
  ASSUME Init
  PROVE  TypeOK /\ SlotInv /\ LockInv
<1>0. /\ lock = [l \in Lists |-> NoThread] /\ cache_size = InitialSize
      /\ tc_slots = [l \in Lists |-> <<>>] /\ call = [t \in Threads |-> Idle]
  BY DEF Init, InitialSize
<1>1. /\ \A l \in Lists : /\ CacheSize[l[2]] \in Nat /\ MaxCacheSize[l[2]] \in Nat
                          /\ CacheSize[l[2]] <= MaxCacheSize[l[2]]
      /\ NoThread \notin Threads
  BY SizesAssumption, ListsAssumption DEF Classes
<1>2. TypeOK
  BY <1>0, <1>1 DEF TypeOK, CallOK, InitialSize
<1>3. Winners = {}
  BY <1>0 DEF Winners, Idle
<1>4. Cardinality(Winners) = 0
  BY <1>3, FS_EmptySet
<1>5. Total(cache_size) + Cardinality(Winners)
        <= Total(InitialSize)
  <2>1. Total(InitialSize) \in Nat
    BY <1>2, Counts
  <2> QED
    BY <1>0, <1>4, <2>1
<1>6. \A l \in Lists : Len(tc_slots[l]) <= cache_size[l] /\ cache_size[l] <= MaxCacheSize[l[2]]
  <2> SUFFICES ASSUME NEW l \in Lists
               PROVE  Len(tc_slots[l]) <= cache_size[l] /\ cache_size[l] <= MaxCacheSize[l[2]]
    OBVIOUS
  <2>1. Len(tc_slots[l]) = 0
    BY <1>0
  <2>2. cache_size[l] = CacheSize[l[2]]
    BY <1>0 DEF InitialSize
  <2> QED
    BY <1>1, <2>1, <2>2
<1>7. LockInv
  BY <1>0, <1>1 DEF LockInv, Held, Idle
<1> QED
  BY <1>2, <1>5, <1>6, <1>7 DEF SlotInv

\* Every step keeps the counts of slots and, in a program of the default heap
\* type, the holders of the locks.
LEMMA NextKept ==
  ASSUME TypeOK, SlotInv, [Next]_vars
  PROVE  Kept
<1>1. ASSUME NEW t \in Threads, Step(t) PROVE Kept
  <2>1. CASE RemoveRange(t)
    BY <2>1, RemoveSlotKeeps, RemoveFromSpansKeeps DEF RemoveRange
  <2>2. CASE FetchFromOneSpans(t)
    BY <2>2, FetchKeeps
  <2>3. CASE FinishRemove(t)
    BY <2>3, FinishRemoveKeeps
  <2>4. CASE Populate(t) \/ NewSpan(t) \/ LinkSpan(t)
    BY <2>4, PopulateKeeps
  <2>5. CASE InsertRange(t)
    BY <2>5, InsertRangeKeeps
  <2>6. CASE EvictRandomSizeClass(t)
    BY <2>6, EvictKeeps
  <2>7. CASE ShrinkCache(t)
    BY <2>7, ShrinkCacheKeeps
  <2>8. CASE MakeCacheSpace(t)
    BY <2>8, MakeCacheSpaceKeeps
  <2>9. CASE ReleaseToSpans(t) \/ ReleaseSpan(t) \/ DeleteSpan(t) \/ Relock(t)
    BY <2>9, ReleaseKeeps
  <2>10. CASE FinishRelease(t)
    BY <2>10, FinishReleaseKeeps
  <2> QED
    BY <1>1, <2>1, <2>2, <2>3, <2>4, <2>5, <2>6, <2>7, <2>8, <2>9, <2>10 DEF Step
<1>2. CASE UNCHANGED vars
  <2>1. UNCHANGED <<lock, cache_size, tc_slots, call>>
    BY <1>2 DEF vars, listVars
  <2>2. TypeOK'
    BY <2>1 DEF TypeOK, CallOK, Removing, Inserting, Idle
  <2>3. SlotInv'
    BY <2>1 DEF SlotInv, Total, Units, Winners, InitialSize
  <2>4. LockInv => LockInv'
    BY <2>1 DEF LockInv, Held
  <2> QED
    BY <2>2, <2>3, <2>4 DEF Kept
<1> QED
  BY <1>1, <1>2 DEF Next

\* In a program that gets memory of the default heap type only, the calls, the
\* slots and their number are in every state what they should be.
THEOREM SlotsInvariant ==
  ASSUME DefaultOnly
  PROVE  Spec => [](TypeOK /\ SlotInv)
<1>1. Init => TypeOK /\ SlotInv
  BY InitKept
<1>2. TypeOK /\ SlotInv /\ [Next]_vars => (TypeOK /\ SlotInv)'
  BY NextKept DEF Kept
<1> QED
  BY <1>1, <1>2, PTL DEF Spec

\* MakeCacheSpace() moves slots and never makes any: no list uses more than it
\* has or has more than its limit, a slot holds a whole chain, and all lists
\* together have at most the slots they started with.
THEOREM SlotsAlwaysMoved ==
  ASSUME DefaultOnly
  PROVE  Spec => []SlotsMoved
<1>1. TypeOK /\ SlotInv => SlotsMoved
  <2> SUFFICES ASSUME TypeOK, SlotInv PROVE SlotsMoved
    OBVIOUS
  <2>1. ASSUME NEW l \in Lists, NEW i \in DOMAIN tc_slots[l]
        PROVE  Len(tc_slots[l][i]) = num_objects_to_move
    <3>1. tc_slots[l] \in Seq(Whole)
      BY DEF TypeOK
    <3>2. tc_slots[l][i] \in [1 .. num_objects_to_move -> Spans]
      BY <3>1 DEF Whole
    <3> DEFINE chain == tc_slots[l][i]
    <3>3. chain \in [1 .. num_objects_to_move -> Spans]
      BY <3>2
    <3> HIDE DEF chain
    <3>4. Len(chain) = num_objects_to_move
      BY <3>3, SizesAssumption
    <3> QED
      BY <3>4 DEF chain
  <2> QED
    BY <2>1 DEF SlotsMoved, SlotInv, InitialSize
<1> QED
  BY <1>1, SlotsInvariant, PTL

\* In a program that gets memory of the default heap type only, each lock has the
\* holder that the calls say it has.
THEOREM LocksInvariant ==
  ASSUME DefaultOnly
  PROVE  Spec => [](TypeOK /\ SlotInv /\ LockInv)
<1>1. Init => TypeOK /\ SlotInv /\ LockInv
  BY InitKept
<1>2. TypeOK /\ SlotInv /\ LockInv /\ [Next]_vars => (TypeOK /\ SlotInv /\ LockInv)'
  BY NextKept DEF Kept
<1> QED
  BY <1>1, <1>2, PTL DEF Spec

\* "we never hold two size class locks concurrently": in a program of the default
\* heap type no thread waits for the lock of a list while it holds one, and a
\* thread that is done holds none.
THEOREM NeverTwoLocksHeld ==
  ASSUME DefaultOnly
  PROVE  Spec => []NeverTwoLocks
<1>1. LockInv => NeverTwoLocks
  <2> SUFFICES ASSUME LockInv, NEW t \in Threads, call[t].pc = "idle" \/ Wanted(t) # {}
               PROVE  \A l \in Lists : lock[l] # t
    BY DEF NeverTwoLocks
  <2>1. call[t].pc \in {"idle", "link", "shrink", "relock", "invert"}
    BY DEF Wanted
  <2>2. Held(call[t]) = {}
    BY <2>1 DEF Held
  <2> QED
    BY <2>2 DEF LockInv
<1>2. Spec => [](TypeOK /\ SlotInv /\ LockInv)
  BY LocksInvariant
<1> QED
  BY <1>1, <1>2, PTL

\* At the start all spans are in the page heap.
LEMMA InitObjects ==
  ASSUME Init
  PROVE  ObjectsInv
<1>0. /\ tc_slots = [l \in Lists |-> <<>>] /\ nonempty = [l \in Lists |-> <<>>]
      /\ empty = [l \in Lists |-> {}] /\ counter = [l \in Lists |-> 0]
      /\ home = [s \in Spans |-> Heap] /\ objects = [s \in Spans |-> 0]
      /\ refcount = [s \in Spans |-> 0] /\ out = [l \in Lists |-> [s \in Spans |-> 0]]
      /\ call = [t \in Threads |-> Idle]
  BY DEF Init
<1>1. SpanType
  BY <1>0 DEF SpanType
<1>2. ASSUME NEW l \in Lists, NEW s \in Spans PROVE ListShare(l, s) = 0
  <2>1. out[l][s] = 0 /\ tc_slots[l] = <<>>
    BY <1>0
  <2> DEFINE f == [i \in DOMAIN <<>> |-> Count(<<>>[i], s)]
  <2>2. f \in [{} -> Nat] /\ InSlots(<<>>, s) = Total(f)
    BY DEF InSlots
  <2>3. IsFiniteSet({})
    BY FS_EmptySet
  <2> HIDE DEF f
  <2>4. Total(f) = 0
    BY <2>2, <2>3, TotalZero
  <2> QED
    BY <2>1, <2>2, <2>4 DEF ListShare
<1>3. FlowInv
  <2>1. \A t \in Threads : CallFlow(call[t], home) /\ SpanOf(call[t]) = {} /\ call[t].pc = "idle"
    BY <1>0, IdleFlow DEF Idle
  <2>2. \A t \in Threads : InTransit(call[t], home, objects, refcount)
    BY <2>1 DEF InTransit
  <2> QED
    BY <1>2, <2>1, <2>2 DEF FlowInv
<1>4. Heap \notin Lists
  BY ListsAssumption
<1>5. Balance
  BY <1>0, <1>4 DEF Balance
<1>6. ASSUME NEW l \in Lists
      PROVE  /\ Listed(l, nonempty[l], empty[l], home, objects)
             /\ counter[l] = Total(Free(l, home, objects))
  <2>1. nonempty[l] = <<>> /\ empty[l] = {} /\ counter[l] = 0
    BY <1>0
  <2>2. ToSet(<<>>) = {} /\ IsInjective(<<>>)
    BY DEF ToSet, IsInjective
  <2>3. \A s \in Spans : home[s] # l
    BY <1>0, <1>4
  <2>4. Listed(l, nonempty[l], empty[l], home, objects)
    BY <2>1, <2>2, <2>3 DEF Listed
  <2> DEFINE f == Free(l, home, objects)
  <2>5. f \in [Spans -> Nat] /\ \A s \in Spans : f[s] = 0
    BY <2>3 DEF Free
  <2>6. IsFiniteSet(Spans)
    BY ListsAssumption
  <2> HIDE DEF f
  <2>7. Total(f) = 0
    BY <2>5, <2>6, TotalZero
  <2> QED
    BY <2>1, <2>4, <2>7 DEF f
<1>7. ListsAgree
  BY <1>6, ListsAgreeIs
<1> QED
  BY <1>1, <1>3, <1>5, <1>7 DEF ObjectsInv

\* Every step keeps the account of the objects.
LEMMA NextObjects ==
  ASSUME DefaultOnly, TypeOK, SlotInv, ObjectsInv, [Next]_vars
  PROVE  ObjectsInv'
<1>0. TypeOK'
  BY NextKept DEF Kept
<1>1. ASSUME NEW t \in Threads, Step(t) PROVE ObjectsInv'
  <2>1. CASE RemoveRange(t)
    BY <1>0, <2>1, RemoveSlotObjects, RemoveFromSpansObjects DEF RemoveRange
  <2>2. CASE FetchFromOneSpans(t)
    BY <1>0, <2>2, FetchObjects
  <2>3. CASE FinishRemove(t)
    BY <1>0, <2>3, FinishRemoveObjects
  <2>4. CASE Populate(t)
    BY <1>0, <2>4, PopulateObjects
  <2>5. CASE NewSpan(t)
    BY <1>0, <2>5, NewSpanObjects
  <2>6. CASE LinkSpan(t)
    BY <1>0, <2>6, LinkSpanObjects
  <2>7. CASE InsertRange(t)
    BY <1>0, <2>7, InsertRangeObjects
  <2>8. CASE EvictRandomSizeClass(t)
    BY <1>0, <2>8, EvictObjects
  <2>9. CASE ShrinkCache(t)
    BY <1>0, <2>9, ShrinkCacheObjects
  <2>10. CASE MakeCacheSpace(t)
    BY <1>0, <2>10, MakeCacheSpaceObjects
  <2>11. CASE ReleaseToSpans(t)
    BY <1>0, <2>11, ReleaseToSpansObjects
  <2>12. CASE ReleaseSpan(t)
    BY <1>0, <2>12, ReleaseSpanObjects
  <2>13. CASE DeleteSpan(t)
    BY <1>0, <2>13, DeleteSpanObjects
  <2>14. CASE Relock(t)
    BY <1>0, <2>14, RelockObjects
  <2>15. CASE FinishRelease(t)
    BY <1>0, <2>15, FinishReleaseObjects
  <2> QED
    BY <1>1, <2>1, <2>2, <2>3, <2>4, <2>5, <2>6, <2>7, <2>8, <2>9, <2>10, <2>11, <2>12,
       <2>13, <2>14, <2>15 DEF Step
<1>2. CASE UNCHANGED vars
  <2>1. UNCHANGED <<out, tc_slots, nonempty, empty, counter, home, objects, refcount, call>>
    BY <1>2 DEF vars, listVars, spanVars
  <2>2. ListsAgree => ListsAgree'
    BY <2>1 DEF ListsAgree, Total, Units
  <2>3. SpanType => SpanType'
    BY <2>1 DEF SpanType
  <2>4. \A s : Outside(s)' = Outside(s)
    BY <2>1 DEF Outside, InCall, InSlots, Total, Units, Count
  <2>5. Balance => Balance'
    BY <2>1, <2>4 DEF Balance, Balanced
  <2>6. \A l, s : ListShare(l, s)' = ListShare(l, s)
    BY <2>1 DEF ListShare
  <2>7. \A t : SpanOf(call[t])' = SpanOf(call[t])
    BY <2>1 DEF SpanOf
  <2>8. FlowInv => FlowInv'
    <3>1. \A t : ChainOf(call[t])' = ChainOf(call[t]) /\ RelOf(call[t])' = RelOf(call[t])
      BY <2>1 DEF ChainOf, RelOf
    <3>3. ASSUME NEW t \in Threads, CallFlow(call[t], home) PROVE CallFlow(call[t], home)'
      BY <2>1, <3>1, <3>3 DEF CallFlow, Count
    <3>4. ASSUME NEW t \in Threads, InTransit(call[t], home, objects, refcount)
          PROVE  InTransit(call[t], home, objects, refcount)'
      BY <2>1, <2>7, <3>4 DEF InTransit
    <3>5. ASSUME FlowInv
          PROVE  \A l \in Lists, s \in Spans : ListShare(l, s)' > 0 => home'[s] = l
      BY <2>1, <2>6, <3>5 DEF FlowInv
    <3>6. ASSUME FlowInv
          PROVE  \A t, u \in Threads : t # u => SpanOf(call[t])' \cap SpanOf(call[u])' = {}
      BY <2>7, <3>6 DEF FlowInv
    <3> QED
      BY <3>3, <3>4, <3>5, <3>6 DEF FlowInv
  <2> QED
    BY <2>2, <2>3, <2>5, <2>8 DEF ObjectsInv
<1> QED
  BY <1>1, <1>2 DEF Next

\* In a program that gets memory of the default heap type only, each object of a
\* span is in every state in the span, with a thread, in a slot or in the hands
\* of one call, and the lists of spans are what they should be.  With other heap
\* types this is not so: switch_heap_type() sends objects to the list of the
\* other type, and a lock can be lost to LockInverter.
THEOREM ObjectsInvariant ==
  ASSUME DefaultOnly
  PROVE  Spec => [](TypeOK /\ SlotInv /\ ObjectsInv)
<1>1. Init => TypeOK /\ SlotInv /\ ObjectsInv
  BY InitKept, InitObjects
<1>2. TypeOK /\ SlotInv /\ ObjectsInv /\ [Next]_vars => (TypeOK /\ SlotInv /\ ObjectsInv)'
  BY NextKept, NextObjects DEF Kept
<1> QED
  BY <1>1, <1>2, PTL DEF Spec

\* The refcount by which ReleaseToSpans() gives a span to the page heap is the
\* number of its objects that are outside, whoever has them, and no object of a
\* span that the page heap has is outside, in a program of the default heap type.
THEOREM ObjectsAlwaysAccounted ==
  ASSUME DefaultOnly
  PROVE  Spec => []ObjectsAccounted
<1>1. TypeOK /\ SlotInv /\ ObjectsInv => ObjectsAccounted
  <2> SUFFICES ASSUME TypeOK, ObjectsInv, NEW s \in Spans
               PROVE  /\ home[s] \in Lists => Balanced(s)
                      /\ home[s] = Heap => Outside(s) = 0
    BY DEF ObjectsAccounted, Balanced
  <2>1. SpanType /\ FlowInv /\ Balance
    BY DEF ObjectsInv
  <2>2. Heap \notin Lists
    BY ListsAssumption
  <2> QED
    BY <2>1, <2>2, OutsideNone DEF Balance
<1> QED
  BY <1>1, ObjectsInvariant, PTL

\* Each span is on the one list it belongs to, on nonempty_ exactly if it has free
\* objects, and counter_ is their number, although the lock is dropped half way,
\* in a program of the default heap type.
THEOREM ListsAlwaysAgree ==
  ASSUME DefaultOnly
  PROVE  Spec => []ListsAgree
<1>1. TypeOK /\ SlotInv /\ ObjectsInv => ListsAgree
  BY DEF ObjectsInv
<1> QED
  BY <1>1, ObjectsInvariant, PTL
=============================================================================
