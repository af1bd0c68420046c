---------------------------- MODULE HashMapProofs ----------------------------
(***************************************************************************)
(* Proofs about the locks of HashMap, the slots they guard and the chains  *)
(* behind them, for any number of threads, locks and members and any       *)
(* length of a word.                                                       *)
(***************************************************************************)
EXTENDS HashMap, FiniteSetTheorems, WellFoundedInduction, SequenceTheorems, TLAPS

-----------------------------------------------------------------------------
(* Powers of two, the sizes of machine integers and of hash tables.  The   *)
(* provers know nothing of them, and 2^n is the number of subsets of 1..n: *)
(* counting subsets takes the place of an induction over n.                *)

\* A power of two is positive: there is at least the empty subset.
LEMMA PowerPositive == \A n \in Nat : 2^n \in Nat /\ 2^n > 0
<1> SUFFICES ASSUME NEW n \in Nat PROVE 2^n \in Nat /\ 2^n > 0
  OBVIOUS
<1>1. IsFiniteSet(1..n) /\ Cardinality(1..n) = n
  BY FS_Interval
<1>2. IsFiniteSet(SUBSET (1..n)) /\ Cardinality(SUBSET (1..n)) = 2^n
  BY <1>1, FS_SUBSET
<1>3. SUBSET (1..n) # {}
  OBVIOUS
<1> QED
  BY <1>2, <1>3, FS_EmptySet, FS_CardinalityType

\* One bit more doubles the range: half of the subsets of 1..(n + 1) have the
\* element n + 1.
LEMMA PowerDoubles == \A n \in Nat : 2^(n + 1) = 2 * 2^n
<1> SUFFICES ASSUME NEW n \in Nat PROVE 2^(n + 1) = 2 * 2^n
  OBVIOUS
<1> DEFINE A == SUBSET (1..n)
           B == {X \in SUBSET (1..(n+1)) : n + 1 \in X}
           f == [X \in A |-> X \cup {n + 1}]
<1>1. /\ IsFiniteSet(A) /\ Cardinality(A) = 2^n
      /\ Cardinality(SUBSET (1..(n+1))) = 2^(n+1)
  <2>1. IsFiniteSet(1..n) /\ Cardinality(1..n) = n
    BY FS_Interval
  <2>2. IsFiniteSet(1..(n+1)) /\ Cardinality(1..(n+1)) = n + 1
    BY FS_Interval
  <2> QED
    BY <2>1, <2>2, FS_SUBSET
<1>2. f \in Bijection(A, B)
  <2>1. \A X \in A : X \cup {n + 1} \in B
    OBVIOUS
  <2>2. \A X, Y \in A : X \cup {n + 1} = Y \cup {n + 1} => X = Y
    <3> SUFFICES ASSUME NEW X \in A, NEW Y \in A,
                        X \cup {n + 1} = Y \cup {n + 1}
                 PROVE  X = Y
      OBVIOUS
    <3>1. n + 1 \notin X /\ n + 1 \notin Y
      OBVIOUS
    <3> QED
      BY <3>1
  <2>3. \A Z \in B : \E X \in A : Z = X \cup {n + 1}
    <3> SUFFICES ASSUME NEW Z \in B PROVE \E X \in A : Z = X \cup {n + 1}
      OBVIOUS
    <3>1. Z \ {n + 1} \in A
      OBVIOUS
    <3>2. Z = (Z \ {n + 1}) \cup {n + 1}
      OBVIOUS
    <3> QED
      BY <3>1, <3>2
  <2>4. f \in [A -> B]
    BY <2>1
  <2>5. \A X \in A : f[X] = X \cup {n + 1}
    OBVIOUS
  <2>6. IsInjective(f)
    <3>1. \A X, Y \in A : f[X] = f[Y] => X = Y
      BY <2>2, <2>5
    <3>2. DOMAIN f = A
      OBVIOUS
    <3> HIDE DEF A, f
    <3> QED
      BY <3>1, <3>2 DEF IsInjective
  <2>7. \A Z \in B : \E X \in A : f[X] = Z
    BY <2>3, <2>5
  <2> HIDE DEF A, B, f
  <2> QED
    BY <2>4, <2>6, <2>7 DEF Bijection, Injection, Surjection
<1>3. IsFiniteSet(B) /\ Cardinality(B) = 2^n
  BY <1>1, <1>2, FS_Bijection DEF ExistsBijection
<1>4. SUBSET (1..(n+1)) = A \cup B
  <2>1. \A X \in SUBSET (1..(n+1)) : n + 1 \notin X => X \in A
    OBVIOUS
  <2>2. A \subseteq SUBSET (1..(n+1)) /\ B \subseteq SUBSET (1..(n+1))
    OBVIOUS
  <2> QED
    BY <2>1, <2>2
<1>5. A \cap B = {}
  <2>1. n + 1 \notin 1..n
    OBVIOUS
  <2> QED
    BY <2>1
<1> HIDE DEF A, B, f
<1>6. Cardinality(A \cap B) = 0
  BY <1>5, FS_EmptySet
<1>7. Cardinality(A \cup B) = Cardinality(A) + Cardinality(B) - Cardinality(A \cap B)
  BY <1>1, <1>3, FS_Union
<1> DEFINE p == 2^n
           q == 2^(n + 1)
<1>8. q = p + p - 0
  BY <1>1, <1>3, <1>4, <1>6, <1>7
<1>9. p \in Nat
  BY PowerPositive
<1> HIDE DEF p, q
<1>10. q = 2 * p
  BY <1>8, <1>9
<1> QED
  BY <1>10 DEF p, q

-----------------------------------------------------------------------------
(* Counting up, for the walk of hash_map_rebuild().                        *)

\* A set of numbers that is not empty has a least one: the intervals from 0
\* are finite sets, and those are well-founded under inclusion.
LEMMA LeastNumber ==
    ASSUME NEW F, F \subseteq Nat, F # {}
    PROVE  \E x \in F : \A y \in F : x <= y
<1> DEFINE T == {0 .. x : x \in F}
           R == StrictSubsetOrdering(Nat)
<1>2. T \subseteq FiniteSubsetsOf(Nat) /\ T # {}
  <2>1. \A x \in F : (0 .. x) \subseteq Nat /\ IsFiniteSet(0 .. x)
    BY FS_Interval
  <2> QED
    BY <2>1 DEF FiniteSubsetsOf
<1>3. PICK I \in T : \A J \in T : <<J, I>> \notin R
  <2>1. IsWellFoundedOn(R, FiniteSubsetsOf(Nat))
    BY FS_StrictSubsetOrderingWellFounded
  <2> HIDE DEF R, T
  <2> QED
    BY <1>2, <2>1, WFMin
<1>4. PICK x \in F : I = 0 .. x
  OBVIOUS
<1>5. ASSUME NEW y \in F PROVE x <= y
  <2> SUFFICES ASSUME y < x PROVE FALSE
    OBVIOUS
  <2>1. (0 .. y) \subseteq (0 .. x) /\ x \in (0 .. x) /\ x \notin (0 .. y)
    OBVIOUS
  <2>2. (0 .. y) \subseteq Nat /\ (0 .. x) \subseteq Nat /\ (0 .. y) # (0 .. x)
    BY <2>1
  <2>3. <<0 .. y, 0 .. x>> \in R
    BY <2>1, <2>2 DEF StrictSubsetOrdering
  <2>4. (0 .. y) \in T
    OBVIOUS
  <2> QED
    BY <1>3, <1>4, <2>3, <2>4
<1> QED
  BY <1>5

\* What holds at 0, and with a number at the next, holds up to n.
LEMMA UpTo ==
    ASSUME NEW n \in Nat, NEW S, 0 \in S, \A k \in 0 .. n : k + 1 \in 0 .. n /\ k \in S => k + 1 \in S
    PROVE  0 .. n \subseteq S
<1> SUFFICES ASSUME (0 .. n) \ S # {} PROVE FALSE
  OBVIOUS
<1> DEFINE F == (0 .. n) \ S
<1>1. F \subseteq Nat /\ F # {}
  OBVIOUS
<1>2. PICK x \in F : \A y \in F : x <= y
  <2> HIDE DEF F
  <2> QED
    BY <1>1, LeastNumber
<1>3. x # 0 /\ x - 1 \in 0 .. n /\ x - 1 \notin F
  BY <1>2
<1> QED
  BY <1>3

-----------------------------------------------------------------------------
(* Types.                                                                  *)

PCs == {"idle", "full", "rebuild", "lockall", "resize", "rehash", "unlockall", "len",
        "slot", "lock", "find", "add", "link", "value", "delete"}

\* The local variables of an operation; what it found is left open.
OpOK(t) ==
    op[t] \in [call : {"none", "find", "add", "delete"}, key : Keys \cup {NoKey},
               len : Nat, mask : Nat, slot : Nat, i : Nat,
               member : {op[t].member}, first : {op[t].first}]

TypeOK ==
    /\ client \in {"serial", "shared", "gone"}
    /\ key_len \in 1..WordBits /\ mask_len \in 0..WordBits
    /\ DOMAIN map = 0 .. 2^key_len - 1
    /\ fill \in Int
    /\ lock \in [LockIdx -> Threads \cup {NoThread}]
    /\ key \in [Members -> Keys \cup {NoKey}]
    /\ pc \in [Threads -> PCs]
    /\ op = [t \in Threads |-> op[t]] /\ \A t \in Threads : OpOK(t)

-----------------------------------------------------------------------------
(* Locks.                                                                  *)

\* Under the lock of a slot, and under all the locks.
UnderSlot(t) == pc[t] \in {"find", "add", "link", "delete"}
UnderAll(t) == pc[t] \in {"resize", "rehash", "unlockall"}

\* The locks a thread should hold.
Holds(t, i) ==
    \/ UnderSlot(t) /\ i = get_lock_idx(op[t].slot)
    \/ UnderAll(t)
    \/ pc[t] = "lockall" /\ i < op[t].i

LockInv ==
    /\ \A t \in Threads, i \in LockIdx : (lock[i] = t) <=> Holds(t, i)
    /\ \A t \in Threads : pc[t] = "lockall" => op[t].i \in 1..NLock

-----------------------------------------------------------------------------
(* Slots.                                                                  *)

\* Only during a rebuild are the two lengths different.
MaskInv ==
    \/ mask_len = key_len
    \/ mask_len = key_len - 1 /\ \E t \in Threads : pc[t] = "rehash"

\* A slot that has been computed from the length there is now is in the table.
SlotInv(t) ==
    /\ pc[t] \in {"slot", "lock"} => op[t].len \in 1..key_len
    /\ UnderSlot(t) => op[t].len = key_len
    /\ pc[t] = "lock" \/ UnderSlot(t) =>
          (op[t].len = key_len => op[t].slot \in 0 .. 2^key_len - 1)

-----------------------------------------------------------------------------
(* Calls, and the size of the table.                                       *)

CallInv(t) ==
    /\ (pc[t] = "idle") <=> (op[t].call = "none")
    /\ pc[t] = "delete" => op[t].call = "delete"
    /\ op[t].call = "delete" => client = "serial"
    /\ pc[t] # "idle" => op[t].key \in Keys

\* The event queue's lock lets one thread in, and none is in at the end.
ClientInv ==
    /\ client = "serial" =>
         \A t, u \in Threads : pc[t] # "idle" /\ pc[u] # "idle" => t = u
    /\ client = "gone" => \A t \in Threads : pc[t] = "idle"

\* The members that are in a chain and not yet on hmap->members.
BeingLinked == {op[t].member : t \in {u \in Threads : pc[u] = "link"}}

LinkInv ==
    /\ BeingLinked \subseteq InUse
    /\ \A t, u \in Threads :
          pc[t] = "link" /\ pc[u] = "link" /\ op[t].member = op[u].member => t = u

\* No more members are counted than there are, so the table only grows while
\* it has a slot for less than two of them.
FillInv ==
    /\ fill <= Cardinality(InUse \ BeingLinked)
    /\ \A t \in Threads : pc[t] \in {"lockall", "resize"} =>
          2^key_len \div 2 < Cardinality(Members)

TableInv ==
    /\ TypeOK /\ LockInv /\ MaskInv
    /\ \A t \in Threads : SlotInv(t) /\ CallInv(t)
    /\ ClientInv /\ LinkInv /\ FillInv

-----------------------------------------------------------------------------
(* Chains.  m stands for a member.                                         *)

\* The slot of a member in the table that is there, and whether it is found.
Has(c, x) == \E i \in DOMAIN c : c[i] = x
SlotOf(m) == get_map_slot(key[m], key_len, key_len)
Chained(m) == Has(map[SlotOf(m)], m)

\* The members that hmap->members has, or will have when list_add() is done.
Listed ==
    Range(members) \cup BeingLinked
        \cup UNION {Range(op[t].first) : t \in {u \in Threads : pc[u] = "link"}}

ChainType ==
    /\ \A s \in DOMAIN map : map[s] \in Seq(Members)
    /\ members \in Seq(Members)
    /\ \A t \in Threads : pc[t] = "link" => op[t].first \in Seq(Members)
    /\ map = [s \in DOMAIN map |-> map[s]]

\* Outside a rebuild every member that the list has is in the chain of its
\* slot, unless it was put elsewhere.
ChainInv ==
    (\A t \in Threads : pc[t] # "rehash") =>
        \A m \in (InUse \cap Listed) \ torn : Chained(m)

\* What an operation has computed and found.
FoundInv(t) ==
    /\ pc[t] = "lock" \/ UnderSlot(t) =>
          op[t].slot = get_map_slot(op[t].key, op[t].mask, op[t].len)
    /\ pc[t] = "value" \/ op[t].call = "delete" =>
          op[t].member \in Members /\ key[op[t].member] = op[t].key
    /\ pc[t] \in {"find", "add", "link", "value"} => op[t].call # "delete"

\* With the event queue's lock nothing is put elsewhere and nothing is lost.
OwnTable(t) ==
    /\ pc[t] = "slot" => op[t].len = key_len
    /\ pc[t] = "lock" \/ UnderSlot(t) => op[t].len = key_len /\ op[t].mask = key_len
    /\ pc[t] = "link" => op[t].first = members

SerialInv ==
    client = "serial" =>
        /\ torn = {} /\ InUse \subseteq Range(members) \cup BeingLinked
        /\ \A t \in Threads : OwnTable(t)

ChainsInv ==
    ChainType /\ ChainInv /\ (\A t \in Threads : FoundInv(t)) /\ SerialInv

IInv == TableInv /\ ChainsInv

-----------------------------------------------------------------------------
(* The arithmetic of get_map_slot().                                       *)

\* What a multiplication by L has added, a division takes away.
LEMMA DivExact == \A q \in Nat, L \in Nat \ {0} : (q * L) \div L = q
OBVIOUS

\* Half of a difference that is one larger.
LEMMA HalfStep ==
  ASSUME NEW d \in Nat
  PROVE  /\ d \div 2 \in Nat
         /\ (d + 1) \div 2 \in {d \div 2, d \div 2 + 1}
OBVIOUS

\* The remainder of a division by a power of two.
LEMMA RemainderBelow ==
  ASSUME NEW x \in Int, NEW B \in Nat \ {0}
  PROVE  x % B \in Nat /\ x % B < B
OBVIOUS

\* A quotient of natural numbers.
LEMMA QuotientNat ==
  ASSUME NEW x \in Nat, NEW B \in Nat \ {0}
  PROVE  x \div B \in Nat
OBVIOUS

\* The masked part of a square, for any two lengths, and for lengths of which one
\* may be one short.
LEMMA MaskedShifted ==
  ASSUME NEW x \in Int, NEW m \in 0..WordBits, NEW len \in 1..WordBits
  PROVE  /\ Masked(x, m) \div 2^((WordBits - len) \div 2) \in Nat
         /\ m \in {len, len - 1} =>
              Masked(x, m) \div 2^((WordBits - len) \div 2) \in 0 .. 2^len - 1
<1> DEFINE low == (WordBits - m) \div 2
           cut == (WordBits - len) \div 2
           A == 2^low
           L == 2^cut
           q == (x \div A) % 2^m
<1>1. /\ WordBits - m \in Nat /\ WordBits - len \in Nat /\ m \in Nat /\ len \in Nat
      /\ WordBits \in Nat
  BY HashMapAssumption
<1>2. low \in Nat /\ cut \in Nat
  BY <1>1, HalfStep
<1> HIDE DEF low, cut
<1>3. A \in Nat \ {0} /\ L \in Nat \ {0} /\ 2^m \in Nat \ {0} /\ 2^len \in Nat \ {0}
  BY <1>1, <1>2, PowerPositive
<1>4. x \div A \in Int
  BY <1>3
<1>5. q \in Nat /\ q < 2^m
  BY <1>3, <1>4, RemainderBelow
<1>6. Masked(x, m) = q * A
  BY DEF Masked, low
<1>7. (q * A) \div L \in Nat
  <2> HIDE DEF A, L, q
  <2>1. q * A \in Nat
    BY <1>3, <1>5
  <2> QED
    BY <1>3, <2>1, QuotientNat
<1>8. ASSUME m = len PROVE (q * A) \div L \in 0 .. 2^len - 1
  <2>1. A = L
    BY <1>8 DEF low, cut
  <2> HIDE DEF A, L, q
  <2>2. (q * A) \div L = q
    BY <1>3, <1>5, <2>1, DivExact
  <2> QED
    BY <1>3, <1>5, <1>8, <2>2
<1>9. ASSUME m = len - 1 PROVE (q * A) \div L \in 0 .. 2^len - 1
  <2>1. 2^len = 2 * 2^m
    <3>1. len = m + 1
      BY <1>1, <1>9
    <3> QED
      BY <1>1, <3>1, PowerDoubles
  <2>2. low \in {cut, cut + 1}
    <3>1. WordBits - m = (WordBits - len) + 1
      BY <1>1, <1>9
    <3> QED
      BY <1>1, <3>1, HalfStep DEF low, cut
  <2>3. A = L \/ A = 2 * L
    BY <1>2, <2>2, PowerDoubles
  <2> HIDE DEF A, L, q
  <2>4. CASE A = L
    <3>1. (q * A) \div L = q
      BY <1>3, <1>5, <2>4, DivExact
    <3> QED
      BY <1>3, <1>5, <2>1, <3>1
  <2>5. CASE A = 2 * L
    <3>1. q * A = (2 * q) * L /\ 2 * q \in Nat
      BY <1>3, <1>5, <2>5
    <3>2. (q * A) \div L = 2 * q
      BY <1>3, <3>1, DivExact
    <3> QED
      BY <1>3, <1>5, <2>1, <3>2
  <2> QED
    BY <2>3, <2>4, <2>5
<1> HIDE DEF A, L, q
<1>10. Masked(x, m) \div L \in Nat /\ (m \in {len, len - 1} => Masked(x, m) \div L \in 0 .. 2^len - 1)
  BY <1>6, <1>7, <1>8, <1>9
<1> QED
  BY <1>10 DEF L, cut

\* Every key has a slot; if the mask belongs to the key length or to the one
\* before, as it may for a moment during a rebuild, the slot is in the table.
LEMMA SlotOfKey ==
  ASSUME NEW k \in Keys \cup {NoKey}, NEW m \in 0..WordBits, NEW len \in 1..WordBits
  PROVE  /\ get_map_slot(k, m, len) \in Nat
         /\ m \in {len, len - 1} => get_map_slot(k, m, len) \in 0 .. 2^len - 1
<1> DEFINE h == k + k \div 2^len + k \div 2^(2 * len) + k \div 2^(4 * len)
<1>1. k \in Int
  <2>1. WordBits \in Nat
    BY HashMapAssumption
  <2>2. 2^WordBits \in Nat /\ 2^WordBits > 0
    BY <2>1, PowerPositive
  <2> QED
    BY <2>2, HashMapAssumption DEF NoKey
<1>2. h \in Int
  <2>1. len \in Nat /\ 2 * len \in Nat /\ 4 * len \in Nat
    BY HashMapAssumption
  <2>2. 2^len \in Nat \ {0} /\ 2^(2 * len) \in Nat \ {0} /\ 2^(4 * len) \in Nat \ {0}
    BY <2>1, PowerPositive
  <2>3. k \div 2^len \in Int /\ k \div 2^(2 * len) \in Int /\ k \div 2^(4 * len) \in Int
    BY <1>1, <2>2
  <2> QED
    BY <1>1, <2>3
<1>3. (h * h) % 2^WordBits \in Int
  <2> HIDE DEF h
  <2>1. h * h \in Int
    BY <1>2
  <2>2. 2^WordBits \in Nat \ {0}
    BY PowerPositive, HashMapAssumption
  <2> QED
    BY <2>1, <2>2, RemainderBelow
<1>4. get_map_slot(k, m, len)
        = Masked((h * h) % 2^WordBits, m) \div 2^((WordBits - len) \div 2)
  BY DEF get_map_slot
<1> HIDE DEF h
<1> QED
  BY <1>3, <1>4, MaskedShifted

\* A slot has a lock.
LEMMA LockOfSlot == \A slot \in Nat : get_lock_idx(slot) \in LockIdx
<1>1. NLock \in Nat \ {0}
  <2>1. HT_INIT_KEY_LEN \in Nat
    BY HashMapAssumption
  <2>2. 2^HT_INIT_KEY_LEN \in Nat
    BY <2>1, PowerPositive
  <2> QED
    BY <2>2, HashMapAssumption
<1>2. \A slot \in Nat : slot % NLock \in Nat /\ slot % NLock < NLock
  BY <1>1, RemainderBelow
<1> QED
  BY <1>1, <1>2 DEF get_lock_idx, LockIdx

-----------------------------------------------------------------------------
(* The steps.                                                              *)

\* The other threads are where they were.
OthersStay(t) ==
    \A u \in Threads \ {t} : pc'[u] = pc[u] /\ op'[u] = op[u]

\* The local variables r of an operation.
OpRecord(r) ==
    r \in [call : {"none", "find", "add", "delete"}, key : Keys \cup {NoKey},
           len : Nat, mask : Nat, slot : Nat, i : Nat,
           member : {r.member}, first : {r.first}]

\* A thread changes its own variables.
LEMMA OpUpdate ==
  ASSUME TypeOK, NEW t \in Threads, NEW r, OpRecord(r),
         op' = [op EXCEPT ![t] = r]
  PROVE  /\ op'[t] = r /\ \A u \in Threads \ {t} : op'[u] = op[u]
         /\ op' = [u \in Threads |-> op'[u]]
         /\ \A u \in Threads : OpOK(u)'
<1>1. DOMAIN op = Threads
  BY DEF TypeOK
<1>2. op'[t] = r /\ \A u \in Threads \ {t} : op'[u] = op[u]
  BY <1>1
<1>3. op' = [u \in Threads |-> op'[u]]
  BY <1>1
<1>4. \A u \in Threads : OpOK(u)'
  <2>1. OpOK(t)'
    BY <1>2 DEF OpOK, OpRecord
  <2>2. \A u \in Threads \ {t} : OpOK(u)'
    BY <1>2 DEF TypeOK, OpOK
  <2> QED
    BY <2>1, <2>2
<1> QED
  BY <1>2, <1>3, <1>4

\* The fields of an operation.
LEMMA OpFields ==
  ASSUME TypeOK, NEW t \in Threads
  PROVE  /\ OpRecord(op[t])
         /\ op[t].call \in {"none", "find", "add", "delete"}
         /\ op[t].key \in Keys \cup {NoKey} /\ op[t].len \in Nat /\ op[t].mask \in Nat
         /\ op[t].slot \in Nat /\ op[t].i \in Nat
BY DEF TypeOK, OpOK, OpRecord

\* A thread takes or gives locks that nobody else holds.
LEMMA LockStep ==
  ASSUME TypeOK, LockInv, NEW t \in Threads, OthersStay(t),
         \A i \in LockIdx : \/ lock'[i] = lock[i]
                            \/ {lock[i], lock'[i]} \subseteq {t, NoThread},
         \A i \in LockIdx : (lock'[i] = t) <=> Holds(t, i)',
         pc'[t] = "lockall" => op'[t].i \in 1..NLock
  PROVE  LockInv'
<1>0. \A u \in Threads : u # NoThread
  BY HashMapAssumption
<1>1. ASSUME NEW u \in Threads, NEW i \in LockIdx PROVE (lock'[i] = u) <=> Holds(u, i)'
  <2>1. CASE u = t
    BY <2>1
  <2>2. CASE u # t
    <3>1. Holds(u, i)' = Holds(u, i)
      BY <2>2 DEF OthersStay, Holds, UnderSlot, UnderAll
    <3>2. (lock'[i] = u) <=> (lock[i] = u)
      BY <1>0, <2>2
    <3> QED
      BY <3>1, <3>2 DEF LockInv
  <2> QED
    BY <2>1, <2>2
<1>2. \A u \in Threads : pc'[u] = "lockall" => op'[u].i \in 1..NLock
  BY DEF OthersStay, LockInv
<1> QED
  BY <1>1, <1>2 DEF LockInv

\* A step that adds and counts no member and does not resize the table.
LEMMA PlainStep ==
  ASSUME TableInv, NEW t \in Threads, OthersStay(t), TypeOK', LockInv',
         UNCHANGED <<client, key_len, mask_len, fill, key>>,
         pc[t] \notin {"rehash", "link"}, pc'[t] # "link",
         SlotInv(t)', CallInv(t)',
         pc[t] # "idle" \/ (/\ client # "gone"
                            /\ client = "serial" => \A u \in Threads : pc[u] = "idle"),
         pc'[t] \in {"lockall", "resize"} => 2^key_len \div 2 < Cardinality(Members)
  PROVE  TableInv'
<1> USE DEF TableInv
<1>1. MaskInv'
  BY DEF MaskInv, OthersStay
<1>2. \A u \in Threads : SlotInv(u)'
  BY DEF SlotInv, OthersStay, UnderSlot
<1>3. \A u \in Threads : CallInv(u)'
  BY DEF CallInv, OthersStay
<1>4. ClientInv'
  BY DEF ClientInv, OthersStay
<1>5. BeingLinked' = BeingLinked /\ InUse' = InUse
  BY DEF BeingLinked, InUse, OthersStay
<1>6. LinkInv'
  BY <1>5 DEF LinkInv, OthersStay
<1>7. FillInv'
  BY <1>5 DEF FillInv, OthersStay
<1> QED
  BY <1>1, <1>2, <1>3, <1>4, <1>6, <1>7

\* ... and neither takes nor gives a lock.
LEMMA LocalStep ==
  ASSUME TableInv, NEW t \in Threads, NEW r, OpRecord(r), NEW label \in PCs,
         op' = [op EXCEPT ![t] = r], pc' = [pc EXCEPT ![t] = label],
         UNCHANGED <<client, map, fill, key_len, mask_len, lock, key>>,
         pc[t] \in {"idle", "full", "rebuild", "len", "slot", "lock", "value"},
         label \in {"idle", "full", "rebuild", "len", "slot", "lock", "value"},
         label = "slot" => r.len \in 1..key_len,
         label = "lock" => /\ r.len \in 1..key_len
                           /\ r.len = key_len => r.slot \in 0 .. 2^key_len - 1,
         (label = "idle") <=> (r.call = "none"), label # "idle" => r.key \in Keys,
         r.call = "delete" => client = "serial",
         pc[t] # "idle" \/ (/\ client # "gone"
                            /\ client = "serial" => \A u \in Threads : pc[u] = "idle")
  PROVE  TableInv'
<1> USE DEF TableInv
<1>1. /\ op'[t] = r /\ \A u \in Threads \ {t} : op'[u] = op[u]
      /\ op' = [u \in Threads |-> op'[u]]
      /\ \A u \in Threads : OpOK(u)'
  BY OpUpdate
<1>2. /\ pc'[t] = label /\ \A u \in Threads \ {t} : pc'[u] = pc[u]
      /\ pc' \in [Threads -> PCs]
  BY DEF TypeOK
<1>3. OthersStay(t)
  BY <1>1, <1>2 DEF OthersStay
<1>4. TypeOK'
  BY <1>1, <1>2 DEF TypeOK
<1>5. \A i \in LockIdx : (lock'[i] = t) <=> Holds(t, i)'
  <2>1. \A i \in LockIdx : ~Holds(t, i) /\ ~Holds(t, i)'
    BY <1>2 DEF Holds, UnderSlot, UnderAll
  <2> QED
    BY <2>1 DEF LockInv
<1>6. LockInv'
  BY <1>2, <1>3, <1>5, LockStep
<1>7. SlotInv(t)'
  BY <1>1, <1>2 DEF SlotInv, UnderSlot
<1>8. CallInv(t)'
  BY <1>1, <1>2 DEF CallInv
<1> QED
  BY <1>2, <1>3, <1>4, <1>6, <1>7, <1>8, PlainStep

\* The steps without a lock: calls, the look at fill, the key length and the
\* slot, and the value that was found.
LEMMA UnlockedKeeps ==
  ASSUME TableInv, NEW t \in Threads,
         \/ \E call \in {"find", "add"}, k \in Keys : Call(t, call, k)
         \/ AddMember(t) \/ ReadKeyLen(t) \/ ComputeSlot(t) \/ ReadValue(t)
  PROVE  TableInv'
<1> USE DEF TableInv
<1>0. /\ OpRecord(op[t]) /\ op \in [Threads -> {op[u] : u \in Threads}]
      /\ CallInv(t) /\ SlotInv(t) /\ pc[t] \in PCs
      /\ key_len \in 1..WordBits /\ mask_len \in 0..WordBits /\ WordBits \in Nat
  BY OpFields, HashMapAssumption DEF TypeOK
<1>1. ASSUME NEW call \in {"find", "add"}, NEW k \in Keys, Call(t, call, k) PROVE TableInv'
  <2> DEFINE r == [op[t] EXCEPT !.call = call, !.key = k]
             label == IF call = "add" THEN "full" ELSE "len"
  <2>1. OpRecord(r) /\ r.call = call /\ r.key \in Keys
    BY <1>0 DEF OpRecord
  <2>2. /\ op' = [op EXCEPT ![t] = r] /\ pc' = [pc EXCEPT ![t] = label]
        /\ UNCHANGED <<client, map, fill, key_len, mask_len, lock, key>>
        /\ pc[t] = "idle" /\ client # "gone"
        /\ client = "serial" => \A u \in Threads : pc[u] = "idle"
    BY <1>0, <1>1 DEF Call, Goto, OpRecord
  <2>3. label \in {"full", "len"} /\ label \in PCs
    BY DEF PCs
  <2> HIDE DEF r, label
  <2> QED
    BY <2>1, <2>2, <2>3, LocalStep
<1>2. CASE AddMember(t)
  <2> DEFINE label == IF hash_map_full THEN "rebuild" ELSE "len"
  <2>1. /\ op' = [op EXCEPT ![t] = op[t]] /\ pc' = [pc EXCEPT ![t] = label]
        /\ UNCHANGED <<client, map, fill, key_len, mask_len, lock, key>>
        /\ pc[t] = "full"
    BY <1>0, <1>2 DEF AddMember, Goto
  <2>2. label \in {"rebuild", "len"} /\ label \in PCs
    BY DEF PCs
  <2> HIDE DEF label
  <2> QED
    BY <1>0, <2>1, <2>2, LocalStep DEF CallInv
<1>3. CASE ReadKeyLen(t)
  <2> DEFINE r == [op[t] EXCEPT !.len = key_len]
  <2>1. OpRecord(r) /\ r.call = op[t].call /\ r.key = op[t].key /\ r.len = key_len
    BY <1>0 DEF OpRecord
  <2>2. /\ op' = [op EXCEPT ![t] = r] /\ pc' = [pc EXCEPT ![t] = "slot"]
        /\ UNCHANGED <<client, map, fill, key_len, mask_len, lock, key>>
        /\ pc[t] = "len" /\ "slot" \in PCs
    BY <1>0, <1>3 DEF ReadKeyLen, Goto, OpRecord, PCs
  <2>3. key_len \in 1..key_len
    BY <1>0
  <2> HIDE DEF r
  <2> QED
    BY <1>0, <2>1, <2>2, <2>3, LocalStep DEF CallInv
<1>4. CASE ComputeSlot(t)
  <2> DEFINE sl == get_map_slot(op[t].key, mask_len, op[t].len)
             r == [op[t] EXCEPT !.mask = mask_len, !.slot = sl]
  <2>0. pc[t] = "slot" /\ op[t].len \in 1..key_len /\ op[t].key \in Keys \cup {NoKey}
    BY <1>0, <1>4 DEF ComputeSlot, SlotInv, OpRecord
  <2>1. sl \in Nat /\ (op[t].len = key_len => sl \in 0 .. 2^key_len - 1)
    <3>1. op[t].len \in 1..WordBits
      BY <1>0, <2>0
    <3>2. mask_len \in {key_len, key_len - 1}
      BY DEF MaskInv
    <3> QED
      BY <1>0, <2>0, <3>1, <3>2, SlotOfKey
  <2> HIDE DEF sl
  <2>2. /\ OpRecord(r) /\ r.call = op[t].call /\ r.key = op[t].key
        /\ r.len = op[t].len /\ r.slot = sl
    <3>1. mask_len \in Nat /\ sl \in Nat
      BY <1>0, <2>1
    <3> QED
      BY <1>0, <3>1 DEF OpRecord
  <2>3. /\ op' = [op EXCEPT ![t] = r] /\ pc' = [pc EXCEPT ![t] = "lock"]
        /\ UNCHANGED <<client, map, fill, key_len, mask_len, lock, key>>
        /\ "lock" \in PCs
    BY <1>0, <1>4 DEF ComputeSlot, Goto, OpRecord, PCs, sl
  <2> HIDE DEF r
  <2> QED
    BY <1>0, <2>0, <2>1, <2>2, <2>3, LocalStep DEF CallInv
<1>5. CASE ReadValue(t)
  <2>0. pc[t] = "value" /\ UNCHANGED <<client, map, fill, key_len, mask_len, lock, key>>
    BY <1>5 DEF ReadValue
  <2>1. CASE Return(t)
    <3>1. OpRecord(NoOp) /\ NoOp.call = "none" /\ "idle" \in PCs
      BY DEF OpRecord, NoOp, PCs
    <3> QED
      BY <2>0, <2>1, <3>1, LocalStep DEF Return, Goto
  <2>2. CASE /\ client = "serial" /\ op' = [op EXCEPT ![t].call = "delete"]
             /\ Goto(t, "len")
    <3> DEFINE r == [op[t] EXCEPT !.call = "delete"]
    <3>1. OpRecord(r) /\ r.call = "delete" /\ r.key = op[t].key
      BY <1>0 DEF OpRecord
    <3>2. op' = [op EXCEPT ![t] = r] /\ pc' = [pc EXCEPT ![t] = "len"] /\ "len" \in PCs
      BY <1>0, <2>2 DEF Goto, OpRecord, PCs
    <3> HIDE DEF r
    <3> QED
      BY <1>0, <2>0, <2>2, <3>1, <3>2, LocalStep DEF CallInv
  <2> QED
    BY <1>5, <2>1, <2>2 DEF ReadValue
<1> QED
  BY <1>1, <1>2, <1>3, <1>4, <1>5

\* The locks of a thread at a label with the local variables r.
HoldsAt(label, r, i) ==
    \/ label \in {"find", "add", "link", "delete"} /\ i = get_lock_idx(r.slot)
    \/ label \in {"resize", "rehash", "unlockall"}
    \/ label = "lockall" /\ i < r.i

\* A step that takes or gives locks.
LEMMA LockedStep ==
  ASSUME TableInv, NEW t \in Threads, NEW r, OpRecord(r), NEW label \in PCs,
         op' = [op EXCEPT ![t] = r], pc' = [pc EXCEPT ![t] = label],
         UNCHANGED <<client, map, fill, key_len, mask_len, key>>,
         lock' \in [LockIdx -> Threads \cup {NoThread}],
         \A i \in LockIdx : \/ lock'[i] = lock[i]
                            \/ {lock[i], lock'[i]} \subseteq {t, NoThread},
         \A i \in LockIdx : (lock'[i] = t) <=> HoldsAt(label, r, i),
         label = "lockall" => r.i \in 1..NLock,
         pc[t] \notin {"idle", "rehash", "link"}, label \notin {"rehash", "link"},
         label \notin {"slot", "lock"},
         label \in {"find", "add", "delete"} =>
            r.len = key_len /\ r.slot \in 0 .. 2^key_len - 1,
         (label = "idle") <=> (r.call = "none"), label # "idle" => r.key \in Keys,
         r.call = "delete" => client = "serial",
         label = "delete" => r.call = "delete",
         label \in {"lockall", "resize"} => 2^key_len \div 2 < Cardinality(Members)
  PROVE  TableInv'
<1> USE DEF TableInv
<1>1. /\ op'[t] = r /\ \A u \in Threads \ {t} : op'[u] = op[u]
      /\ op' = [u \in Threads |-> op'[u]]
      /\ \A u \in Threads : OpOK(u)'
  BY OpUpdate
<1>2. /\ pc'[t] = label /\ \A u \in Threads \ {t} : pc'[u] = pc[u]
      /\ pc' \in [Threads -> PCs]
  BY DEF TypeOK
<1>3. OthersStay(t)
  BY <1>1, <1>2 DEF OthersStay
<1>4. TypeOK'
  BY <1>1, <1>2 DEF TypeOK
<1>5. \A i \in LockIdx : (lock'[i] = t) <=> Holds(t, i)'
  BY <1>1, <1>2 DEF Holds, UnderSlot, UnderAll, HoldsAt
<1>6. LockInv'
  BY <1>1, <1>2, <1>3, <1>5, LockStep
<1>7. SlotInv(t)'
  BY <1>1, <1>2 DEF SlotInv, UnderSlot
<1>8. CallInv(t)'
  BY <1>1, <1>2 DEF CallInv
<1> QED
  BY <1>2, <1>3, <1>4, <1>6, <1>7, <1>8, PlainStep

\* The number of locks, and the first of them.
LEMMA Locks == NLock \in Nat \ {0} /\ 0 \in LockIdx /\ \A i \in LockIdx : i \in Nat
<1>1. HT_INIT_KEY_LEN \in Nat
  BY HashMapAssumption
<1>2. 2^HT_INIT_KEY_LEN \in Nat
  BY <1>1, PowerPositive
<1> QED
  BY <1>2, HashMapAssumption DEF LockIdx

\* The table has 2^key_len slots, so a map that is full has more than half as
\* many members.
LEMMA FullTable ==
  ASSUME TableInv
  PROVE  /\ 2^key_len \in Nat \ {0} /\ Size = 2^key_len
         /\ hash_map_full => 2^key_len \div 2 < Cardinality(Members)
<1> USE DEF TableInv
<1>1. key_len \in Nat /\ 2^key_len \in Nat \ {0}
  <2>1. key_len \in Nat
    BY HashMapAssumption DEF TypeOK
  <2> QED
    BY <2>1, PowerPositive
<1>2. Size = 2^key_len
  <2> DEFINE n == 2^key_len
  <2>1. DOMAIN map = 0 .. n - 1
    BY DEF TypeOK
  <2> HIDE DEF n
  <2>2. n \in Nat \ {0}
    BY <1>1 DEF n
  <2>3. Cardinality(0 .. n - 1) = n
    <3>1. 0 <= n - 1 /\ n - 1 \in Int /\ (n - 1) - 0 + 1 = n
      BY <2>2
    <3> QED
      BY <3>1, FS_Interval
  <2> QED
    BY <2>1, <2>3 DEF Size, n
<1>3. Cardinality(InUse \ BeingLinked) <= Cardinality(Members)
      /\ Cardinality(InUse \ BeingLinked) \in Nat /\ Cardinality(Members) \in Nat
  <2>1. InUse \ BeingLinked \subseteq Members /\ IsFiniteSet(Members)
    BY HashMapAssumption DEF InUse
  <2>2. IsFiniteSet(InUse \ BeingLinked)
    BY <2>1, FS_Subset
  <2> QED
    BY <2>1, <2>2, FS_Subset, FS_CardinalityType
<1>4. ASSUME hash_map_full PROVE 2^key_len \div 2 < Cardinality(Members)
  <2>1. 2^key_len \div 2 < fill /\ fill <= Cardinality(InUse \ BeingLinked)
        /\ fill \in Int
    BY <1>2, <1>4 DEF hash_map_full, FillInv, TypeOK
  <2> DEFINE h == 2^key_len \div 2
             a == Cardinality(InUse \ BeingLinked)
             b == Cardinality(Members)
  <2>2. h \in Int
    BY <1>1
  <2> HIDE DEF h, a, b
  <2>3. h < fill /\ fill <= a /\ a <= b /\ a \in Nat /\ b \in Nat
    BY <1>3, <2>1 DEF h, a, b
  <2>4. h < b
    BY <2>1, <2>2, <2>3
  <2> QED
    BY <2>4 DEF h, b
<1> QED
  BY <1>1, <1>2, <1>4

\* The steps of hash_map_rebuild() that take or give locks.
LEMMA RebuildLocksKeep ==
  ASSUME TableInv, NEW t \in Threads, hash_map_rebuild(t) \/ LockAll(t) \/ UnlockAll(t)
  PROVE  TableInv'
<1> USE DEF TableInv
<1>0. /\ OpRecord(op[t]) /\ op \in [Threads -> {op[u] : u \in Threads}]
      /\ CallInv(t) /\ SlotInv(t) /\ pc[t] \in PCs
      /\ lock \in [LockIdx -> Threads \cup {NoThread}] /\ t # NoThread
      /\ {"lockall", "unlockall", "resize", "len"} \subseteq PCs
  BY OpFields, HashMapAssumption DEF TypeOK, PCs
<1>1. ASSUME hash_map_rebuild(t), hash_map_full PROVE TableInv'
  <2> DEFINE r == [op[t] EXCEPT !.i = 1]
  <2>1. OpRecord(r) /\ r.call = op[t].call /\ r.key = op[t].key /\ r.i = 1
    BY <1>0 DEF OpRecord
  <2>2. /\ op' = [op EXCEPT ![t] = r] /\ pc' = [pc EXCEPT ![t] = "lockall"]
        /\ UNCHANGED <<client, map, fill, key_len, mask_len, key>>
        /\ pc[t] = "rebuild" /\ lock[0] = NoThread /\ lock' = [lock EXCEPT ![0] = t]
    BY <1>0, <1>1 DEF hash_map_rebuild, Goto, OpRecord
  <2> HIDE DEF r
  <2>3. /\ lock' \in [LockIdx -> Threads \cup {NoThread}]
        /\ \A i \in LockIdx : \/ lock'[i] = lock[i]
                              \/ {lock[i], lock'[i]} \subseteq {t, NoThread}
    BY <1>0, <2>2
  <2>4. \A i \in LockIdx : lock[i] # t
    BY <2>2 DEF LockInv, Holds, UnderSlot, UnderAll
  <2>5. \A i \in LockIdx : (lock'[i] = t) <=> HoldsAt("lockall", r, i)
    <3>1. \A i \in LockIdx : (lock'[i] = t) <=> i < 1
      BY <1>0, <2>2, <2>4, Locks
    <3> QED
      BY <2>1, <3>1 DEF HoldsAt
  <2>6. 1 \in 1..NLock /\ 2^key_len \div 2 < Cardinality(Members)
    BY <1>1, Locks, FullTable
  <2>7. r.call # "none" /\ (r.call = "delete" => client = "serial") /\ r.key \in Keys
    BY <1>0, <2>1, <2>2 DEF CallInv
  <2> HIDE DEF TableInv
  <2> QED
    BY <1>0, <2>1, <2>2, <2>3, <2>5, <2>6, <2>7, LockedStep
<1>2. ASSUME hash_map_rebuild(t), ~hash_map_full PROVE TableInv'
  <2>1. /\ op' = [op EXCEPT ![t] = op[t]] /\ pc' = [pc EXCEPT ![t] = "len"]
        /\ UNCHANGED <<client, map, fill, key_len, mask_len, lock, key>>
        /\ pc[t] = "rebuild"
    BY <1>0, <1>2 DEF hash_map_rebuild, Goto
  <2> QED
    BY <1>0, <2>1, LocalStep DEF CallInv
<1>3. ASSUME LockAll(t), op[t].i < NLock PROVE TableInv'
  <2> DEFINE r == [op[t] EXCEPT !.i = op[t].i + 1]
  <2>0. op[t].i \in Nat /\ op[t].i \in LockIdx
    BY <1>0, <1>3, Locks DEF OpRecord, LockIdx
  <2>1. OpRecord(r) /\ r.call = op[t].call /\ r.key = op[t].key /\ r.i = op[t].i + 1
    <3>1. op[t].i + 1 \in Nat
      BY <2>0
    <3> QED
      BY <1>0, <3>1 DEF OpRecord
  <2>2. /\ op' = [op EXCEPT ![t] = r] /\ pc' = [pc EXCEPT ![t] = "lockall"]
        /\ UNCHANGED <<client, map, fill, key_len, mask_len, key>>
        /\ pc[t] = "lockall" /\ lock[op[t].i] = NoThread
        /\ lock' = [lock EXCEPT ![op[t].i] = t]
    BY <1>0, <1>3 DEF LockAll, OpRecord, TypeOK
  <2> HIDE DEF r
  <2>3. /\ lock' \in [LockIdx -> Threads \cup {NoThread}]
        /\ \A i \in LockIdx : \/ lock'[i] = lock[i]
                              \/ {lock[i], lock'[i]} \subseteq {t, NoThread}
    BY <1>0, <2>0, <2>2
  <2>4. \A i \in LockIdx : (lock[i] = t) <=> i < op[t].i
    BY <2>2 DEF LockInv, Holds, UnderSlot, UnderAll
  <2>5. \A i \in LockIdx : (lock'[i] = t) <=> i < r.i
    <3>1. SUFFICES ASSUME NEW i \in LockIdx PROVE (lock'[i] = t) <=> i < r.i
      OBVIOUS
    <3>2. CASE i = op[t].i
      BY <1>0, <2>0, <2>1, <2>2, <3>2
    <3>3. CASE i # op[t].i
      <4>1. lock'[i] = lock[i]
        BY <1>0, <2>2, <3>3
      <4>2. (i < op[t].i) <=> (i < r.i)
        BY <2>0, <2>1, <3>3, Locks
      <4> QED
        BY <2>4, <4>1, <4>2
    <3> QED
      BY <3>2, <3>3
  <2>7. \A i \in LockIdx : (lock'[i] = t) <=> HoldsAt("lockall", r, i)
    BY <2>5 DEF HoldsAt
  <2>6. r.i \in 1..NLock /\ 2^key_len \div 2 < Cardinality(Members)
    BY <1>3, <2>0, <2>1, <2>2, Locks DEF FillInv
  <2> QED
    <3>1. r.call # "none" /\ (r.call = "delete" => client = "serial") /\ r.key \in Keys
      BY <1>0, <2>1, <2>2 DEF CallInv
    <3>2. /\ op' = [op EXCEPT ![t] = r] /\ pc' = [pc EXCEPT ![t] = "lockall"]
          /\ UNCHANGED <<client, map, fill, key_len, mask_len, key>>
          /\ pc[t] = "lockall" /\ "lockall" \in PCs
      BY <1>0, <2>2
    <3> QED
      BY <2>1, <2>3, <2>6, <2>7, <3>1, <3>2, LockedStep
<1>4. ASSUME LockAll(t), ~(op[t].i < NLock) PROVE TableInv'
  <2> DEFINE label == IF members = <<>> THEN "unlockall" ELSE "resize"
  <2>1. /\ op' = [op EXCEPT ![t] = op[t]] /\ pc' = [pc EXCEPT ![t] = label]
        /\ UNCHANGED <<client, map, fill, key_len, mask_len, key, lock>>
        /\ pc[t] = "lockall"
    BY <1>0, <1>4 DEF LockAll, Goto
  <2>2. label \in {"resize", "unlockall"} /\ label \in PCs
    BY <1>0
  <2> HIDE DEF label
  <2>3. \A i \in LockIdx : i < op[t].i
    <3>1. op[t].i = NLock
      BY <1>4, <2>1, Locks DEF LockInv
    <3> QED
      BY <3>1, Locks DEF LockIdx
  <2>4. \A i \in LockIdx : (lock'[i] = t) <=> HoldsAt(label, op[t], i)
    BY <2>1, <2>2, <2>3 DEF LockInv, Holds, HoldsAt
  <2>5. 2^key_len \div 2 < Cardinality(Members)
    BY <2>1 DEF FillInv
  <2> DEFINE r == op[t]
  <2>6. /\ OpRecord(r) /\ op' = [op EXCEPT ![t] = r] /\ pc' = [pc EXCEPT ![t] = label]
        /\ r.call # "none" /\ r.key \in Keys /\ (r.call = "delete" => client = "serial")
    BY <1>0, <2>1 DEF CallInv
  <2>7. /\ lock' \in [LockIdx -> Threads \cup {NoThread}]
        /\ \A i \in LockIdx : \/ lock'[i] = lock[i]
                              \/ {lock[i], lock'[i]} \subseteq {t, NoThread}
        /\ \A i \in LockIdx : (lock'[i] = t) <=> HoldsAt(label, r, i)
    BY <1>0, <2>1, <2>4
  <2>8. /\ UNCHANGED <<client, map, fill, key_len, mask_len, key>> /\ pc[t] = "lockall"
    BY <2>1
  <2> HIDE DEF TableInv, r
  <2> QED
    BY <2>2, <2>5, <2>6, <2>7, <2>8, LockedStep
<1>5. CASE UnlockAll(t)
  <2>1. /\ op' = [op EXCEPT ![t] = op[t]] /\ pc' = [pc EXCEPT ![t] = "len"]
        /\ UNCHANGED <<client, map, fill, key_len, mask_len, key>>
        /\ pc[t] = "unlockall" /\ lock' = [i \in LockIdx |-> NoThread]
    BY <1>0, <1>5 DEF UnlockAll, Goto
  <2>2. \A i \in LockIdx : lock[i] = t
    BY <2>1 DEF LockInv, Holds, UnderAll
  <2>3. /\ lock' \in [LockIdx -> Threads \cup {NoThread}]
        /\ \A i \in LockIdx : {lock[i], lock'[i]} \subseteq {t, NoThread}
        /\ \A i \in LockIdx : (lock'[i] = t) <=> HoldsAt("len", op[t], i)
    BY <1>0, <2>1, <2>2 DEF HoldsAt
  <2>4. /\ op[t].call # "none" /\ op[t].key \in Keys
        /\ op[t].call = "delete" => client = "serial"
    BY <1>0, <2>1 DEF CallInv
  <2> DEFINE r == op[t]
  <2>5. /\ OpRecord(r) /\ op' = [op EXCEPT ![t] = r] /\ pc' = [pc EXCEPT ![t] = "len"]
        /\ r.call # "none" /\ r.key \in Keys /\ (r.call = "delete" => client = "serial")
        /\ UNCHANGED <<client, map, fill, key_len, mask_len, key>> /\ pc[t] = "unlockall"
        /\ "len" \in PCs
    BY <1>0, <2>1, <2>4
  <2>6. /\ lock' \in [LockIdx -> Threads \cup {NoThread}]
        /\ \A i \in LockIdx : \/ lock'[i] = lock[i]
                              \/ {lock[i], lock'[i]} \subseteq {t, NoThread}
        /\ \A i \in LockIdx : (lock'[i] = t) <=> HoldsAt("len", r, i)
    BY <2>3
  <2> HIDE DEF TableInv, r
  <2> QED
    BY <2>5, <2>6, LockedStep
<1> QED
  BY <1>1, <1>2, <1>3, <1>4, <1>5

\* The lock of the slot is taken, and given when a lookup is over.
LEMMA SlotLockKeeps ==
  ASSUME TableInv, NEW t \in Threads, LockSlot(t) \/ FindNothing(t) \/ FindMember(t)
  PROVE  TableInv'
<1> USE DEF TableInv
<1> DEFINE j == get_lock_idx(op[t].slot)
<1>0. /\ OpRecord(op[t]) /\ op \in [Threads -> {op[u] : u \in Threads}]
      /\ CallInv(t) /\ SlotInv(t) /\ pc[t] \in PCs
      /\ lock \in [LockIdx -> Threads \cup {NoThread}] /\ t # NoThread
      /\ {"find", "add", "delete", "idle", "len", "full", "value"} \subseteq PCs
      /\ j \in LockIdx
  BY OpFields, HashMapAssumption, LockOfSlot DEF TypeOK, PCs
<1>1. ASSUME LockSlot(t), op[t].len = key_len PROVE TableInv'
  <2>1. /\ op' = [op EXCEPT ![t] = op[t]] /\ pc' = [pc EXCEPT ![t] = op[t].call]
        /\ UNCHANGED <<client, map, fill, key_len, mask_len, key>>
        /\ pc[t] = "lock" /\ lock[j] = NoThread /\ lock' = [lock EXCEPT ![j] = t]
    BY <1>0, <1>1 DEF LockSlot, Goto
  <2>2. op[t].call \in {"find", "add", "delete"} /\ op[t].call \in PCs
    BY <1>0, <2>1 DEF CallInv, OpRecord
  <2> HIDE DEF j
  <2>3. /\ lock' \in [LockIdx -> Threads \cup {NoThread}]
        /\ \A i \in LockIdx : \/ lock'[i] = lock[i]
                              \/ {lock[i], lock'[i]} \subseteq {t, NoThread}
    BY <1>0, <2>1
  <2>4. \A i \in LockIdx : lock[i] # t
    BY <2>1 DEF LockInv, Holds, UnderSlot, UnderAll
  <2>5. \A i \in LockIdx : (lock'[i] = t) <=> i = j
    BY <1>0, <2>1, <2>4
  <2>6. op[t].slot \in 0 .. 2^key_len - 1
    BY <1>0, <1>1, <2>1 DEF SlotInv
  <2>7. \A i \in LockIdx : (lock'[i] = t) <=> HoldsAt(op[t].call, op[t], i)
    BY <2>2, <2>5 DEF j, HoldsAt
  <2>8. PICK label \in PCs : label = op[t].call
    BY <2>2
  <2>9. /\ op' = [op EXCEPT ![t] = op[t]] /\ pc' = [pc EXCEPT ![t] = label]
        /\ label \in {"find", "add", "delete"}
        /\ \A i \in LockIdx : (lock'[i] = t) <=> HoldsAt(label, op[t], i)
        /\ (label = "idle") <=> (op[t].call = "none")
        /\ label = "delete" => op[t].call = "delete"
    BY <2>1, <2>2, <2>7, <2>8
  <2>10. op[t].key \in Keys /\ (op[t].call = "delete" => client = "serial")
    BY <1>0, <2>1 DEF CallInv
  <2>11. PICK r : r = op[t]
    OBVIOUS
  <2>12. /\ OpRecord(r) /\ op' = [op EXCEPT ![t] = r] /\ pc' = [pc EXCEPT ![t] = label]
         /\ \A i \in LockIdx : (lock'[i] = t) <=> HoldsAt(label, r, i)
         /\ label \in {"find", "add", "delete"} => r.len = key_len /\ r.slot \in 0 .. 2^key_len - 1
         /\ (label = "idle") <=> (r.call = "none")
         /\ r.key \in Keys
         /\ r.call = "delete" => client = "serial"
         /\ label = "delete" => r.call = "delete"
    BY <1>0, <1>1, <2>6, <2>9, <2>10, <2>11
  <2>13. /\ label \notin {"rehash", "link"} /\ label \notin {"slot", "lock"}
         /\ label # "lockall" /\ label \notin {"lockall", "resize"}
         /\ pc[t] \notin {"idle", "rehash", "link"}
    BY <2>1, <2>9
  <2>14. UNCHANGED <<client, map, fill, key_len, mask_len, key>>
    BY <2>1
  <2> QED
    BY <2>3, <2>12, <2>13, <2>14, LockedStep
<1>2. ASSUME LockSlot(t), op[t].len # key_len PROVE TableInv'
  <2>1. /\ op' = [op EXCEPT ![t] = op[t]] /\ pc' = [pc EXCEPT ![t] = "len"]
        /\ UNCHANGED <<client, map, fill, key_len, mask_len, lock, key>>
        /\ pc[t] = "lock"
    BY <1>0, <1>2 DEF LockSlot, Goto
  <2> QED
    BY <1>0, <2>1, LocalStep DEF CallInv
<1>3. ASSUME pc[t] = "find", UnlockSlot(t)
      PROVE  /\ lock' \in [LockIdx -> Threads \cup {NoThread}]
             /\ \A i \in LockIdx : \/ lock'[i] = lock[i]
                                   \/ {lock[i], lock'[i]} \subseteq {t, NoThread}
             /\ \A i \in LockIdx : \A r : \A label \in {"full", "idle", "value"} :
                  (lock'[i] = t) <=> HoldsAt(label, r, i)
  <2> HIDE DEF j
  <2>1. \A i \in LockIdx : (lock[i] = t) <=> (i = j)
    BY <1>3 DEF LockInv, Holds, UnderSlot, UnderAll, j
  <2>2. lock' = [lock EXCEPT ![j] = NoThread]
    BY <1>3 DEF UnlockSlot, j
  <2> QED
    BY <1>0, <2>1, <2>2 DEF HoldsAt
<1>4. CASE FindNothing(t)
  <2>0. pc[t] = "find" /\ UnlockSlot(t) /\ UNCHANGED <<client, map, fill, key_len, mask_len, key>>
    BY <1>4 DEF FindNothing
  <2>1. CASE client = "shared"
    <3> DEFINE r == [NoOp EXCEPT !.call = "add", !.key = op[t].key]
    <3>1. OpRecord(r) /\ r.call = "add" /\ r.key = op[t].key
      BY <1>0 DEF OpRecord, NoOp
    <3>2. op' = [op EXCEPT ![t] = r] /\ pc' = [pc EXCEPT ![t] = "full"]
      BY <1>4, <2>1 DEF FindNothing, Goto
    <3>3. r.key \in Keys
      BY <1>0, <2>0, <3>1 DEF CallInv
    <3>4. \A i \in LockIdx : (lock'[i] = t) <=> HoldsAt("full", r, i)
      BY <1>3, <2>0
    <3> HIDE DEF r
    <3> QED
      BY <1>0, <1>3, <2>0, <3>1, <3>2, <3>3, <3>4, LockedStep
  <2>2. CASE client # "shared"
    <3>1. OpRecord(NoOp) /\ NoOp.call = "none"
      BY DEF OpRecord, NoOp
    <3>2. op' = [op EXCEPT ![t] = NoOp] /\ pc' = [pc EXCEPT ![t] = "idle"]
      BY <1>4, <2>2 DEF FindNothing, Goto, Return
    <3>3. \A i \in LockIdx : (lock'[i] = t) <=> HoldsAt("idle", NoOp, i)
      BY <1>3, <2>0
    <3>4. /\ lock' \in [LockIdx -> Threads \cup {NoThread}]
          /\ \A i \in LockIdx : \/ lock'[i] = lock[i]
                                \/ {lock[i], lock'[i]} \subseteq {t, NoThread}
          /\ "idle" \in PCs
      BY <1>0, <1>3, <2>0
    <3> HIDE DEF TableInv
    <3> QED
      BY <2>0, <3>1, <3>2, <3>3, <3>4, LockedStep
  <2> QED
    BY <2>1, <2>2
<1>5. CASE FindMember(t)
  <2> DEFINE m == get_map_member(op[t].slot, op[t].key)
             r == [op[t] EXCEPT !.member = m]
  <2>0. pc[t] = "find" /\ UnlockSlot(t) /\ UNCHANGED <<client, map, fill, key_len, mask_len, key>>
    BY <1>5 DEF FindMember
  <2>1. op' = [op EXCEPT ![t] = r] /\ pc' = [pc EXCEPT ![t] = "value"]
    BY <1>0, <1>5 DEF FindMember, Goto
  <2> HIDE DEF m
  <2>2. OpRecord(r) /\ r.call = op[t].call /\ r.key = op[t].key
    BY <1>0 DEF OpRecord
  <2> HIDE DEF r
  <2>3. r.call # "none" /\ r.key \in Keys /\ (r.call = "delete" => client = "serial")
    BY <1>0, <2>0, <2>2 DEF CallInv
  <2>4. /\ lock' \in [LockIdx -> Threads \cup {NoThread}]
        /\ \A i \in LockIdx : \/ lock'[i] = lock[i]
                              \/ {lock[i], lock'[i]} \subseteq {t, NoThread}
        /\ \A i \in LockIdx : (lock'[i] = t) <=> HoldsAt("value", r, i)
        /\ "value" \in PCs
    BY <1>0, <1>3, <2>0
  <2> HIDE DEF TableInv
  <2> QED
    BY <2>0, <2>1, <2>2, <2>3, <2>4, LockedStep
<1> QED
  BY <1>1, <1>2, <1>4, <1>5

\* The thread under all the locks is alone with the table.
LEMMA RebuilderAlone ==
  ASSUME TableInv, NEW t \in Threads, UnderAll(t), NEW u \in Threads \ {t}
  PROVE  pc[u] \in {"idle", "full", "rebuild", "len", "slot", "lock", "value"}
<1> USE DEF TableInv
<1>1. \A i \in LockIdx : ~Holds(u, i)
  BY DEF LockInv, Holds
<1>2. get_lock_idx(op[u].slot) \in LockIdx /\ 0 \in LockIdx
  BY OpFields, LockOfSlot, Locks
<1>3. pc[u] = "lockall" => 0 < op[u].i
  BY Locks DEF LockInv
<1>4. pc[u] \in PCs
  BY DEF TypeOK
<1> QED
  BY <1>1, <1>2, <1>3, <1>4 DEF Holds, UnderSlot, UnderAll, PCs

\* hash_map_rebuild() doubles the table: a slot of the old length is no slot of
\* the new one, and a word is long enough for one more bit of the key.
LEMMA ResizeKeeps ==
  ASSUME TableInv, NEW t \in Threads, Resize(t)
  PROVE  TableInv'
<1> USE DEF TableInv
<1>0. /\ pc[t] = "resize" /\ pc' = [pc EXCEPT ![t] = "rehash"] /\ key_len' = key_len + 1
      /\ map' = [s \in 0 .. 2 * Size - 1 |-> <<>>]
      /\ UNCHANGED <<client, fill, mask_len, lock, key, op>>
  BY DEF Resize, Goto
<1>1. /\ pc'[t] = "rehash" /\ \A u \in Threads \ {t} : pc'[u] = pc[u]
      /\ pc' \in [Threads -> PCs]
  BY <1>0 DEF TypeOK, PCs
<1>2. \A u \in Threads \ {t} :
        pc[u] \in {"idle", "full", "rebuild", "len", "slot", "lock", "value"}
  BY <1>0, RebuilderAlone DEF UnderAll
<1>3. key_len \in Nat \ {0} /\ WordBits \in Nat /\ key_len <= WordBits
  BY HashMapAssumption DEF TypeOK
<1>4. 2^(key_len + 1) = 2 * 2^key_len
  BY <1>3, PowerDoubles
<1>5. key_len # WordBits
  <2> SUFFICES ASSUME key_len = WordBits PROVE FALSE
    OBVIOUS
  <2> DEFINE h == 2^(WordBits - 1)
             c == Cardinality(Members)
  <2>1. WordBits - 1 \in Nat /\ (WordBits - 1) + 1 = WordBits
    BY <1>3
  <2>2. 2^WordBits = 2 * h /\ h \in Nat
    BY <2>1, PowerDoubles, PowerPositive
  <2>3. 2^WordBits \div 2 = h
    <3> HIDE DEF h
    <3> QED
      BY <2>2
  <2>4. 2^WordBits \div 2 < c /\ c <= h
    BY <1>0, HashMapAssumption DEF FillInv
  <2>5. c \in Nat
    BY HashMapAssumption, FS_CardinalityType
  <2> HIDE DEF h, c
  <2> QED
    BY <2>2, <2>3, <2>4, <2>5
<1>6. TypeOK'
  <2>1. key_len' \in 1..WordBits
    BY <1>0, <1>3, <1>5
  <2>2. DOMAIN map' = 0 .. 2^key_len' - 1
    BY <1>0, <1>4, FullTable
  <2>3. \A u \in Threads : OpOK(u)'
    BY <1>0 DEF TypeOK, OpOK
  <2> QED
    BY <1>0, <1>1, <2>1, <2>2, <2>3 DEF TypeOK
<1>7. LockInv'
  <2>1. OthersStay(t)
    BY <1>0, <1>1 DEF OthersStay
  <2>2. \A i \in LockIdx : (lock'[i] = t) <=> Holds(t, i)'
    BY <1>0, <1>1 DEF LockInv, Holds, UnderAll, UnderSlot
  <2> QED
    BY <1>0, <1>1, <2>1, <2>2, LockStep
<1>8. MaskInv'
  <2>1. mask_len = key_len
    BY <1>0, <1>2 DEF MaskInv
  <2> QED
    BY <1>0, <1>1, <1>3, <2>1 DEF MaskInv
<1>9. \A u \in Threads : SlotInv(u)'
  <2> SUFFICES ASSUME NEW u \in Threads PROVE SlotInv(u)'
    OBVIOUS
  <2>1. CASE u = t
    BY <1>1, <2>1 DEF SlotInv, UnderSlot
  <2>2. CASE u # t
    <3>1. pc[u] \in {"slot", "lock"} => op[u].len \in 1..key_len
      BY DEF SlotInv
    <3>2. pc'[u] = pc[u] /\ op'[u] = op[u] /\ ~UnderSlot(u)'
      BY <1>0, <1>1, <1>2, <2>2 DEF UnderSlot
    <3>3. pc[u] \in {"slot", "lock"} => op[u].len \in 1..key_len' /\ op[u].len # key_len'
      BY <1>0, <1>3, <3>1
    <3> QED
      BY <3>2, <3>3 DEF SlotInv
  <2> QED
    BY <2>1, <2>2
<1>10. \A u \in Threads : CallInv(u)'
  BY <1>0, <1>1 DEF CallInv
<1>11. ClientInv'
  BY <1>0, <1>1 DEF ClientInv
<1>12. BeingLinked' = BeingLinked /\ InUse' = InUse
  BY <1>0, <1>1 DEF BeingLinked, InUse
<1>13. LinkInv'
  BY <1>0, <1>1, <1>12 DEF LinkInv
<1>14. FillInv'
  BY <1>0, <1>1, <1>2, <1>12 DEF FillInv
<1> QED
  BY <1>6, <1>7, <1>8, <1>9, <1>10, <1>11, <1>13, <1>14

\* What a part of the walk leaves: chains of the same table, in which the
\* members 1 to n of the list are.
Filled(chains, n) ==
    /\ DOMAIN chains = DOMAIN map /\ chains = [s \in DOMAIN map |-> chains[s]]
    /\ \A s \in DOMAIN map : chains[s] \in Seq(Members)
    /\ \A j \in 1 .. n : Has(chains[SlotOf(members[j])], members[j])

\* Every member has a slot in the table.
LEMMA SlotInside ==
  ASSUME TypeOK, NEW m \in Members
  PROVE  SlotOf(m) \in DOMAIN map
<1>1. key[m] \in Keys \cup {NoKey} /\ key_len \in 0 .. WordBits /\ key_len \in 1 .. WordBits
  BY DEF TypeOK
<1>2. get_map_slot(key[m], key_len, key_len) \in 0 .. 2^key_len - 1
  BY <1>1, SlotOfKey
<1> QED
  BY <1>2 DEF SlotOf, TypeOK

\* A member at the head of a chain; the others of the chain follow it.
IsPushed(d, S, c, m) ==
    d \in Seq(S) /\ Has(d, m) /\ \A x : Has(c, x) => Has(d, x)

LEMMA Pushed ==
  ASSUME NEW S, NEW c \in Seq(S), NEW m \in S
  PROVE  IsPushed(<<m>> \o c, S, c, m)
<1> DEFINE d == <<m>> \o c
<1>1. d \in Seq(S) /\ Len(d) = Len(c) + 1 /\ d[1] = m /\ Len(c) \in Nat
  OBVIOUS
<1>2. \A i \in 1 .. Len(c) : d[i + 1] = c[i]
  OBVIOUS
<1>3. DOMAIN d = 1 .. Len(d) /\ DOMAIN c = 1 .. Len(c)
  BY <1>1
<1> HIDE DEF d
<1>4. \A x : Has(c, x) => Has(d, x)
  <2> SUFFICES ASSUME NEW x, NEW i \in DOMAIN c, c[i] = x PROVE \E k \in DOMAIN d : d[k] = x
    BY DEF Has
  <2>1. i + 1 \in DOMAIN d /\ d[i + 1] = x
    BY <1>1, <1>2, <1>3
  <2> QED
    BY <2>1
<1>5. Has(d, m)
  BY <1>1, <1>3 DEF Has
<1> QED
  BY <1>1, <1>4, <1>5 DEF d, IsPushed

\* A round of the walk.
LEMMA MovedFills ==
  ASSUME TypeOK, ChainType, NEW n \in Nat, n + 1 \in 1 .. Len(members),
         NEW chains, Filled(chains, n)
  PROVE  Filled(Moved(chains, members[n + 1]), n + 1)
<1> DEFINE m == members[n + 1]
           s == SlotOf(m)
           new == Moved(chains, m)
<1>1. m \in Members
  BY DEF ChainType
<1>2. s \in DOMAIN map
  BY <1>1, SlotInside
<1>3. /\ DOMAIN chains = DOMAIN map /\ chains = [x \in DOMAIN map |-> chains[x]]
      /\ \A x \in DOMAIN map : chains[x] \in Seq(Members)
  BY DEF Filled
<1>4. new = [chains EXCEPT ![s] = <<m>> \o chains[s]]
  BY DEF Moved, SlotOf
<1> HIDE DEF m, s, new
<1>5. /\ DOMAIN new = DOMAIN map /\ new = [x \in DOMAIN map |-> new[x]]
      /\ new[s] = <<m>> \o chains[s] /\ \A x \in DOMAIN map \ {s} : new[x] = chains[x]
  BY <1>2, <1>3, <1>4
<1>6. /\ new[s] \in Seq(Members) /\ Has(new[s], m)
      /\ \A x : Has(chains[s], x) => Has(new[s], x)
  <2>1. chains[s] \in Seq(Members)
    BY <1>2, <1>3
  <2>2. IsPushed(<<m>> \o chains[s], Members, chains[s], m)
    BY <1>1, <2>1, Pushed
  <2> QED
    BY <1>1, <1>5, <2>1, <2>2 DEF IsPushed
<1>7. \A x \in DOMAIN map : new[x] \in Seq(Members)
  BY <1>3, <1>5, <1>6
<1>8. ASSUME NEW j \in 1 .. n + 1
      PROVE  Has(new[SlotOf(members[j])], members[j])
  <2>1. CASE j = n + 1
    BY <1>6, <2>1 DEF m, s
  <2>2. CASE j # n + 1
    <3> DEFINE y == members[j]
               z == SlotOf(y)
    <3>1. j \in 1 .. n /\ y \in Members
      BY <2>2 DEF ChainType
    <3>2. z \in DOMAIN map
      BY <3>1, SlotInside
    <3>3. Has(chains[z], y)
      BY <3>1 DEF Filled
    <3> HIDE DEF y, z
    <3>4. Has(new[z], y)
      BY <1>5, <1>6, <3>2, <3>3
    <3> QED
      BY <3>4 DEF y, z
  <2> QED
    BY <2>1, <2>2
<1>9. Filled(new, n + 1)
  BY <1>5, <1>7, <1>8 DEF Filled
<1> QED
  BY <1>9 DEF new, m

\* The chains after each round of the walk.
IsWalk(f) ==
    f = [n \in 0 .. Len(members) |-> IF n = 0 THEN map ELSE Moved(f[n - 1], members[n])]

\* The walk has a result: after every round there is one.
LEMMA WalkExists ==
  ASSUME Len(members) \in Nat
  PROVE  \E f : IsWalk(f)
<1> DEFINE last == Len(members)
           Walked(f, n) == f = [k \in 0 .. n |-> IF k = 0 THEN map
                                                  ELSE Moved(f[k - 1], members[k])]
           S == {n \in 0 .. last : \E f : Walked(f, n)}
<1>1. 0 \in S
  <2> DEFINE f == [k \in 0 .. 0 |-> map]
  <2>1. Walked(f, 0)
    OBVIOUS
  <2>2. \E g : Walked(g, 0)
    <3> HIDE DEF f, Walked
    <3> QED
      BY <2>1
  <2> QED
    BY <2>2
<1>2. ASSUME NEW n \in 0 .. last, n + 1 \in 0 .. last, n \in S PROVE n + 1 \in S
  <2>1. PICK g : Walked(g, n)
    BY <1>2
  <2> DEFINE f == [k \in 0 .. n + 1 |-> IF k <= n THEN g[k] ELSE Moved(g[n], members[n + 1])]
  <2>2. \A k \in 0 .. n : g[k] = IF k = 0 THEN map ELSE Moved(g[k - 1], members[k])
    BY <2>1
  <2>3. \A k \in 0 .. n + 1 : f[k] = IF k = 0 THEN map ELSE Moved(f[k - 1], members[k])
    <3> SUFFICES ASSUME NEW k \in 0 .. n + 1
                 PROVE  f[k] = IF k = 0 THEN map ELSE Moved(f[k - 1], members[k])
      OBVIOUS
    <3>1. CASE k = 0
      BY <2>2, <3>1
    <3>2. CASE k # 0
      <4>1. f[k - 1] = g[k - 1]
        BY <3>2
      <4>2. k \notin 0 .. n => k = n + 1 /\ k - 1 = n
        OBVIOUS
      <4> QED
        BY <2>2, <3>2, <4>1, <4>2
    <3> QED
      BY <3>1, <3>2
  <2>4. Walked(f, n + 1)
    <3>1. f = [k \in 0 .. n + 1 |-> f[k]]
      OBVIOUS
    <3> HIDE DEF f
    <3> QED
      BY <2>3, <3>1
  <2> QED
    BY <1>2, <2>4
<1>3. 0 .. last \subseteq S
  <2> HIDE DEF S
  <2> QED
    BY <1>1, <1>2, UpTo
<1>4. last \in S
  <2> HIDE DEF S
  <2> QED
    BY <1>3
<1> QED
  BY <1>4 DEF IsWalk

\* The whole walk puts every member of the list into the chain of its slot.
LEMMA RehashFills ==
  ASSUME TypeOK, ChainType, NEW t \in Threads, Rehash(t)
  PROVE  Filled(map', Len(members))
<1> DEFINE f == CHOOSE g : IsWalk(g)
           last == Len(members)
           S == {k \in 0 .. last : Filled(f[k], k)}
<1>0. last \in Nat
  BY DEF ChainType
<1>1. f = [n \in 0 .. last |-> IF n = 0 THEN map ELSE Moved(f[n - 1], members[n])]
  <2>1. IsWalk(f)
    BY <1>0, WalkExists
  <2> HIDE DEF f
  <2> QED
    BY <2>1 DEF IsWalk
<1>2. map' = f[last]
  BY DEF Rehash, IsWalk
<1> HIDE DEF f, last
<1>3. 0 \in S
  <2>1. f[0] = map
    BY <1>0, <1>1
  <2>2. Filled(map, 0)
    BY DEF Filled, ChainType
  <2> QED
    BY <1>0, <2>1, <2>2
<1>4. \A k \in 0 .. last : k + 1 \in 0 .. last /\ k \in S => k + 1 \in S
  <2> SUFFICES ASSUME NEW k \in 0 .. last, k + 1 \in 0 .. last, Filled(f[k], k)
               PROVE  Filled(f[k + 1], k + 1)
    OBVIOUS
  <2>1. f[k + 1] = Moved(f[k], members[k + 1])
    BY <1>0, <1>1
  <2>2. k \in Nat /\ k + 1 \in 1 .. Len(members)
    BY <1>0 DEF last
  <2> QED
    BY <2>1, <2>2, MovedFills
<1>5. 0 .. last \subseteq S
  <2> HIDE DEF S
  <2> QED
    BY <1>0, <1>3, <1>4, UpTo
<1>6. Filled(f[last], last)
  BY <1>0, <1>5
<1> QED
  BY <1>2, <1>6 DEF last

\* The chains are filled again and the mask becomes the one of the new length.
LEMMA RehashKeeps ==
  ASSUME TableInv, ChainType, NEW t \in Threads, Rehash(t)
  PROVE  TableInv'
<1> USE DEF TableInv
<1>0. /\ pc[t] = "rehash" /\ pc' = [pc EXCEPT ![t] = "unlockall"] /\ mask_len' = key_len
      /\ DOMAIN map' = DOMAIN map
      /\ UNCHANGED <<client, fill, key_len, lock, key, op>>
  BY RehashFills DEF Rehash, Goto, Filled
<1>1. /\ pc'[t] = "unlockall" /\ \A u \in Threads \ {t} : pc'[u] = pc[u]
      /\ pc' \in [Threads -> PCs]
  BY <1>0 DEF TypeOK, PCs
<1>2. TypeOK'
  <2>1. \A u \in Threads : OpOK(u)'
    BY <1>0 DEF TypeOK, OpOK
  <2>2. mask_len' \in 0..WordBits
    BY <1>0, HashMapAssumption DEF TypeOK
  <2> QED
    BY <1>0, <1>1, <2>1, <2>2 DEF TypeOK
<1>3. LockInv'
  <2>1. OthersStay(t)
    BY <1>0, <1>1 DEF OthersStay
  <2>2. \A i \in LockIdx : (lock'[i] = t) <=> Holds(t, i)'
    BY <1>0, <1>1 DEF LockInv, Holds, UnderAll, UnderSlot
  <2> QED
    BY <1>0, <1>1, <2>1, <2>2, LockStep
<1>4. MaskInv'
  BY <1>0 DEF MaskInv
<1>5. \A u \in Threads : SlotInv(u)' /\ CallInv(u)'
  BY <1>0, <1>1 DEF SlotInv, CallInv, UnderSlot
<1>6. ClientInv'
  BY <1>0, <1>1 DEF ClientInv
<1>7. BeingLinked' = BeingLinked /\ InUse' = InUse
  BY <1>0, <1>1 DEF BeingLinked, InUse
<1>8. LinkInv'
  BY <1>0, <1>1, <1>7 DEF LinkInv
<1>9. FillInv'
  BY <1>0, <1>1, <1>7 DEF FillInv
<1> QED
  BY <1>2, <1>3, <1>4, <1>5, <1>6, <1>8, <1>9

\* A member in use is one of the finitely many.
LEMMA InUseFinite == IsFiniteSet(InUse) /\ InUse \subseteq Members
<1>1. InUse \subseteq Members /\ IsFiniteSet(Members)
  BY HashMapAssumption DEF InUse
<1> QED
  BY <1>1, FS_Subset

\* There is a member to take while not all are in use.
LEMMA FreeMember ==
  ASSUME InUse # Members
  PROVE  LET m == CHOOSE x \in Members \ InUse : \A y \in Members \ InUse : x <= y
         IN  m \in Members \ InUse
<1> DEFINE F == Members \ InUse
           m == CHOOSE x \in F : \A y \in F : x <= y
<1>1. F \subseteq Nat /\ F # {}
  BY HashMapAssumption DEF InUse
<1> HIDE DEF F
<1>2. m \in F
  <2>1. \E z \in F : \A y \in F : z <= y
    BY <1>1, LeastNumber
  <2> QED
    BY <2>1
<1> QED
  BY <1>2 DEF F

\* hash_map_add_member() puts a member into its chain: nobody else is adding
\* that member, and it is not counted yet.
LEMMA AddToChainKeeps ==
  ASSUME TableInv, NEW t \in Threads, AddToChain(t)
  PROVE  TableInv'
<1> USE DEF TableInv
<1> DEFINE m == CHOOSE x \in Members \ InUse : \A y \in Members \ InUse : x <= y
<1>0. /\ OpRecord(op[t]) /\ op \in [Threads -> {op[u] : u \in Threads}]
      /\ key \in [Members -> Keys \cup {NoKey}]
  BY OpFields DEF TypeOK
<1>1. m \in Members \ InUse
  BY FreeMember DEF AddToChain
<1>2. /\ pc[t] = "add" /\ pc' = [pc EXCEPT ![t] = "link"]
      /\ key' = [key EXCEPT ![m] = op[t].key]
      /\ map' = [map EXCEPT ![op[t].slot] = <<m>> \o @]
      /\ op' = [op EXCEPT ![t].member = m, ![t].first = members]
      /\ UNCHANGED <<client, fill, key_len, mask_len, lock>>
  BY DEF AddToChain, Goto
<1> HIDE DEF m
<1> DEFINE r == [op[t] EXCEPT !.member = m, !.first = members]
<1>18. op' = [op EXCEPT ![t] = r]
  BY <1>0, <1>2 DEF OpRecord
<1>3. OpRecord(r) /\ r.call = op[t].call /\ r.key = op[t].key /\ r.len = op[t].len
  BY <1>0 DEF OpRecord
<1>4. r.slot = op[t].slot /\ r.i = op[t].i /\ r.member = m
  BY <1>0 DEF OpRecord
<1> HIDE DEF r
<1>5. /\ pc'[t] = "link" /\ \A u \in Threads \ {t} : pc'[u] = pc[u]
      /\ pc' \in [Threads -> PCs]
  BY <1>2 DEF TypeOK, PCs
<1>6. /\ op'[t] = r /\ \A u \in Threads \ {t} : op'[u] = op[u]
      /\ op' = [u \in Threads |-> op'[u]]
      /\ \A u \in Threads : OpOK(u)'
  BY <1>3, <1>18, OpUpdate
<1>7. op[t].key \in Keys /\ op[t].key # NoKey
  <2>1. op[t].key \in Keys
    BY <1>2 DEF CallInv
  <2>2. \A k \in Keys : k >= 0
    BY HashMapAssumption
  <2>3. -1 \notin Keys
    BY <2>2
  <2> QED
    BY <2>1, <2>3 DEF NoKey
<1>8. TypeOK'
  <2>1. key' \in [Members -> Keys \cup {NoKey}]
    BY <1>0, <1>1, <1>2, <1>7
  <2>2. DOMAIN map' = DOMAIN map
    BY <1>2
  <2> QED
    BY <1>2, <1>5, <1>6, <2>1, <2>2 DEF TypeOK
<1>9. LockInv'
  <2>1. OthersStay(t)
    BY <1>5, <1>6 DEF OthersStay
  <2>2. \A i \in LockIdx : (lock'[i] = t) <=> Holds(t, i)'
    <3>1. \A i \in LockIdx : Holds(t, i)' <=> i = get_lock_idx(op[t].slot)
      BY <1>4, <1>5, <1>6 DEF Holds, UnderAll, UnderSlot
    <3>2. \A i \in LockIdx : Holds(t, i) <=> i = get_lock_idx(op[t].slot)
      BY <1>2 DEF Holds, UnderAll, UnderSlot
    <3> QED
      BY <1>2, <3>1, <3>2 DEF LockInv
  <2> QED
    BY <1>2, <1>5, <2>1, <2>2, LockStep
<1>10. MaskInv'
  BY <1>2, <1>5 DEF MaskInv
<1>11. \A u \in Threads : SlotInv(u)'
  <2>1. SlotInv(t)'
    <3>1. op'[t].len = op[t].len /\ op'[t].slot = op[t].slot
      BY <1>3, <1>4, <1>6
    <3> QED
      BY <1>2, <1>5, <3>1 DEF SlotInv, UnderSlot
  <2>2. ASSUME NEW u \in Threads \ {t} PROVE SlotInv(u)'
    BY <1>2, <1>5, <1>6 DEF SlotInv, UnderSlot
  <2> QED
    BY <2>1, <2>2
<1>12. \A u \in Threads : CallInv(u)'
  <2>1. CallInv(t)'
    <3>1. op'[t].call = op[t].call /\ op'[t].key = op[t].key
      BY <1>3, <1>6
    <3> QED
      BY <1>2, <1>5, <3>1 DEF CallInv
  <2>2. ASSUME NEW u \in Threads \ {t} PROVE CallInv(u)'
    BY <1>2, <1>5, <1>6 DEF CallInv
  <2> QED
    BY <2>1, <2>2
<1>13. ClientInv'
  BY <1>2, <1>5 DEF ClientInv
<1>14. BeingLinked' = BeingLinked \cup {m}
  <2>1. \A u \in Threads : pc'[u] = "link" <=> (u = t \/ pc[u] = "link")
    BY <1>2, <1>5
  <2>2. \A u \in Threads \ {t} : op'[u].member = op[u].member
    BY <1>6
  <2>3. op'[t].member = m /\ pc[t] # "link"
    BY <1>2, <1>4, <1>6
  <2> QED
    BY <2>1, <2>2, <2>3 DEF BeingLinked
<1>15. InUse' = InUse \cup {m}
  BY <1>0, <1>1, <1>2, <1>7 DEF InUse
<1>16. LinkInv'
  <2>1. BeingLinked' \subseteq InUse'
    BY <1>14, <1>15 DEF LinkInv
  <2>2. ASSUME NEW u \in Threads \ {t}, pc'[u] = "link" PROVE op'[u].member # m
    <3>1. op[u].member \in InUse
      BY <1>5, <2>2 DEF LinkInv, BeingLinked
    <3> QED
      BY <1>1, <1>6, <3>1
  <2>3. op'[t].member = m
    BY <1>4, <1>6
  <2>4. ASSUME NEW u \in Threads, NEW v \in Threads, pc'[u] = "link", pc'[v] = "link",
               op'[u].member = op'[v].member
        PROVE  u = v
    BY <1>5, <1>6, <2>2, <2>3, <2>4 DEF LinkInv
  <2> QED
    BY <2>1, <2>4 DEF LinkInv
<1>17. FillInv'
  <2>1. InUse' \ BeingLinked' = InUse \ BeingLinked
    BY <1>1, <1>14, <1>15
  <2> QED
    BY <1>2, <1>5, <2>1 DEF FillInv
<1> QED
  BY <1>8, <1>9, <1>10, <1>11, <1>12, <1>13, <1>16, <1>17

\* An operation gives the lock of its slot and returns; what it has done to the
\* members and their number is left open.
LEMMA ReturnStep ==
  ASSUME TableInv, NEW t \in Threads, UnderSlot(t), UnlockSlot(t), Return(t),
         UNCHANGED <<client, key_len, mask_len>>,
         DOMAIN map' = DOMAIN map, fill' \in Int, key' \in [Members -> Keys \cup {NoKey}]
  PROVE  /\ TypeOK' /\ LockInv' /\ MaskInv'
         /\ \A u \in Threads : SlotInv(u)' /\ CallInv(u)'
         /\ ClientInv'
         /\ pc'[t] = "idle" /\ \A u \in Threads \ {t} : pc'[u] = pc[u] /\ op'[u] = op[u]
<1> USE DEF TableInv
<1> DEFINE j == get_lock_idx(op[t].slot)
<1>0. /\ j \in LockIdx /\ t # NoThread
      /\ lock \in [LockIdx -> Threads \cup {NoThread}]
  BY OpFields, LockOfSlot, HashMapAssumption DEF TypeOK
<1>1. /\ pc'[t] = "idle" /\ \A u \in Threads \ {t} : pc'[u] = pc[u]
      /\ pc' \in [Threads -> PCs]
  BY DEF TypeOK, PCs, Return, Goto
<1>2. OpRecord(NoOp) /\ NoOp.call = "none"
  BY DEF OpRecord, NoOp
<1>3. /\ op'[t] = NoOp /\ \A u \in Threads \ {t} : op'[u] = op[u]
      /\ op' = [u \in Threads |-> op'[u]]
      /\ \A u \in Threads : OpOK(u)'
  BY <1>2, OpUpdate DEF Return
<1>4. /\ lock' \in [LockIdx -> Threads \cup {NoThread}]
      /\ \A i \in LockIdx : \/ lock'[i] = lock[i]
                            \/ {lock[i], lock'[i]} \subseteq {t, NoThread}
      /\ \A i \in LockIdx : lock'[i] # t
  <2> HIDE DEF j
  <2>1. \A i \in LockIdx : (lock[i] = t) <=> (i = j)
    BY DEF LockInv, Holds, UnderSlot, UnderAll, j
  <2>2. lock' = [lock EXCEPT ![j] = NoThread]
    BY DEF UnlockSlot, j
  <2> QED
    BY <1>0, <2>1, <2>2
<1>5. TypeOK'
  BY <1>1, <1>3, <1>4 DEF TypeOK
<1>6. LockInv'
  <2>1. OthersStay(t)
    BY <1>1, <1>3 DEF OthersStay
  <2>2. \A i \in LockIdx : (lock'[i] = t) <=> Holds(t, i)'
    BY <1>1, <1>4 DEF Holds, UnderAll, UnderSlot
  <2> QED
    BY <1>1, <1>4, <2>1, <2>2, LockStep
<1>7. MaskInv'
  BY <1>1 DEF MaskInv, UnderSlot
<1>8. \A u \in Threads : SlotInv(u)'
  BY <1>1, <1>3 DEF SlotInv, UnderSlot
<1>9. \A u \in Threads : CallInv(u)'
  BY <1>1, <1>2, <1>3 DEF CallInv
<1>10. ClientInv'
  BY <1>1 DEF ClientInv
<1> QED
  BY <1>1, <1>3, <1>5, <1>6, <1>7, <1>8, <1>9, <1>10

\* A member is counted when it has been linked to hmap->members, though the
\* link itself may be lost.
LEMMA AddToMembersKeeps ==
  ASSUME TableInv, NEW t \in Threads, AddToMembers(t)
  PROVE  TableInv'
<1> USE DEF TableInv
<1> DEFINE m == op[t].member
<1>0. /\ pc[t] = "link" /\ UnlockSlot(t) /\ Return(t) /\ fill' = fill + 1
      /\ UNCHANGED <<client, map, key_len, mask_len, key>>
      /\ fill \in Int /\ key \in [Members -> Keys \cup {NoKey}]
  BY DEF AddToMembers, TypeOK
<1>1. /\ TypeOK' /\ LockInv' /\ MaskInv'
      /\ \A u \in Threads : SlotInv(u)' /\ CallInv(u)'
      /\ ClientInv'
      /\ pc'[t] = "idle" /\ \A u \in Threads \ {t} : pc'[u] = pc[u] /\ op'[u] = op[u]
  <2>1. fill' \in Int /\ UnderSlot(t) /\ key' \in [Members -> Keys \cup {NoKey}]
    BY <1>0 DEF UnderSlot
  <2> QED
    BY <1>0, <2>1, ReturnStep
<1>2. InUse' = InUse
  BY <1>0 DEF InUse
<1>3. BeingLinked' = BeingLinked \ {m}
  <2>1. \A u \in Threads : pc'[u] = "link" <=> (u # t /\ pc[u] = "link")
    BY <1>1
  <2>2. \A u \in Threads \ {t} : op'[u].member = op[u].member
    BY <1>1
  <2>3. \A u \in Threads \ {t} : pc[u] = "link" => op[u].member # m
    BY <1>0 DEF LinkInv
  <2> QED
    BY <2>1, <2>2, <2>3 DEF BeingLinked
<1>4. m \in InUse /\ m \in BeingLinked
  BY <1>0 DEF LinkInv, BeingLinked
<1>5. LinkInv'
  <2>1. BeingLinked' \subseteq InUse'
    BY <1>2, <1>3 DEF LinkInv
  <2> QED
    BY <1>1, <2>1 DEF LinkInv
<1>6. FillInv'
  <2> DEFINE A == InUse \ BeingLinked
  <2>1. InUse' \ BeingLinked' = A \cup {m} /\ m \notin A
    BY <1>2, <1>3, <1>4
  <2> HIDE DEF m
  <2>2. IsFiniteSet(A)
    BY InUseFinite, FS_Subset
  <2> HIDE DEF A
  <2>3. Cardinality(A \cup {m}) = Cardinality(A) + 1 /\ Cardinality(A) \in Nat
    BY <2>1, <2>2, FS_AddElement, FS_CardinalityType
  <2>4. fill <= Cardinality(A)
    BY DEF FillInv, A
  <2>5. fill' <= Cardinality(A \cup {m})
    BY <1>0, <2>3, <2>4
  <2>6. \A u \in Threads : pc'[u] \in {"lockall", "resize"} =>
          2^key_len' \div 2 < Cardinality(Members)
    BY <1>0, <1>1 DEF FillInv
  <2> QED
    BY <2>1, <2>5, <2>6 DEF FillInv
<1> QED
  BY <1>1, <1>5, <1>6

\* Only the event queue deletes: nobody is adding meanwhile, and one member
\* less is counted.
LEMMA DeleteMemberKeeps ==
  ASSUME TableInv, NEW t \in Threads, DeleteMember(t)
  PROVE  TableInv'
<1> USE DEF TableInv
<1> DEFINE m == get_map_member(op[t].slot, op[t].key)
<1>0. /\ pc[t] = "delete" /\ UnlockSlot(t) /\ Return(t) /\ fill' = fill - 1
      /\ UNCHANGED <<client, key_len, mask_len>>
      /\ map' = [map EXCEPT ![op[t].slot] = RemoveFirst(@, m)]
      /\ key' = [key EXCEPT ![m] = NoKey]
      /\ fill \in Int /\ key \in [Members -> Keys \cup {NoKey}]
  BY DEF DeleteMember, TypeOK
<1> HIDE DEF m
<1>1. /\ TypeOK' /\ LockInv' /\ MaskInv'
      /\ \A u \in Threads : SlotInv(u)' /\ CallInv(u)'
      /\ ClientInv'
      /\ pc'[t] = "idle" /\ \A u \in Threads \ {t} : pc'[u] = pc[u] /\ op'[u] = op[u]
  <2>1. fill' \in Int /\ UnderSlot(t) /\ key' \in [Members -> Keys \cup {NoKey}]
    <3>1. key' \in [Members -> Keys \cup {NoKey}]
      BY <1>0
    <3>2. fill' \in Int
      BY <1>0
    <3> QED
      BY <1>0, <3>1, <3>2 DEF UnderSlot
  <2>2. DOMAIN map' = DOMAIN map
    BY <1>0
  <2> QED
    BY <1>0, <2>1, <2>2, ReturnStep
<1>2. \A u \in Threads \ {t} : pc[u] = "idle"
  <2>1. client = "serial"
    BY <1>0 DEF CallInv
  <2> QED
    BY <1>0, <2>1 DEF ClientInv
<1>3. BeingLinked = {} /\ BeingLinked' = {}
  BY <1>0, <1>1, <1>2 DEF BeingLinked
<1>4. LinkInv'
  <2>1. \A u \in Threads : pc'[u] # "link"
    BY <1>1, <1>2
  <2> QED
    BY <1>3, <2>1 DEF LinkInv
<1>5. FillInv'
  <2>1. InUse \ {m} \subseteq InUse'
    BY <1>0 DEF InUse
  <2>2. IsFiniteSet(InUse) /\ IsFiniteSet(InUse')
    <3>1. IsFiniteSet(Members) /\ InUse \subseteq Members /\ InUse' \subseteq Members
      BY HashMapAssumption DEF InUse
    <3> QED
      BY <3>1, FS_Subset
  <2> DEFINE A == InUse
             B == InUse'
  <2>3. fill <= Cardinality(A)
    BY <1>3 DEF FillInv
  <2>4. A \ {m} \subseteq B /\ IsFiniteSet(A) /\ IsFiniteSet(B)
    BY <2>1, <2>2
  <2> HIDE DEF A, B
  <2>5. /\ Cardinality(A \ {m}) >= Cardinality(A) - 1
        /\ Cardinality(A) \in Nat /\ Cardinality(B) \in Nat /\ Cardinality(A \ {m}) \in Nat
        /\ Cardinality(A \ {m}) <= Cardinality(B)
    <3>1. IsFiniteSet(A \ {m})
      BY <2>4, FS_Subset
    <3>2. Cardinality(A) \in Nat /\ Cardinality(B) \in Nat /\ Cardinality(A \ {m}) \in Nat
      BY <2>4, <3>1, FS_CardinalityType
    <3>3. Cardinality(A \ {m}) <= Cardinality(B)
      BY <2>4, FS_Subset
    <3>4. Cardinality(A \ {m}) = IF m \in A THEN Cardinality(A) - 1 ELSE Cardinality(A)
      BY <2>4, FS_RemoveElement
    <3>5. Cardinality(A \ {m}) >= Cardinality(A) - 1
      BY <3>2, <3>4
    <3> QED
      BY <3>2, <3>3, <3>5
  <2>6. fill' <= Cardinality(B)
    BY <1>0, <2>3, <2>5
  <2>7. InUse' \ BeingLinked' = B
    BY <1>3 DEF B
  <2>8. \A u \in Threads : pc'[u] \notin {"lockall", "resize"}
    BY <1>1, <1>2
  <2> QED
    BY <2>6, <2>7, <2>8 DEF FillInv
<1> QED
  BY <1>1, <1>4, <1>5

\* delete_hash_map() leaves an empty map that nobody calls.
LEMMA DeleteMapKeeps ==
  ASSUME TableInv, delete_hash_map
  PROVE  TableInv'
<1> USE DEF TableInv
<1>0. /\ \A t \in Threads : pc[t] = "idle"
      /\ client' = "gone" /\ DOMAIN map' = DOMAIN map
      /\ key' = [m \in Members |-> NoKey] /\ fill' = 0
      /\ UNCHANGED <<key_len, mask_len, lock, pc, op>>
  BY DEF delete_hash_map
<1>1. TypeOK'
  <2>1. \A u \in Threads : OpOK(u)'
    BY <1>0 DEF TypeOK, OpOK
  <2> QED
    BY <1>0, <2>1 DEF TypeOK
<1>2. LockInv' /\ MaskInv'
  BY <1>0 DEF LockInv, MaskInv, Holds, UnderSlot, UnderAll
<1>3. \A t \in Threads : SlotInv(t)' /\ CallInv(t)'
  BY <1>0 DEF SlotInv, CallInv, UnderSlot
<1>4. ClientInv'
  BY <1>0 DEF ClientInv
<1>5. BeingLinked' = {} /\ InUse' = {}
  BY <1>0 DEF BeingLinked, InUse
<1>6. LinkInv'
  BY <1>0, <1>5 DEF LinkInv
<1>7. FillInv'
  <2>1. Cardinality(InUse' \ BeingLinked') = 0
    BY <1>5, FS_EmptySet
  <2>2. fill' <= Cardinality(InUse' \ BeingLinked')
    BY <1>0, <2>1
  <2> QED
    BY <1>0, <2>2 DEF FillInv
<1> QED
  BY <1>1, <1>2, <1>3, <1>4, <1>6, <1>7

-----------------------------------------------------------------------------
(* The chains.                                                             *)

\* What get_map_member() returns is in the chain and has the key; it returns
\* nothing only if no member of the chain has.
LEMMA MemberHit ==
  ASSUME NEW slot, map[slot] \in Seq(Members), NEW k
  PROVE  /\ get_map_member(slot, k) # 0 =>
              /\ get_map_member(slot, k) \in Members /\ key[get_map_member(slot, k)] = k
              /\ Has(map[slot], get_map_member(slot, k))
         /\ \A x : Has(map[slot], x) /\ key[x] = k => get_map_member(slot, k) # 0
<1> DEFINE found == {i \in DOMAIN map[slot] : key[map[slot][i]] = k}
           least == CHOOSE i \in found : \A j \in found : i <= j
<1>1. get_map_member(slot, k) = IF found = {} THEN 0 ELSE map[slot][least]
  BY DEF get_map_member
<1>2. found \subseteq Nat
  <2>1. DOMAIN map[slot] = 1 .. Len(map[slot])
    OBVIOUS
  <2> QED
    BY <2>1
<1>3. \A i \in found : i \in DOMAIN map[slot] /\ key[map[slot][i]] = k /\ map[slot][i] \in Members
  OBVIOUS
<1>4. 0 \notin Members
  BY HashMapAssumption
<1> HIDE DEF found
<1>5. found # {} => least \in found
  BY <1>2, LeastNumber
<1> HIDE DEF least
<1>6. found # {} => /\ map[slot][least] \in Members /\ key[map[slot][least]] = k
                    /\ Has(map[slot], map[slot][least])
  BY <1>3, <1>5 DEF Has
<1>7. \A x : Has(map[slot], x) /\ key[x] = k => found # {}
  BY DEF found, Has
<1> QED
  BY <1>1, <1>4, <1>6, <1>7

\* RemoveAt, a list without the element at position k.
LEMMA RemoveAtProperties ==
  ASSUME NEW S, NEW s \in Seq(S), NEW k \in 1..Len(s)
  PROVE  /\ RemoveAt(s, k) \in Seq(S)
         /\ Len(RemoveAt(s, k)) = Len(s) - 1
         /\ \A i \in 1..(Len(s) - 1) :
               RemoveAt(s, k)[i] = IF i < k THEN s[i] ELSE s[i + 1]
<1> DEFINE a == SubSeq(s, 1, k - 1)
           b == SubSeq(s, k + 1, Len(s))
<1>0. Len(s) \in Nat /\ \A i \in 1..Len(s) : s[i] \in S
  BY LenProperties, ElementOfSeq
<1>1. /\ a \in Seq(S) /\ Len(a) = k - 1
      /\ \A i \in 1..(k - 1) : a[i] = s[i]
  <2>1. \A i \in 1..(k - 1) : s[i] \in S
    BY <1>0
  <2>2. k - 1 \in Int
    BY <1>0
  <2> QED
    BY <2>1, <2>2, <1>0, SubSeqProperties
<1>2. /\ b \in Seq(S) /\ Len(b) = Len(s) - k
      /\ \A i \in 1..(Len(s) - k) : b[i] = s[k + i]
  <2>1. \A i \in (k + 1)..Len(s) : s[i] \in S
    BY <1>0
  <2>2. k + 1 \in Int
    BY <1>0
  <2> QED
    BY <2>1, <2>2, <1>0, SubSeqProperties
<1>3. RemoveAt(s, k) = a \o b
  BY DEF RemoveAt
<1> HIDE DEF a, b
<1>4. /\ a \o b \in Seq(S) /\ Len(a \o b) = Len(a) + Len(b)
      /\ \A i \in 1..(Len(a) + Len(b)) :
            (a \o b)[i] = IF i <= Len(a) THEN a[i] ELSE b[i - Len(a)]
  BY <1>1, <1>2, ConcatProperties
<1>5. ASSUME NEW i \in 1..(Len(s) - 1)
      PROVE  (a \o b)[i] = IF i < k THEN s[i] ELSE s[i + 1]
  <2>1. CASE i < k
    BY <2>1, <1>0, <1>1, <1>2, <1>4
  <2>2. CASE i >= k
    <3>1. (a \o b)[i] = b[i - (k - 1)]
      BY <2>2, <1>0, <1>1, <1>2, <1>4
    <3>2. b[i - (k - 1)] = s[k + (i - (k - 1))]
      BY <2>2, <1>0, <1>2
    <3> QED
      BY <3>1, <3>2, <2>2, <1>0
  <2>3. i < k \/ i >= k
    BY <1>0
  <2> QED
    BY <2>1, <2>2, <2>3
<1> QED
  BY <1>0, <1>1, <1>2, <1>3, <1>4, <1>5

\* list_del(): the others of a list stay.
LEMMA Removed ==
  ASSUME NEW S, NEW c \in Seq(S), NEW e, Has(c, e)
  PROVE  /\ RemoveFirst(c, e) \in Seq(S)
         /\ Range(RemoveFirst(c, e)) \subseteq Range(c)
         /\ \A x : x # e /\ Has(c, x) => Has(RemoveFirst(c, e), x)
<1> DEFINE I == {i \in 1 .. Len(c) : c[i] = e}
           p == Min(I)
<1>1. DOMAIN c = 1 .. Len(c) /\ Len(c) \in Nat
  OBVIOUS
<1>2. I # {} /\ I \subseteq Nat /\ \E i \in 1 .. Len(c) : c[i] = e
  BY <1>1 DEF Has
<1>3. RemoveFirst(c, e) = RemoveAt(c, p)
  BY <1>2 DEF RemoveFirst, SelectInSeq
<1> HIDE DEF I
<1>4. p \in I
  BY <1>2, LeastNumber DEF Min
<1>5. p \in 1 .. Len(c) /\ c[p] = e
  BY <1>4 DEF I
<1> HIDE DEF p
<1> DEFINE d == RemoveAt(c, p)
<1>6. d \in Seq(S) /\ Len(d) = Len(c) - 1
  BY <1>5, RemoveAtProperties
<1>7. DOMAIN d = 1 .. Len(c) - 1
  BY <1>6
<1>8. \A i \in 1 .. Len(c) - 1 : d[i] = IF i < p THEN c[i] ELSE c[i + 1]
  BY <1>5, RemoveAtProperties
<1> HIDE DEF d
<1>9. Range(d) \subseteq Range(c)
  <2> SUFFICES ASSUME NEW i \in 1 .. Len(c) - 1 PROVE d[i] \in Range(c)
    BY <1>7 DEF Range
  <2>1. \E j \in 1 .. Len(c) : d[i] = c[j]
    BY <1>1, <1>5, <1>8
  <2> QED
    BY <1>1, <2>1 DEF Range
<1>10. ASSUME NEW x, x # e, NEW i \in DOMAIN c, c[i] = x PROVE \E j \in DOMAIN d : d[j] = x
  <2>1. i # p /\ i \in 1 .. Len(c)
    BY <1>1, <1>5, <1>10
  <2>2. CASE i < p
    <3>1. i \in 1 .. Len(c) - 1 /\ d[i] = c[i]
      BY <1>1, <1>5, <1>8, <2>1, <2>2
    <3> QED
      BY <1>7, <1>10, <3>1
  <2>3. CASE ~(i < p)
    <3>1. i - 1 \in 1 .. Len(c) - 1 /\ d[i - 1] = c[i]
      BY <1>1, <1>5, <1>8, <2>1, <2>3
    <3> QED
      BY <1>7, <1>10, <3>1
  <2> QED
    BY <2>2, <2>3
<1>11. \A x : x # e /\ Has(c, x) => Has(d, x)
  BY <1>10 DEF Has
<1>12. RemoveFirst(c, e) = d
  BY <1>3 DEF d
<1> QED
  BY <1>12, <1>6, <1>9, <1>11

\* A step that leaves the chains, the list and the keys alone.
LEMMA QuietStep ==
  ASSUME TableInv, ChainsInv, NEW t \in Threads, OthersStay(t),
         UNCHANGED <<client, map, key_len, members, key, torn>>,
         pc[t] \notin {"rehash", "link"}, pc'[t] \notin {"rehash", "link"},
         FoundInv(t)', client = "serial" => OwnTable(t)'
  PROVE  ChainsInv'
<1> USE DEF ChainsInv
<1>1. \A u \in Threads : pc'[u] = "link" <=> pc[u] = "link"
  BY DEF OthersStay
<1>2. \A u \in Threads : pc'[u] = "rehash" <=> pc[u] = "rehash"
  BY DEF OthersStay
<1>3. \A u \in Threads : pc[u] = "link" => op'[u] = op[u]
  BY DEF OthersStay
<1>4. ChainType'
  BY <1>1, <1>3 DEF ChainType
<1>5. BeingLinked' = BeingLinked /\ InUse' = InUse
  BY <1>1, <1>3 DEF BeingLinked, InUse
<1>6. Listed' = Listed
  <2>1. {u \in Threads : pc'[u] = "link"} = {u \in Threads : pc[u] = "link"}
    BY <1>1
  <2>2. UNION {Range(op[u].first) : u \in {v \in Threads : pc[v] = "link"}}'
          = UNION {Range(op[u].first) : u \in {v \in Threads : pc[v] = "link"}}
    BY <1>3, <2>1
  <2> QED
    BY <1>5, <2>2 DEF Listed
<1>7. ChainInv'
  <2>1. \A m : Chained(m)' = Chained(m)
    BY DEF Chained, SlotOf
  <2> QED
    BY <1>2, <1>5, <1>6, <2>1 DEF ChainInv
<1>8. \A u \in Threads : FoundInv(u)'
  <2>1. \A u \in Threads \ {t} : FoundInv(u)'
    BY DEF OthersStay, FoundInv, UnderSlot
  <2> QED
    BY <2>1
<1>9. SerialInv'
  <2>1. client = "serial" => \A u \in Threads \ {t} : OwnTable(u)'
    BY DEF OthersStay, OwnTable, UnderSlot, SerialInv
  <2> QED
    BY <1>5, <2>1 DEF SerialInv
<1> QED
  BY <1>4, <1>7, <1>8, <1>9

\* ... after which the thread has no slot and has found nothing new.
LEMMA AwayStep ==
  ASSUME TableInv, ChainsInv, NEW t \in Threads, OthersStay(t),
         UNCHANGED <<client, map, key_len, members, key, torn>>,
         pc[t] \notin {"rehash", "link"},
         pc'[t] \in {"idle", "full", "rebuild", "lockall", "resize", "unlockall", "len"},
         op'[t].call = "delete" => /\ pc[t] = "value" \/ op[t].call = "delete"
                                   /\ op'[t].key = op[t].key /\ op'[t].member = op[t].member
  PROVE  ChainsInv'
<1>1. FoundInv(t)
  BY DEF ChainsInv
<1>2. FoundInv(t)'
  BY <1>1 DEF FoundInv, UnderSlot
<1>3. OwnTable(t)'
  BY DEF OwnTable, UnderSlot
<1>4. pc'[t] \notin {"rehash", "link"}
  OBVIOUS
<1> QED
  BY <1>2, <1>3, <1>4, QuietStep

\* A call begins, or ends without a member.
LEMMA AwayKeeps ==
  ASSUME TableInv, ChainsInv, NEW t \in Threads,
         \/ \E call \in {"find", "add"}, k \in Keys : Call(t, call, k)
         \/ AddMember(t) \/ hash_map_rebuild(t) \/ LockAll(t) \/ UnlockAll(t)
         \/ FindNothing(t) \/ ReadValue(t)
  PROVE  ChainsInv'
<1>0. /\ OpRecord(op[t]) /\ DOMAIN op = Threads /\ DOMAIN pc = Threads
      /\ NoOp.call = "none"
  BY OpFields DEF TableInv, TypeOK, NoOp
<1> DEFINE Away == {"idle", "full", "rebuild", "lockall", "resize", "unlockall", "len"}
           Quiet == /\ OthersStay(t) /\ UNCHANGED <<client, map, key_len, members, key, torn>>
                    /\ pc[t] \notin {"rehash", "link"} /\ pc'[t] \in Away
           Same == op'[t].call = op[t].call /\ op'[t].key = op[t].key /\ op'[t].member = op[t].member
<1>1. ASSUME Quiet, op'[t].call # "delete" \/ Same PROVE ChainsInv'
  BY <1>1, AwayStep
<1>2. ASSUME NEW call \in {"find", "add"}, NEW k \in Keys, Call(t, call, k) PROVE ChainsInv'
  <2>1. Quiet
    BY <1>0, <1>2 DEF Call, Goto, OthersStay
  <2>2. op'[t].call = call
    BY <1>0, <1>2 DEF Call, OpRecord
  <2> HIDE DEF Quiet
  <2> QED
    BY <1>1, <2>1, <2>2
<1>3. CASE AddMember(t)
  <2>1. Quiet /\ op' = op
    BY <1>0, <1>3 DEF AddMember, Goto, OthersStay
  <2> HIDE DEF Quiet
  <2> QED
    BY <1>1, <2>1
<1>4. CASE hash_map_rebuild(t)
  <2>1. Quiet
    BY <1>0, <1>4 DEF hash_map_rebuild, Goto, OthersStay
  <2>2. Same
    <3>1. op' = op \/ op' = [op EXCEPT ![t].i = 1]
      BY <1>4 DEF hash_map_rebuild
    <3> QED
      BY <1>0, <3>1 DEF OpRecord
  <2> HIDE DEF Quiet, Same
  <2> QED
    BY <1>1, <2>1, <2>2
<1>5. CASE LockAll(t)
  <2>1. Quiet
    BY <1>0, <1>5 DEF LockAll, Goto, OthersStay
  <2>2. Same
    <3>1. op' = op \/ op' = [op EXCEPT ![t].i = @ + 1]
      BY <1>5 DEF LockAll
    <3> QED
      BY <1>0, <3>1 DEF OpRecord
  <2> HIDE DEF Quiet, Same
  <2> QED
    BY <1>1, <2>1, <2>2
<1>6. CASE UnlockAll(t)
  <2>1. Quiet /\ op' = op
    BY <1>0, <1>6 DEF UnlockAll, Goto, OthersStay
  <2> HIDE DEF Quiet
  <2> QED
    BY <1>1, <2>1
<1>7. CASE FindNothing(t)
  <2>1. Quiet
    BY <1>0, <1>7 DEF FindNothing, Return, Goto, OthersStay
  <2>2. op'[t].call \in {"add", "none"}
    <3>1. \/ op' = [op EXCEPT ![t] = [NoOp EXCEPT !.call = "add", !.key = op[t].key]]
          \/ op' = [op EXCEPT ![t] = NoOp]
      BY <1>7 DEF FindNothing, Return
    <3>2. [NoOp EXCEPT !.call = "add", !.key = op[t].key].call = "add"
      BY DEF NoOp
    <3> QED
      BY <1>0, <3>1, <3>2
  <2> HIDE DEF Quiet
  <2> QED
    BY <1>1, <2>1, <2>2
<1>8. CASE ReadValue(t)
  <2>1. Quiet /\ pc[t] = "value"
    BY <1>0, <1>8 DEF ReadValue, Return, Goto, OthersStay
  <2>2. op' = [op EXCEPT ![t] = NoOp] \/ op' = [op EXCEPT ![t].call = "delete"]
    BY <1>8 DEF ReadValue, Return
  <2>3. op'[t].call = "none" \/ (op'[t].key = op[t].key /\ op'[t].member = op[t].member)
    BY <1>0, <2>2 DEF OpRecord
  <2> QED
    BY <2>1, <2>3, AwayStep
<1> QED
  BY <1>2, <1>3, <1>4, <1>5, <1>6, <1>7, <1>8

\* The slot is computed and its lock taken, and the member found.
LEMMA SlotKeeps ==
  ASSUME TableInv, ChainsInv, NEW t \in Threads,
         ReadKeyLen(t) \/ ComputeSlot(t) \/ LockSlot(t) \/ FindMember(t)
  PROVE  ChainsInv'
<1>0. /\ OpRecord(op[t]) /\ DOMAIN op = Threads /\ DOMAIN pc = Threads
      /\ FoundInv(t) /\ SlotInv(t) /\ CallInv(t)
  BY OpFields DEF TableInv, TypeOK, ChainsInv
<1>s. client = "serial" => OwnTable(t)
  BY DEF ChainsInv, SerialInv
<1> DEFINE Quiet == /\ OthersStay(t) /\ UNCHANGED <<client, map, key_len, members, key, torn>>
                    /\ pc[t] \notin {"rehash", "link"} /\ pc'[t] \notin {"rehash", "link"}
<1>1. CASE ReadKeyLen(t)
  <2>1. Quiet /\ pc[t] = "len" /\ pc'[t] = "slot"
    BY <1>0, <1>1 DEF ReadKeyLen, Goto, OthersStay
  <2>2. /\ op'[t].call = op[t].call /\ op'[t].key = op[t].key /\ op'[t].member = op[t].member
        /\ op'[t].len = key_len
    BY <1>0, <1>1 DEF ReadKeyLen, OpRecord
  <2>3. FoundInv(t)'
    BY <1>0, <2>1, <2>2 DEF FoundInv, UnderSlot
  <2>4. OwnTable(t)'
    BY <2>1, <2>2 DEF OwnTable, UnderSlot
  <2> QED
    BY <2>1, <2>3, <2>4, QuietStep
<1>2. CASE ComputeSlot(t)
  <2>1. Quiet /\ pc[t] = "slot" /\ pc'[t] = "lock"
    BY <1>0, <1>2 DEF ComputeSlot, Goto, OthersStay
  <2>2. /\ op'[t].call = op[t].call /\ op'[t].key = op[t].key /\ op'[t].member = op[t].member
        /\ op'[t].len = op[t].len /\ op'[t].mask = mask_len
        /\ op'[t].slot = get_map_slot(op[t].key, mask_len, op[t].len)
    <3> DEFINE s == get_map_slot(op[t].key, mask_len, op[t].len)
    <3>1. op' = [op EXCEPT ![t].mask = mask_len, ![t].slot = s]
      BY <1>2 DEF ComputeSlot
    <3> HIDE DEF s
    <3>2. /\ op'[t].call = op[t].call /\ op'[t].key = op[t].key /\ op'[t].member = op[t].member
          /\ op'[t].len = op[t].len /\ op'[t].mask = mask_len /\ op'[t].slot = s
      BY <1>0, <3>1 DEF OpRecord
    <3> QED
      BY <3>2 DEF s
  <2>3. FoundInv(t)'
    BY <1>0, <2>1, <2>2 DEF FoundInv, UnderSlot
  <2>4. ASSUME client = "serial" PROVE OwnTable(t)'
    <3>1. op[t].len = key_len
      BY <1>s, <2>1, <2>4 DEF OwnTable
    <3>2. \A u \in Threads : pc[u] # "rehash"
      <4>1. \A u \in Threads : pc[u] # "idle" => u = t
        BY <2>1, <2>4 DEF TableInv, ClientInv
      <4> QED
        BY <2>1, <4>1
    <3>3. mask_len = key_len
      BY <3>2 DEF TableInv, MaskInv
    <3> QED
      BY <2>1, <2>2, <3>1, <3>3 DEF OwnTable, UnderSlot
  <2> QED
    BY <2>1, <2>3, <2>4, QuietStep
<1>3. CASE LockSlot(t)
  <2>1. CASE op[t].len = key_len
    <3>1. /\ OthersStay(t) /\ UNCHANGED <<client, map, key_len, members, key, torn>>
          /\ pc[t] = "lock" /\ op' = op /\ pc'[t] = op[t].call
      BY <1>0, <1>3, <2>1 DEF LockSlot, Goto, OthersStay
    <3>2. pc'[t] \in {"find", "add", "delete"}
      BY <1>0, <3>1 DEF CallInv, OpRecord
    <3>3. FoundInv(t)'
      BY <1>0, <3>1, <3>2 DEF FoundInv, UnderSlot
    <3>4. client = "serial" => OwnTable(t)'
      BY <1>s, <3>1, <3>2 DEF OwnTable, UnderSlot
    <3> QED
      BY <3>1, <3>2, <3>3, <3>4, QuietStep
  <2>2. CASE op[t].len # key_len
    <3>1. /\ OthersStay(t) /\ UNCHANGED <<client, map, key_len, members, key, torn>>
          /\ pc[t] = "lock" /\ op' = op /\ pc'[t] = "len"
      BY <1>0, <1>3, <2>2 DEF LockSlot, Goto, OthersStay
    <3> QED
      BY <3>1, AwayStep
  <2> QED
    BY <2>1, <2>2
<1>4. CASE FindMember(t)
  <2> DEFINE m == get_map_member(op[t].slot, op[t].key)
  <2>1. /\ Quiet /\ pc[t] = "find" /\ pc'[t] = "value" /\ m # 0
        /\ op' = [op EXCEPT ![t].member = m]
    BY <1>0, <1>4 DEF FindMember, Goto, OthersStay
  <2>2. map[op[t].slot] \in Seq(Members)
    BY <1>0, <2>1 DEF SlotInv, UnderSlot, TableInv, TypeOK, ChainsInv, ChainType
  <2>3. m \in Members /\ key[m] = op[t].key
    BY <2>1, <2>2, MemberHit
  <2> HIDE DEF m
  <2>4. op'[t].call = op[t].call /\ op'[t].key = op[t].key /\ op'[t].member = m
    BY <1>0, <2>1 DEF OpRecord
  <2>5. FoundInv(t)'
    BY <1>0, <2>1, <2>3, <2>4 DEF FoundInv, UnderSlot
  <2>6. OwnTable(t)'
    BY <2>1 DEF OwnTable, UnderSlot
  <2> QED
    BY <2>1, <2>5, <2>6, QuietStep
<1> QED
  BY <1>1, <1>2, <1>3, <1>4

\* No key is the sign for a member without one.
LEMMA KeysAreWords == NoKey \notin Keys
<1>1. WordBits \in Nat
  BY HashMapAssumption
<1>2. 2^WordBits \in Nat
  BY <1>1, PowerPositive
<1> QED
  BY <1>2, HashMapAssumption DEF NoKey

\* The new table has no members yet.
LEMMA ResizeEmpties ==
  ASSUME TableInv, ChainsInv, NEW t \in Threads, Resize(t)
  PROVE  ChainsInv'
<1> USE DEF ChainsInv
<1>0. /\ pc[t] = "resize" /\ pc'[t] = "rehash" /\ OthersStay(t)
      /\ map' = [s \in 0 .. 2 * Size - 1 |-> <<>>]
      /\ UNCHANGED <<client, members, key, op, torn>>
  BY DEF Resize, Goto, OthersStay, TableInv, TypeOK
<1>1. \A u \in Threads : pc'[u] = "link" <=> pc[u] = "link"
  BY <1>0 DEF OthersStay
<1>2. ChainType'
  <2>1. DOMAIN map' = 0 .. 2 * Size - 1 /\ \A s \in DOMAIN map' : map'[s] = <<>>
    BY <1>0
  <2>2. <<>> \in Seq(Members)
    OBVIOUS
  <2>3. map' = [s \in DOMAIN map' |-> map'[s]]
    BY <1>0
  <2> QED
    BY <1>0, <1>1, <2>1, <2>2, <2>3 DEF ChainType
<1>3. ChainInv'
  BY <1>0 DEF ChainInv
<1>4. ASSUME NEW u \in Threads PROVE FoundInv(u)'
  BY <1>0 DEF FoundInv, UnderSlot, OthersStay
<1>5. BeingLinked' = BeingLinked /\ InUse' = InUse
  BY <1>0, <1>1 DEF BeingLinked, InUse
<1>6. SerialInv'
  <2> SUFFICES ASSUME client = "serial" PROVE SerialInv'
    BY <1>0 DEF SerialInv
  <2>1. \A u \in Threads \ {t} : pc'[u] = "idle"
    BY <1>0 DEF TableInv, ClientInv, OthersStay
  <2>2. \A u \in Threads : OwnTable(u)'
    BY <1>0, <2>1 DEF OwnTable, UnderSlot
  <2> QED
    BY <1>0, <1>5, <2>2 DEF SerialInv
<1> QED
  BY <1>2, <1>3, <1>4, <1>6

\* The walk brings every member that the list has into its chain.
LEMMA RehashChains ==
  ASSUME TableInv, ChainsInv, NEW t \in Threads, Rehash(t)
  PROVE  ChainsInv'
<1> USE DEF ChainsInv
<1>0. /\ pc[t] = "rehash" /\ pc'[t] = "unlockall" /\ OthersStay(t) /\ torn' = {}
      /\ UNCHANGED <<client, key_len, members, key, op>>
  BY DEF Rehash, Goto, OthersStay, TableInv, TypeOK
<1>1. Filled(map', Len(members))
  BY RehashFills DEF TableInv
<1>2. \A u \in Threads \ {t} :
        pc[u] \in {"idle", "full", "rebuild", "len", "slot", "lock", "value"}
  BY <1>0, RebuilderAlone DEF UnderAll
<1>3. \A u \in Threads : pc[u] # "link" /\ pc'[u] # "link"
  BY <1>0, <1>2 DEF OthersStay
<1>4. ChainType'
  BY <1>0, <1>1, <1>3 DEF ChainType, Filled
<1>5. BeingLinked = {} /\ BeingLinked' = {} /\ InUse' = InUse /\ Listed' = Range(members)
  BY <1>0, <1>3 DEF BeingLinked, InUse, Listed
<1>6. ChainInv'
  <2> SUFFICES ASSUME NEW m \in Range(members) PROVE Chained(m)'
    BY <1>5 DEF ChainInv
  <2>1. PICK j \in 1 .. Len(members) : m = members[j]
    BY DEF Range, ChainType
  <2>2. Has(map'[SlotOf(m)], m)
    BY <1>1, <2>1 DEF Filled
  <2>3. SlotOf(m)' = SlotOf(m)
    BY <1>0 DEF SlotOf
  <2> QED
    BY <2>2, <2>3 DEF Chained, Has
<1>7. ASSUME NEW u \in Threads PROVE FoundInv(u)'
  BY <1>0 DEF FoundInv, UnderSlot, OthersStay
<1>8. SerialInv'
  <2> SUFFICES ASSUME client = "serial" PROVE SerialInv'
    BY <1>0 DEF SerialInv
  <2>1. \A u \in Threads \ {t} : pc'[u] = "idle"
    BY <1>0 DEF TableInv, ClientInv, OthersStay
  <2>2. \A u \in Threads : OwnTable(u)'
    BY <1>0, <2>1 DEF OwnTable, UnderSlot
  <2> QED
    BY <1>0, <1>5, <2>2 DEF SerialInv
<1> QED
  BY <1>4, <1>6, <1>7, <1>8

\* A new member is in the chain that its thread computed: that of its key, or
\* torn says that it is another one.
LEMMA AddToChainChains ==
  ASSUME TableInv, ChainsInv, NEW t \in Threads, AddToChain(t)
  PROVE  ChainsInv'
<1> DEFINE m == CHOOSE x \in Members \ InUse : \A y \in Members \ InUse : x <= y
           s == op[t].slot
           c == map[s]
<1>0. /\ OpRecord(op[t]) /\ DOMAIN op = Threads /\ DOMAIN pc = Threads
      /\ FoundInv(t) /\ SlotInv(t) /\ CallInv(t)
      /\ key \in [Members -> Keys \cup {NoKey}]
  BY OpFields DEF TableInv, TypeOK, ChainsInv
<1>1. /\ pc[t] = "add" /\ pc'[t] = "link" /\ OthersStay(t)
      /\ key' = [key EXCEPT ![m] = op[t].key]
      /\ map' = [map EXCEPT ![s] = <<m>> \o c]
      /\ op' = [op EXCEPT ![t].member = m, ![t].first = members]
      /\ torn' = IF op[t].mask # op[t].len THEN torn \cup {m} ELSE torn
      /\ UNCHANGED <<client, key_len, members>> /\ InUse # Members
  BY <1>0 DEF AddToChain, Goto, OthersStay
<1>2. m \in Members \ InUse
  BY <1>1, FreeMember
<1> HIDE DEF m
<1>3. s \in DOMAIN map
  BY <1>0, <1>1 DEF SlotInv, UnderSlot, TableInv, TypeOK
<1>4. /\ \A x \in DOMAIN map : map[x] \in Seq(Members)
      /\ members \in Seq(Members) /\ map = [x \in DOMAIN map |-> map[x]]
      /\ \A u \in Threads : pc[u] = "link" => op[u].first \in Seq(Members)
  BY DEF ChainsInv, ChainType
<1>5. /\ op'[t].call = op[t].call /\ op'[t].key = op[t].key /\ op'[t].member = m
      /\ op'[t].first = members /\ op'[t].slot = s /\ op'[t].len = op[t].len
      /\ op'[t].mask = op[t].mask
  BY <1>0, <1>1 DEF OpRecord
<1>6. IsPushed(<<m>> \o c, Members, c, m)
  BY <1>2, <1>3, <1>4, Pushed
<1> HIDE DEF c, s
<1>7. /\ DOMAIN map' = DOMAIN map /\ map'[s] = <<m>> \o c
      /\ map' = [x \in DOMAIN map' |-> map'[x]]
      /\ \A x \in DOMAIN map \ {s} : map'[x] = map[x]
  BY <1>1, <1>3, <1>4
<1>8. ChainType'
  <2>1. \A x \in DOMAIN map' : map'[x] \in Seq(Members)
    BY <1>4, <1>6, <1>7 DEF IsPushed
  <2>2. \A u \in Threads : pc'[u] = "link" => op'[u].first \in Seq(Members)
    BY <1>1, <1>4, <1>5 DEF OthersStay
  <2> QED
    BY <1>1, <1>4, <1>7, <2>1, <2>2 DEF ChainType
<1>9. \A x \in DOMAIN map : \A y : Has(map[x], y) => Has(map'[x], y)
  BY <1>6, <1>7 DEF IsPushed, c
<1>10. op[t].key \in Keys /\ NoKey \notin Keys
  BY <1>0, <1>1, HashMapAssumption, KeysAreWords DEF CallInv
<1>11. key'[m] = op[t].key /\ \A x \in Members \ {m} : key'[x] = key[x]
  BY <1>0, <1>1, <1>2
<1>12. InUse' = InUse \cup {m}
  BY <1>2, <1>10, <1>11 DEF InUse
<1>13. BeingLinked' = BeingLinked \cup {m}
  <2>1. \A u \in Threads : pc'[u] = "link" <=> u = t \/ pc[u] = "link"
    BY <1>1 DEF OthersStay
  <2>2. \A u \in Threads \ {t} : op'[u].member = op[u].member
    BY <1>1 DEF OthersStay
  <2>3. pc[t] # "link" /\ op'[t].member = m /\ pc'[t] = "link"
    BY <1>1, <1>5
  <2>4. \A x : (\E u \in Threads : pc'[u] = "link" /\ x = op'[u].member)
              <=> x = m \/ \E u \in Threads : pc[u] = "link" /\ x = op[u].member
    BY <2>1, <2>2, <2>3
  <2>5. \A x : x \in BeingLinked <=> \E u \in Threads : pc[u] = "link" /\ x = op[u].member
    BY DEF BeingLinked
  <2>6. \A x : x \in BeingLinked' <=> \E u \in Threads : pc'[u] = "link" /\ x = op'[u].member
    BY DEF BeingLinked
  <2> QED
    BY <2>4, <2>5, <2>6
<1>14. Listed' \subseteq Listed \cup {m}
  <2>1. \A u \in Threads : pc'[u] = "link" => op'[u].first = members \/ (pc[u] = "link" /\ op'[u].first = op[u].first)
    BY <1>1, <1>5 DEF OthersStay
  <2>2. \A u \in Threads : pc'[u] = "link" => Range(op'[u].first) \subseteq Listed
    BY <2>1 DEF Listed
  <2>3. BeingLinked' \subseteq Listed \cup {m} /\ Range(members') \subseteq Listed
    BY <1>1, <1>13 DEF Listed
  <2>4. Listed' = Range(members') \cup BeingLinked'
                    \cup UNION {Range(op'[u].first) : u \in {v \in Threads : pc'[v] = "link"}}
    BY DEF Listed
  <2>5. UNION {Range(op'[u].first) : u \in {v \in Threads : pc'[v] = "link"}} \subseteq Listed
    BY <2>2
  <2> QED
    BY <2>3, <2>4, <2>5
<1>15. ChainInv'
  <2> SUFFICES ASSUME NEW x \in (InUse' \cap Listed') \ torn', \A u \in Threads : pc'[u] # "rehash"
               PROVE  Chained(x)'
    BY DEF ChainInv
  <2>1. CASE x = m
    <3>1. op[t].mask = op[t].len /\ op[t].len = key_len
      BY <1>0, <1>1, <2>1 DEF SlotInv, UnderSlot
    <3>2. s = get_map_slot(op[t].key, key_len, key_len)
      BY <1>0, <1>1, <3>1 DEF FoundInv, UnderSlot, s
    <3>3. SlotOf(x)' = s
      BY <1>1, <1>11, <2>1, <3>2 DEF SlotOf
    <3>4. Has(map'[s], m)
      BY <1>6, <1>7 DEF IsPushed
    <3> QED
      BY <2>1, <3>3, <3>4 DEF Chained, Has
  <2>2. CASE x # m
    <3>1. x \in InUse /\ x \in Listed /\ x \notin torn /\ x \in Members
      BY <1>1, <1>12, <1>14, <2>2 DEF InUse
    <3>2. \A u \in Threads : pc[u] # "rehash"
      BY <1>1 DEF OthersStay
    <3>3. Chained(x)
      BY <3>1, <3>2 DEF ChainsInv, ChainInv
    <3>4. SlotOf(x)' = SlotOf(x)
      BY <1>1, <1>11, <2>2, <3>1 DEF SlotOf
    <3>5. SlotOf(x) \in DOMAIN map
      BY <3>1, SlotInside DEF TableInv
    <3>6. Has(map'[SlotOf(x)], x)
      BY <1>9, <3>3, <3>5 DEF Chained
    <3> QED
      BY <3>4, <3>6 DEF Chained, Has
  <2> QED
    BY <2>1, <2>2
<1>16. ASSUME NEW u \in Threads PROVE FoundInv(u)'
  <2>1. CASE u = t
    BY <1>0, <1>1, <1>5, <2>1 DEF FoundInv, UnderSlot, s
  <2>2. CASE u # t
    <3>1. FoundInv(u) /\ pc'[u] = pc[u] /\ op'[u] = op[u] /\ CallInv(u)
      BY <1>1, <2>2 DEF OthersStay, ChainsInv, TableInv
    <3>2. ASSUME pc[u] = "value" \/ op[u].call = "delete" PROVE key'[op[u].member] = op[u].key
      <4>1. op[u].member \in Members /\ key[op[u].member] = op[u].key
        BY <3>1, <3>2 DEF FoundInv
      <4>2. op[u].key \in Keys
        BY <3>1, <3>2 DEF CallInv
      <4>3. op[u].member # m
        BY <1>2, <1>10, <4>1, <4>2 DEF InUse
      <4> QED
        BY <1>11, <4>1, <4>3
    <3> QED
      BY <3>1, <3>2 DEF FoundInv, UnderSlot
  <2> QED
    BY <2>1, <2>2
<1>17. SerialInv'
  <2> SUFFICES ASSUME client = "serial" PROVE SerialInv'
    BY <1>1 DEF SerialInv
  <2>1. /\ torn = {} /\ InUse \subseteq Range(members) \cup BeingLinked
        /\ \A u \in Threads : OwnTable(u)
    BY DEF ChainsInv, SerialInv
  <2>2. op[t].mask = op[t].len /\ op[t].len = key_len
    BY <1>1, <2>1 DEF OwnTable, UnderSlot
  <2>3. torn' = {}
    BY <1>1, <2>1, <2>2
  <2>4. InUse' \subseteq Range(members') \cup BeingLinked'
    BY <1>1, <1>12, <1>13, <2>1
  <2>5. OwnTable(t)'
    BY <1>1, <1>5, <2>2 DEF OwnTable, UnderSlot
  <2>6. \A u \in Threads \ {t} : OwnTable(u)'
    BY <1>1, <2>1 DEF OwnTable, OthersStay, UnderSlot
  <2> QED
    BY <2>3, <2>4, <2>5, <2>6 DEF SerialInv
<1> QED
  BY <1>8, <1>15, <1>16, <1>17 DEF ChainsInv

\* A list that begins with m.
LEMMA PushedRange ==
  ASSUME NEW S, NEW c \in Seq(S), NEW m \in S
  PROVE  Range(<<m>> \o c) = Range(c) \cup {m}
<1> DEFINE d == <<m>> \o c
<1>1. Len(d) = Len(c) + 1 /\ d[1] = m /\ Len(c) \in Nat /\ DOMAIN d = 1 .. Len(d)
  OBVIOUS
<1>2. DOMAIN c = 1 .. Len(c) /\ \A i \in 1 .. Len(c) : d[i + 1] = c[i]
  OBVIOUS
<1> HIDE DEF d
<1>3. \A i \in DOMAIN d : i = 1 \/ (i - 1 \in DOMAIN c /\ d[i] = c[i - 1])
  BY <1>1, <1>2
<1>4. \A i \in DOMAIN c : i + 1 \in DOMAIN d /\ d[i + 1] = c[i]
  BY <1>1, <1>2
<1>5. Range(d) \subseteq Range(c) \cup {m}
  BY <1>1, <1>3 DEF Range
<1>6. Range(c) \subseteq Range(d)
  BY <1>4 DEF Range
<1>7. 1 \in DOMAIN d
  BY <1>1
<1>8. m \in Range(d)
  BY <1>1, <1>7 DEF Range
<1> QED
  BY <1>5, <1>6, <1>8 DEF d

\* The end of list_add(): what was about to be listed is, and what another
\* thread has listed meanwhile may be lost, but not moved.
LEMMA AddToMembersChains ==
  ASSUME TableInv, ChainsInv, NEW t \in Threads, AddToMembers(t)
  PROVE  ChainsInv'
<1> DEFINE m == op[t].member
           first == op[t].first
<1>0. DOMAIN op = Threads /\ DOMAIN pc = Threads /\ NoOp.call = "none"
  BY DEF TableInv, TypeOK, NoOp
<1>1. /\ pc[t] = "link" /\ pc'[t] = "idle" /\ op'[t] = NoOp /\ OthersStay(t)
      /\ members' = <<m>> \o first
      /\ UNCHANGED <<client, map, key_len, key, torn>>
  BY <1>0 DEF AddToMembers, Return, Goto, OthersStay
<1>2. m \in BeingLinked /\ BeingLinked \subseteq InUse /\ m \in Members
  BY <1>1 DEF BeingLinked, TableInv, LinkInv, InUse
<1>3. first \in Seq(Members)
  BY <1>1 DEF ChainsInv, ChainType
<1>4. members' \in Seq(Members) /\ Range(members') = Range(first) \cup {m}
  BY <1>1, <1>2, <1>3, PushedRange, Pushed DEF IsPushed
<1>5. Range(first) \subseteq Listed
  BY <1>1 DEF Listed
<1> HIDE DEF m, first
<1>6. \A u \in Threads : pc'[u] = "link" => pc[u] = "link" /\ op'[u] = op[u]
  BY <1>1 DEF OthersStay
<1>7. BeingLinked' \subseteq BeingLinked /\ InUse' = InUse
  BY <1>1, <1>6 DEF BeingLinked, InUse
<1>8. Listed' \subseteq Listed
  <2>1. \A u \in Threads : pc'[u] = "link" => Range(op'[u].first) \subseteq Listed
    BY <1>6 DEF Listed
  <2>2. Range(members') \subseteq Listed
    BY <1>2, <1>4, <1>5 DEF Listed
  <2>3. BeingLinked' \subseteq Listed
    BY <1>7 DEF Listed
  <2> QED
    BY <2>1, <2>2, <2>3 DEF Listed
<1>9. ChainType'
  BY <1>1, <1>4, <1>6 DEF ChainsInv, ChainType
<1>10. ChainInv'
  <2>1. \A x : Chained(x)' = Chained(x)
    BY <1>1 DEF Chained, SlotOf, Has
  <2>2. (\A u \in Threads : pc'[u] # "rehash") => \A u \in Threads : pc[u] # "rehash"
    BY <1>1 DEF OthersStay
  <2> QED
    BY <1>1, <1>7, <1>8, <2>1, <2>2 DEF ChainsInv, ChainInv
<1>11. ASSUME NEW u \in Threads PROVE FoundInv(u)'
  <2>1. CASE u = t
    BY <1>0, <1>1, <2>1 DEF FoundInv, UnderSlot
  <2>2. CASE u # t
    BY <1>1, <2>2 DEF FoundInv, UnderSlot, OthersStay, ChainsInv
  <2> QED
    BY <2>1, <2>2
<1>12. SerialInv'
  <2> SUFFICES ASSUME client = "serial" PROVE SerialInv'
    BY <1>1 DEF SerialInv
  <2>1. \A u \in Threads \ {t} : pc[u] = "idle"
    BY <1>1 DEF TableInv, ClientInv
  <2>2. \A u \in Threads : pc'[u] = "idle"
    BY <1>1, <2>1 DEF OthersStay
  <2>3. BeingLinked = {m}
    BY <1>1, <2>1 DEF BeingLinked, m
  <2>4. torn = {} /\ InUse \subseteq Range(members) \cup BeingLinked /\ first = members
    BY <1>1 DEF ChainsInv, SerialInv, OwnTable, first
  <2>5. InUse' \subseteq Range(members')
    BY <1>4, <1>7, <2>3, <2>4
  <2>6. \A u \in Threads : OwnTable(u)'
    BY <2>2 DEF OwnTable, UnderSlot
  <2> QED
    BY <1>1, <2>4, <2>5, <2>6 DEF SerialInv
<1> QED
  BY <1>9, <1>10, <1>11, <1>12 DEF ChainsInv

\* Deletion takes one member from its chain and from the list, and no other.
LEMMA DeleteMemberChains ==
  ASSUME TableInv, ChainsInv, NEW t \in Threads, DeleteMember(t)
  PROVE  ChainsInv'
<1> DEFINE s == op[t].slot
           m == get_map_member(s, op[t].key)
           c == map[s]
<1>0. /\ DOMAIN op = Threads /\ DOMAIN pc = Threads /\ NoOp.call = "none"
      /\ SlotInv(t) /\ CallInv(t) /\ key \in [Members -> Keys \cup {NoKey}]
  BY DEF TableInv, TypeOK, NoOp
<1>1. /\ pc[t] = "delete" /\ pc'[t] = "idle" /\ op'[t] = NoOp /\ OthersStay(t) /\ m # 0
      /\ map' = [map EXCEPT ![s] = RemoveFirst(c, m)]
      /\ members' = RemoveFirst(members, m)
      /\ key' = [key EXCEPT ![m] = NoKey]
      /\ UNCHANGED <<client, key_len, torn>>
  BY <1>0 DEF DeleteMember, Return, Goto, OthersStay
<1>2. client = "serial" /\ \A u \in Threads \ {t} : pc[u] = "idle"
  BY <1>0, <1>1 DEF CallInv, TableInv, ClientInv
<1>3. s \in DOMAIN map
  BY <1>0, <1>1 DEF SlotInv, UnderSlot, TableInv, TypeOK
<1>4. /\ \A x \in DOMAIN map : map[x] \in Seq(Members)
      /\ members \in Seq(Members) /\ map = [x \in DOMAIN map |-> map[x]]
  BY DEF ChainsInv, ChainType
<1>5. m \in Members /\ key[m] = op[t].key /\ Has(c, m)
  <2>1. map[s] \in Seq(Members)
    BY <1>3, <1>4
  <2> QED
    BY <1>1, <2>1, MemberHit
<1> HIDE DEF m
<1>6. op[t].key \in Keys /\ NoKey \notin Keys
  BY <1>0, <1>1, KeysAreWords DEF CallInv
<1>7. \A u \in Threads : pc'[u] = "idle"
  BY <1>1, <1>2 DEF OthersStay
<1>8. BeingLinked = {} /\ BeingLinked' = {}
  BY <1>1, <1>2, <1>7 DEF BeingLinked
<1>9. torn = {} /\ InUse \subseteq Range(members)
  BY <1>2, <1>8 DEF ChainsInv, SerialInv
<1>10. m \in InUse /\ InUse' = InUse \ {m}
  BY <1>0, <1>1, <1>5, <1>6 DEF InUse
<1>11. Has(members, m)
  BY <1>9, <1>10 DEF Has, Range
<1>12. /\ members' \in Seq(Members) /\ Range(members') \subseteq Range(members)
       /\ \A x : x # m /\ Has(members, x) => Has(members', x)
  BY <1>1, <1>4, <1>11, Removed
<1>13. RemoveFirst(c, m) \in Seq(Members) /\ \A x : x # m /\ Has(c, x) => Has(RemoveFirst(c, m), x)
  <2>1. c \in Seq(Members)
    BY <1>3, <1>4
  <2> HIDE DEF c
  <2> QED
    BY <1>5, <2>1, Removed
<1> HIDE DEF c, s
<1>14. /\ DOMAIN map' = DOMAIN map /\ map'[s] = RemoveFirst(c, m)
       /\ map' = [x \in DOMAIN map' |-> map'[x]]
       /\ \A x \in DOMAIN map \ {s} : map'[x] = map[x]
  BY <1>1, <1>3, <1>4
<1>15. ChainType'
  <2>1. \A x \in DOMAIN map' : map'[x] \in Seq(Members)
    BY <1>4, <1>13, <1>14
  <2> QED
    BY <1>7, <1>12, <1>14, <2>1 DEF ChainType
<1>16. ChainInv'
  <2>1. Listed = Range(members) /\ Listed' = Range(members')
    BY <1>1, <1>2, <1>7, <1>8 DEF Listed
  <2> SUFFICES ASSUME NEW x \in InUse' \cap Listed' PROVE Chained(x)'
    BY DEF ChainInv
  <2>2. x # m /\ x \in InUse /\ x \in Listed /\ x \notin torn /\ x \in Members
    BY <1>9, <1>10, <1>12, <2>1 DEF InUse
  <2>3. \A u \in Threads : pc[u] # "rehash"
    BY <1>1, <1>2
  <2>4. Chained(x)
    BY <2>2, <2>3 DEF ChainsInv, ChainInv
  <2>5. SlotOf(x) \in DOMAIN map
    BY <2>2, SlotInside DEF TableInv
  <2>6. SlotOf(x)' = SlotOf(x)
    BY <1>0, <1>1, <2>2 DEF SlotOf
  <2>7. Has(map'[SlotOf(x)], x)
    BY <1>13, <1>14, <2>2, <2>4, <2>5 DEF Chained, c
  <2> QED
    BY <2>6, <2>7 DEF Chained, Has
<1>17. ASSUME NEW u \in Threads PROVE FoundInv(u)'
  <2>1. op'[u].call = "none"
    <3>1. CASE u = t
      BY <1>0, <1>1, <3>1
    <3>2. CASE u # t
      BY <1>1, <1>2, <3>2 DEF TableInv, CallInv, OthersStay
    <3> QED
      BY <3>1, <3>2
  <2> QED
    BY <1>7, <2>1 DEF FoundInv, UnderSlot
<1>18. SerialInv'
  <2>1. InUse' \subseteq Range(members')
    <3> SUFFICES ASSUME NEW x \in InUse, x # m PROVE x \in Range(members')
      BY <1>10
    <3>1. Has(members, x)
      BY <1>9 DEF Has, Range
    <3>2. Has(members', x)
      BY <1>12, <3>1
    <3> QED
      BY <3>2 DEF Has, Range
  <2>2. \A u \in Threads : OwnTable(u)'
    BY <1>7 DEF OwnTable, UnderSlot
  <2> QED
    BY <1>1, <1>9, <2>1, <2>2 DEF SerialInv
<1> QED
  BY <1>15, <1>16, <1>17, <1>18 DEF ChainsInv

\* delete_hash_map() leaves no member in use.
LEMMA DeleteMapChains ==
  ASSUME TableInv, ChainsInv, delete_hash_map
  PROVE  ChainsInv'
<1>0. /\ \A u \in Threads : pc[u] = "idle" /\ pc'[u] = "idle" /\ op'[u] = op[u]
      /\ client' = "gone" /\ map' = [s \in DOMAIN map |-> <<>>] /\ members' = <<>>
      /\ key' = [m \in Members |-> NoKey]
  BY DEF delete_hash_map
<1>1. ChainType'
  <2>1. DOMAIN map' = DOMAIN map /\ \A s \in DOMAIN map : map'[s] = <<>>
    BY <1>0
  <2>2. <<>> \in Seq(Members) /\ map' = [s \in DOMAIN map' |-> map'[s]]
    BY <1>0
  <2> QED
    BY <1>0, <2>1, <2>2 DEF ChainType
<1>2. InUse' = {}
  BY <1>0 DEF InUse
<1>3. ChainInv'
  BY <1>2 DEF ChainInv
<1>4. \A u \in Threads : FoundInv(u)'
  BY <1>0 DEF FoundInv, UnderSlot, TableInv, CallInv
<1>5. SerialInv'
  BY <1>0 DEF SerialInv
<1> QED
  BY <1>1, <1>3, <1>4, <1>5 DEF ChainsInv

\* A new map has no members.
LEMMA InitChains == Init => ChainsInv
<1> SUFFICES ASSUME Init PROVE ChainsInv
  OBVIOUS
<1>0. /\ \A u \in Threads : pc[u] = "idle" /\ op[u] = NoOp
      /\ NoOp.call = "none" /\ torn = {} /\ members = <<>>
      /\ map = [s \in 0 .. 2^HT_INIT_KEY_LEN - 1 |-> <<>>]
      /\ key = [m \in Members |-> NoKey]
  BY DEF Init, NoOp
<1>1. ChainType
  <2>1. \A s \in DOMAIN map : map[s] = <<>>
    BY <1>0
  <2>2. <<>> \in Seq(Members) /\ map = [s \in DOMAIN map |-> map[s]]
    BY <1>0
  <2> QED
    BY <1>0, <2>1, <2>2 DEF ChainType
<1>2. InUse = {}
  BY <1>0 DEF InUse
<1>3. ChainInv
  BY <1>2 DEF ChainInv
<1>4. \A u \in Threads : FoundInv(u)
  BY <1>0 DEF FoundInv, UnderSlot
<1>5. SerialInv
  BY <1>0, <1>2 DEF SerialInv, OwnTable, UnderSlot
<1> QED
  BY <1>1, <1>3, <1>4, <1>5 DEF ChainsInv

\* Every step keeps the chains.
LEMMA NextChains == TableInv /\ ChainsInv /\ [Next]_vars => ChainsInv'
<1> SUFFICES ASSUME TableInv, ChainsInv, [Next]_vars PROVE ChainsInv'
  OBVIOUS
<1>1. CASE UNCHANGED vars
  <2> USE <1>1 DEF vars
  <2>1. BeingLinked' = BeingLinked /\ InUse' = InUse /\ Listed' = Listed
    BY DEF BeingLinked, InUse, Listed
  <2>2. ChainType'
    BY DEF ChainsInv, ChainType
  <2>3. ChainInv'
    <3>1. \A x : Chained(x)' = Chained(x)
      BY DEF Chained, SlotOf, Has
    <3> QED
      BY <2>1, <3>1 DEF ChainsInv, ChainInv
  <2>4. \A u \in Threads : FoundInv(u)'
    BY DEF ChainsInv, FoundInv, UnderSlot
  <2>5. SerialInv'
    BY <2>1 DEF ChainsInv, SerialInv, OwnTable, UnderSlot
  <2> QED
    BY <2>2, <2>3, <2>4, <2>5 DEF ChainsInv
<1>2. ASSUME NEW t \in Threads, NEW call \in {"find", "add"}, NEW k \in Keys, Call(t, call, k)
      PROVE  ChainsInv'
  BY <1>2, AwayKeeps
<1>3. ASSUME NEW t \in Threads, Step(t) PROVE ChainsInv'
  <2>1. CASE \/ AddMember(t) \/ hash_map_rebuild(t) \/ LockAll(t) \/ UnlockAll(t)
             \/ FindNothing(t) \/ ReadValue(t)
    BY <2>1, AwayKeeps
  <2>2. CASE ReadKeyLen(t) \/ ComputeSlot(t) \/ LockSlot(t) \/ FindMember(t)
    BY <2>2, SlotKeeps
  <2>3. CASE Resize(t)
    BY <2>3, ResizeEmpties
  <2>4. CASE Rehash(t)
    BY <2>4, RehashChains
  <2>5. CASE AddToChain(t)
    BY <2>5, AddToChainChains
  <2>6. CASE AddToMembers(t)
    BY <2>6, AddToMembersChains
  <2>7. CASE DeleteMember(t)
    BY <2>7, DeleteMemberChains
  <2> QED
    BY <1>3, <2>1, <2>2, <2>3, <2>4, <2>5, <2>6, <2>7 DEF Step
<1>4. CASE delete_hash_map
  BY <1>4, DeleteMapChains
<1> QED
  BY <1>1, <1>2, <1>3, <1>4 DEF Next

-----------------------------------------------------------------------------
(* The theorems.                                                           *)

\* A new map.
LEMMA InitTable == Init => TableInv
<1> SUFFICES ASSUME Init PROVE TableInv
  OBVIOUS
<1> USE DEF Init
<1>1. OpRecord(NoOp) /\ NoOp.call = "none"
  BY DEF OpRecord, NoOp
<1>2. \A t \in Threads : pc[t] = "idle" /\ op[t] = NoOp
  OBVIOUS
<1>3. TypeOK
  <2>1. \A t \in Threads : OpOK(t)
    BY <1>1, <1>2 DEF OpOK, OpRecord
  <2>2. key_len \in 1..WordBits /\ mask_len \in 0..WordBits
    BY HashMapAssumption
  <2>3. client \in {"serial", "shared", "gone"}
    BY HashMapAssumption
  <2>4. pc \in [Threads -> PCs] /\ op = [t \in Threads |-> op[t]]
    BY DEF PCs
  <2> QED
    BY <2>1, <2>2, <2>3, <2>4 DEF TypeOK
<1>4. LockInv
  <2>1. \A t \in Threads : t # NoThread
    BY HashMapAssumption
  <2> QED
    BY <1>2, <2>1 DEF LockInv, Holds, UnderSlot, UnderAll
<1>5. MaskInv
  BY DEF MaskInv
<1>6. \A t \in Threads : SlotInv(t) /\ CallInv(t)
  BY <1>1, <1>2 DEF SlotInv, CallInv, UnderSlot
<1>7. ClientInv
  BY <1>2 DEF ClientInv
<1>8. BeingLinked = {} /\ InUse = {}
  BY <1>2 DEF BeingLinked, InUse
<1>9. LinkInv
  BY <1>2, <1>8 DEF LinkInv
<1>10. FillInv
  <2>1. Cardinality(InUse \ BeingLinked) = 0
    BY <1>8, FS_EmptySet
  <2> QED
    BY <1>2, <2>1 DEF FillInv
<1> QED
  BY <1>3, <1>4, <1>5, <1>6, <1>7, <1>9, <1>10 DEF TableInv

\* Every step keeps the invariant.
LEMMA NextTable == TableInv /\ ChainType /\ [Next]_vars => TableInv'
<1> SUFFICES ASSUME TableInv, ChainType, [Next]_vars PROVE TableInv'
  OBVIOUS
<1>1. CASE UNCHANGED vars
  <2> USE <1>1 DEF vars
  <2>1. TypeOK' /\ LockInv' /\ MaskInv'
    BY DEF TableInv, TypeOK, OpOK, LockInv, MaskInv, Holds, UnderSlot, UnderAll
  <2>2. \A t \in Threads : SlotInv(t)' /\ CallInv(t)'
    BY DEF TableInv, SlotInv, CallInv, UnderSlot
  <2>3. ClientInv' /\ LinkInv' /\ FillInv'
    BY DEF TableInv, ClientInv, LinkInv, FillInv, BeingLinked, InUse
  <2> QED
    BY <2>1, <2>2, <2>3 DEF TableInv
<1>2. ASSUME NEW t \in Threads, NEW call \in {"find", "add"}, NEW k \in Keys, Call(t, call, k)
      PROVE  TableInv'
  BY <1>2, UnlockedKeeps
<1>3. ASSUME NEW t \in Threads, Step(t) PROVE TableInv'
  <2>1. CASE AddMember(t) \/ ReadKeyLen(t) \/ ComputeSlot(t) \/ ReadValue(t)
    BY <2>1, UnlockedKeeps
  <2>2. CASE hash_map_rebuild(t) \/ LockAll(t) \/ UnlockAll(t)
    BY <2>2, RebuildLocksKeep
  <2>3. CASE LockSlot(t) \/ FindNothing(t) \/ FindMember(t)
    BY <2>3, SlotLockKeeps
  <2>4. CASE Resize(t)
    BY <2>4, ResizeKeeps
  <2>5. CASE Rehash(t)
    BY <2>5, RehashKeeps
  <2>6. CASE AddToChain(t)
    BY <2>6, AddToChainKeeps
  <2>7. CASE AddToMembers(t)
    BY <2>7, AddToMembersKeeps
  <2>8. CASE DeleteMember(t)
    BY <2>8, DeleteMemberKeeps
  <2> QED
    BY <1>3, <2>1, <2>2, <2>3, <2>4, <2>5, <2>6, <2>7, <2>8 DEF Step
<1>4. CASE delete_hash_map
  BY <1>4, DeleteMapKeeps
<1> QED
  BY <1>1, <1>2, <1>3, <1>4 DEF Next

\* For any number of threads, locks and members and any word length, the
\* operations of utl_hash_map.c keep locks, slots, key length and fill
\* consistent, and each member that the list has in the chain of its slot; in
\* particular a rebuild never doubles the table beyond what the bits of a key
\* can address.
THEOREM HashMapInvariant == Spec => []IInv
<1>1. Init => IInv
  BY InitTable, InitChains DEF IInv
<1>2. IInv /\ [Next]_vars => IInv'
  BY NextTable, NextChains DEF IInv, ChainsInv
<1> QED
  BY <1>1, <1>2, PTL DEF Spec

\* A thread under a slot's lock holds it, and the slot is in the table there is,
\* also when get_map_slot() read key_len and key_mask on two sides of a rebuild.
THEOREM SlotAlwaysInTable == Spec => []SlotInTable
<1>0. IInv => TableInv
  BY DEF IInv
<1>1. TableInv => SlotInTable
  <2> SUFFICES ASSUME TableInv, NEW t \in Threads, UnderSlot(t)
               PROVE  op[t].slot \in DOMAIN map /\ lock[get_lock_idx(op[t].slot)] = t
    BY DEF SlotInTable, UnderSlot
  <2>1. op[t].slot \in DOMAIN map
    BY DEF TableInv, SlotInv, TypeOK
  <2>2. get_lock_idx(op[t].slot) \in LockIdx
    BY OpFields, LockOfSlot DEF TableInv
  <2>3. lock[get_lock_idx(op[t].slot)] = t
    BY <2>2 DEF TableInv, LockInv, Holds
  <2> QED
    BY <2>1, <2>3
<1> QED
  BY <1>0, <1>1, HashMapInvariant, PTL

\* The thread that has a lock somebody spins on.
LEMMA HolderOf ==
  ASSUME TableInv, NEW t \in Threads, Spinning(t)
  PROVE  \E i \in LockIdx : /\ lock[i] \in Threads /\ Holds(lock[i], i)
                            /\ pc[t] = "lockall" => i = op[t].i
<1>1. lock \in [LockIdx -> Threads \cup {NoThread}]
  BY DEF TableInv, TypeOK
<1>2. 0 \in LockIdx /\ get_lock_idx(op[t].slot) \in LockIdx
  BY OpFields, LockOfSlot, Locks DEF TableInv
<1>3. pc[t] = "lockall" /\ op[t].i < NLock => op[t].i \in LockIdx
  BY Locks DEF TableInv, LockInv, LockIdx
<1>4. \E i \in LockIdx : lock[i] # NoThread /\ (pc[t] = "lockall" => i = op[t].i)
  BY <1>2, <1>3 DEF Spinning
<1> QED
  BY <1>1, <1>4 DEF TableInv, LockInv

\* hash_map_rebuild(), which takes all the locks in order, and the operations,
\* which take one, never wait for each other in a circle: the thread that
\* somebody spins on goes on, or it is the one that rebuilds and the thread
\* that it spins on goes on.
THEOREM LocksNeverDeadlock == Spec => []NoDeadlock
<1>0. IInv => TableInv
  BY DEF IInv
<1>1. ASSUME TableInv, NEW t \in Threads, Spinning(t)
      PROVE  \E u \in Threads : pc[u] # "idle" /\ ~Spinning(u)
  <2>1. PICK i \in LockIdx : lock[i] \in Threads /\ Holds(lock[i], i)
    BY <1>1, HolderOf
  <2> DEFINE u == lock[i]
  <2>2. u \in Threads /\ Holds(u, i)
    BY <2>1
  <2> HIDE DEF u
  <2>3. CASE ~Spinning(u)
    BY <2>2, <2>3 DEF Holds, UnderSlot, UnderAll
  <2>4. CASE Spinning(u)
    <3>1. pc[u] = "lockall" /\ op[u].i \in 1..NLock
      BY <1>1, <2>2, <2>4 DEF Spinning, Holds, UnderSlot, UnderAll, TableInv, LockInv
    <3>2. PICK k \in LockIdx : lock[k] \in Threads /\ Holds(lock[k], k) /\ k = op[u].i
      BY <1>1, <2>2, <2>4, <3>1, HolderOf
    <3> DEFINE v == lock[k]
    <3>3. v \in Threads /\ Holds(v, k) /\ lock[k] = v
      BY <3>2
    <3> HIDE DEF v
    <3>4. lock[0] = u
      BY <1>1, <2>2, <3>1, Locks DEF TableInv, LockInv, Holds
    <3>5. v # u
      <4> SUFFICES ASSUME v = u PROVE FALSE
        OBVIOUS
      <4>1. k < op[u].i
        BY <3>1, <3>3 DEF Holds, UnderSlot, UnderAll
      <4> QED
        BY <3>1, <3>2, <4>1, Locks
    <3>6. pc[v] # "lockall"
      <4> SUFFICES ASSUME pc[v] = "lockall" PROVE FALSE
        OBVIOUS
      <4>1. op[v].i \in 1..NLock
        BY <1>1, <3>3 DEF TableInv, LockInv
      <4>2. Holds(v, 0)
        BY <4>1, Locks DEF Holds
      <4>3. lock[0] = v
        BY <1>1, <3>3, <4>2, Locks DEF TableInv, LockInv
      <4> QED
        BY <3>4, <3>5, <4>3
    <3>7. UnderSlot(v) \/ UnderAll(v)
      BY <3>3, <3>6 DEF Holds
    <3>8. pc[v] # "idle" /\ ~Spinning(v)
      BY <3>7 DEF UnderSlot, UnderAll, Spinning
    <3> QED
      BY <3>3, <3>8
  <2> QED
    BY <2>3, <2>4
<1>2. ASSUME TableInv, NEW i \in LockIdx, lock[i] # NoThread PROVE pc[lock[i]] # "idle"
  <2>1. lock[i] \in Threads /\ Holds(lock[i], i)
    BY <1>2 DEF TableInv, TypeOK, LockInv
  <2> QED
    BY <2>1 DEF Holds, UnderSlot, UnderAll
<1>3. TableInv => NoDeadlock
  BY <1>1, <1>2 DEF NoDeadlock
<1> QED
  BY <1>0, <1>3, HashMapInvariant, PTL

\* hash_map_find_member() that has computed its slot from a key_len and a
\* key_mask of the same rebuild finds every key that hmap->members leads to,
\* or will when list_add() is done, unless its adder had read the two on two
\* sides of a rebuild: no other interleaving of additions, lookups and
\* rebuilds makes a lookup miss.
THEOREM LookupsMissOnlyByRace == Spec => []LookupMissesOnlyByRace
<1>1. IInv => LookupMissesOnlyByRace
  <2> SUFFICES ASSUME IInv, NEW t \in Threads, NEW m \in Members,
                      pc[t] = "find", key[m] = op[t].key, m \notin torn,
                      ~Unlinked(m), op[t].mask = op[t].len
               PROVE  get_map_member(op[t].slot, op[t].key) # 0
    BY DEF LookupMissesOnlyByRace
  <2>0. TableInv /\ ChainsInv /\ FoundInv(t) /\ SlotInv(t) /\ CallInv(t)
    BY DEF IInv, TableInv, ChainsInv
  <2>1. m \in InUse
    BY <2>0, KeysAreWords DEF CallInv, InUse
  <2>2. m \in Listed
    BY DEF Unlinked, Linking, Listed, BeingLinked
  <2>3. \A u \in Threads : pc[u] # "rehash"
    BY <2>0, RebuilderAlone DEF UnderAll
  <2>4. Chained(m)
    BY <2>0, <2>1, <2>2, <2>3 DEF ChainsInv, ChainInv
  <2>5. op[t].len = key_len /\ op[t].slot = SlotOf(m)
    BY <2>0 DEF SlotInv, FoundInv, UnderSlot, SlotOf
  <2>6. map[op[t].slot] \in Seq(Members)
    BY <2>0 DEF SlotInv, UnderSlot, TableInv, TypeOK, ChainsInv, ChainType
  <2> QED
    BY <2>4, <2>5, <2>6, MemberHit DEF Chained
<1> QED
  BY <1>1, HashMapInvariant, PTL

\* What the event queue has found is still there when it reads member->val and
\* when hash_map_delete_member() looks for it again, whatever slot it has by
\* then; for the other clients, who never delete, what they found keeps its key.
THEOREM FoundMembersStay == Spec => []FoundMemberStays
<1>1. IInv => FoundMemberStays
  <2> SUFFICES ASSUME IInv, NEW t \in Threads
               PROVE  /\ pc[t] = "value" => key[op[t].member] = op[t].key
                      /\ pc[t] = "delete" => get_map_member(op[t].slot, op[t].key) # 0
    BY DEF FoundMemberStays
  <2>0. TableInv /\ ChainsInv /\ FoundInv(t) /\ SlotInv(t) /\ CallInv(t)
    BY DEF IInv, TableInv, ChainsInv
  <2>1. pc[t] = "value" => key[op[t].member] = op[t].key
    BY <2>0 DEF FoundInv
  <2>2. ASSUME pc[t] = "delete" PROVE get_map_member(op[t].slot, op[t].key) # 0
    <3> DEFINE m == op[t].member
    <3>1. op[t].call = "delete" /\ client = "serial" /\ op[t].key \in Keys
      BY <2>0, <2>2 DEF CallInv
    <3>2. m \in Members /\ key[m] = op[t].key
      BY <2>0, <3>1 DEF FoundInv
    <3> HIDE DEF m
    <3>3. m \in InUse
      BY <3>1, <3>2, KeysAreWords DEF InUse
    <3>4. m \in Listed /\ m \notin torn
      BY <2>0, <3>1, <3>3 DEF ChainsInv, SerialInv, Listed
    <3>5. \A u \in Threads : pc[u] # "rehash"
      BY <2>0, <2>2, RebuilderAlone DEF UnderAll
    <3>6. Chained(m)
      BY <2>0, <3>3, <3>4, <3>5 DEF ChainsInv, ChainInv
    <3>7. op[t].len = key_len /\ op[t].mask = key_len
      BY <2>0, <2>2, <3>1 DEF ChainsInv, SerialInv, OwnTable, UnderSlot
    <3>8. op[t].slot = SlotOf(m)
      BY <2>0, <2>2, <3>2, <3>7 DEF FoundInv, UnderSlot, SlotOf
    <3>9. map[op[t].slot] \in Seq(Members)
      BY <2>0, <2>2 DEF SlotInv, UnderSlot, TableInv, TypeOK, ChainsInv, ChainType
    <3> QED
      BY <3>2, <3>6, <3>8, <3>9, MemberHit DEF Chained
  <2> QED
    BY <2>1, <2>2
<1> QED
  BY <1>1, HashMapInvariant, PTL
=============================================================================
