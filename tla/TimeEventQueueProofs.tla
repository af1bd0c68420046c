------------------------ MODULE TimeEventQueueProofs ------------------------
(***************************************************************************)
(* Proofs about TimeEventQueue, for any threads, owners, delays and bounds *)
(* and for any of the calls the queue offers: IInv is inductive, and the   *)
(* invariants model-checked on small instances follow from it.             *)
(***************************************************************************)
EXTENDS TimeEventQueue, SequenceTheorems, TLAPS

(* What the two list operations of the queue do, element by element.       *)

\* r is the sequence s over S with e inserted at position k.
Inserted(r, S, s, k, e) ==
    /\ r \in Seq(S) /\ Len(r) = Len(s) + 1
    /\ \A i \in 1..(Len(s) + 1) :
          r[i] = IF i < k THEN s[i] ELSE IF i = k THEN e ELSE s[i - 1]

\* InsertAt, list_add() before the event at position k.
LEMMA InsertAtProperties ==
  ASSUME NEW S, NEW s \in Seq(S), NEW k \in 1..(Len(s) + 1), NEW e \in S
  PROVE  Inserted(InsertAt(s, k, e), S, s, k, e)
<1> USE DEF Inserted
<1> DEFINE a == SubSeq(s, 1, k - 1)
           b == SubSeq(s, k, Len(s))
<1>0. Len(s) \in Nat /\ \A i \in 1..Len(s) : s[i] \in S
  BY LenProperties, ElementOfSeq
<1>1. /\ a \in Seq(S) /\ Len(a) = k - 1
      /\ \A i \in 1..(k - 1) : a[i] = s[i]
  <2>1. \A i \in 1..(k - 1) : s[i] \in S
    BY <1>0
  <2>2. k - 1 \in Int
    BY <1>0
  <2> QED
    BY <2>1, <2>2, <1>0, SubSeqProperties
<1>2. /\ b \in Seq(S) /\ Len(b) = Len(s) - k + 1
      /\ \A i \in 1..(Len(s) - k + 1) : b[i] = s[k + i - 1]
  <2>1. \A i \in k..Len(s) : s[i] \in S
    BY <1>0
  <2> QED
    BY <2>1, <1>0, SubSeqProperties
<1>3. /\ <<e>> \in Seq(S) /\ Len(<<e>>) = 1 /\ <<e>>[1] = e
  OBVIOUS
<1> HIDE DEF a, b
<1> DEFINE c == a \o <<e>>
<1> HIDE DEF c
<1>4. /\ c \in Seq(S) /\ Len(c) = k
      /\ \A i \in 1..k : c[i] = IF i < k THEN a[i] ELSE e
  <2>1. /\ c \in Seq(S) /\ Len(c) = Len(a) + Len(<<e>>)
        /\ \A i \in 1..(Len(a) + Len(<<e>>)) :
             c[i] = IF i <= Len(a) THEN a[i] ELSE <<e>>[i - Len(a)]
    BY <1>1, <1>3, ConcatProperties DEF c
  <2>2. ASSUME NEW i \in 1..k PROVE c[i] = IF i < k THEN a[i] ELSE e
    <3>1. CASE i < k
      BY <2>1, <3>1, <1>0, <1>1, <1>3
    <3>2. CASE i = k
      BY <2>1, <3>2, <1>0, <1>1, <1>3
    <3> QED
      BY <3>1, <3>2, <1>0
  <2> QED
    BY <2>1, <2>2, <1>1, <1>3, <1>0
<1>5. /\ c \o b \in Seq(S) /\ Len(c \o b) = Len(s) + 1
      /\ \A i \in 1..(Len(s) + 1) :
            (c \o b)[i] = IF i <= k THEN c[i] ELSE b[i - k]
  <2>1. /\ c \o b \in Seq(S) /\ Len(c \o b) = Len(c) + Len(b)
        /\ \A i \in 1..(Len(c) + Len(b)) :
             (c \o b)[i] = IF i <= Len(c) THEN c[i] ELSE b[i - Len(c)]
    BY <1>2, <1>4, ConcatProperties
  <2> QED
    BY <2>1, <1>0, <1>2, <1>4
<1>6. InsertAt(s, k, e) = c \o b
  BY DEF InsertAt, a, b, c
<1>7. ASSUME NEW i \in 1..(Len(s) + 1)
      PROVE  (c \o b)[i] = IF i < k THEN s[i] ELSE IF i = k THEN e ELSE s[i - 1]
  <2>1. CASE i < k
    <3>1. i \in 1..k /\ i \in 1..(k - 1)
      BY <2>1, <1>0
    <3>2. (c \o b)[i] = c[i]
      BY <3>1, <2>1, <1>0, <1>5
    <3>3. c[i] = a[i]
      BY <3>1, <2>1, <1>4
    <3>4. a[i] = s[i]
      BY <3>1, <1>1
    <3> QED
      BY <3>2, <3>3, <3>4, <2>1
  <2>2. CASE i = k
    BY <2>2, <1>0, <1>4, <1>5
  <2>3. CASE i > k
    <3>1. (c \o b)[i] = b[i - k]
      BY <2>3, <1>0, <1>5
    <3>2. b[i - k] = s[k + (i - k) - 1]
      BY <2>3, <1>0, <1>2
    <3> QED
      BY <3>1, <3>2, <2>3, <1>0
  <2>4. i < k \/ i = k \/ i > k
    BY <1>0
  <2> QED
    BY <2>1, <2>2, <2>3, <2>4
<1> QED
  BY <1>5, <1>6, <1>7

\* RemoveAt, list_del() of the event at position k.
LEMMA RemoveAtProperties ==
  ASSUME NEW S, NEW s \in Seq(S), NEW k \in 1..Len(s)
  PROVE  /\ RemoveAt(s, k) \in Seq(S)
         /\ Len(RemoveAt(s, k)) = Len(s) - 1
         /\ \A i \in 1..(Len(s) - 1) :
               RemoveAt(s, k)[i] = IF i < k THEN s[i] ELSE s[i + 1]
<1> DEFINE a == SubSeq(s, 1, k - 1)
           b == SubSeq(s, k + 1, Len(s))
<1>0. Len(s) \in Nat /\ \A i \in 1..Len(s) : s[i] \in S
  BY LenProperties, ElementOfSeq
<1>1. /\ a \in Seq(S) /\ Len(a) = k - 1
      /\ \A i \in 1..(k - 1) : a[i] = s[i]
  <2>1. \A i \in 1..(k - 1) : s[i] \in S
    BY <1>0
  <2>2. k - 1 \in Int
    BY <1>0
  <2> QED
    BY <2>1, <2>2, <1>0, SubSeqProperties
<1>2. /\ b \in Seq(S) /\ Len(b) = Len(s) - k
      /\ \A i \in 1..(Len(s) - k) : b[i] = s[k + i]
  <2>1. \A i \in (k + 1)..Len(s) : s[i] \in S
    BY <1>0
  <2>2. k + 1 \in Int
    BY <1>0
  <2> QED
    BY <2>1, <2>2, <1>0, SubSeqProperties
<1>3. RemoveAt(s, k) = a \o b
  BY DEF RemoveAt
<1> HIDE DEF a, b
<1>4. /\ a \o b \in Seq(S) /\ Len(a \o b) = Len(a) + Len(b)
      /\ \A i \in 1..(Len(a) + Len(b)) :
            (a \o b)[i] = IF i <= Len(a) THEN a[i] ELSE b[i - Len(a)]
  BY <1>1, <1>2, ConcatProperties
<1>5. ASSUME NEW i \in 1..(Len(s) - 1)
      PROVE  (a \o b)[i] = IF i < k THEN s[i] ELSE s[i + 1]
  <2>1. CASE i < k
    BY <2>1, <1>0, <1>1, <1>2, <1>4
  <2>2. CASE i >= k
    <3>1. (a \o b)[i] = b[i - (k - 1)]
      BY <2>2, <1>0, <1>1, <1>2, <1>4
    <3>2. b[i - (k - 1)] = s[k + (i - (k - 1))]
      BY <2>2, <1>0, <1>2
    <3> QED
      BY <3>1, <3>2, <2>2, <1>0
  <2>3. i < k \/ i >= k
    BY <1>0
  <2> QED
    BY <2>1, <2>2, <2>3
<1> QED
  BY <1>0, <1>1, <1>2, <1>3, <1>4, <1>5

-----------------------------------------------------------------------------
(* The list stays sorted and in step with the map.                         *)

ListOK == events \in Seq(Event) /\ MapMatchesQueue /\ Sorted

\* do_add_time_event() puts the event of a new owner where it belongs.
LEMMA InsertKeepsList ==
  ASSUME ListOK, NEW p \in Privates, p \notin map, NEW time \in Nat,
         NEW k \in 1..(Len(events) + 1), InsertPosition(time, k),
         events' = InsertAt(events, k, [private |-> p, trigger |-> time]),
         map' = map \cup {p}
  PROVE  ListOK' /\ events' # <<>>
<1> DEFINE e == [private |-> p, trigger |-> time]
           n == Len(events)
<1>1. e \in Event /\ n \in Nat /\ DOMAIN events = 1..n
  BY DEF Event, ListOK
<1>2. /\ events' \in Seq(Event)
      /\ Len(events') = n + 1
      /\ \A i \in 1..(n + 1) : events'[i] = IF i < k THEN events[i]
                                ELSE IF i = k THEN e ELSE events[i - 1]
  <2>1. events \in Seq(Event) /\ events' = InsertAt(events, k, e)
    BY DEF ListOK
  <2>2. e \in Event
    BY <1>1
  <2> HIDE DEF e, n
  <2>3. Inserted(events', Event, events, k, e)
    BY <2>1, <2>2, InsertAtProperties
  <2> QED
    BY <2>3 DEF n, Inserted
<1>3. DOMAIN events' = 1..(n + 1)
  BY <1>1, <1>2
<1>4. \A i \in 1..n : events[i] \in Event /\ events[i].private \in map
                      /\ events[i].trigger \in Nat
  <2>1. \A i \in 1..n : events[i] \in Event
    BY <1>1, ElementOfSeq DEF ListOK
  <2>2. \A i \in 1..n : events[i].private \in map
    BY <1>1 DEF ListOK, MapMatchesQueue
  <2>3. \A x \in Event : x.trigger \in Nat
    BY DEF Event
  <2> QED
    BY <2>1, <2>2, <2>3
<1>5. Sorted'
  <2> SUFFICES ASSUME NEW i \in 1..(n + 1), NEW j \in 1..(n + 1), i <= j
               PROVE  events'[i].trigger <= events'[j].trigger
    BY <1>3 DEF Sorted
  <2>1. \A x, y \in 1..n : x <= y => events[x].trigger <= events[y].trigger
    BY <1>1 DEF ListOK, Sorted
  <2>2. \A x \in 1..n : x < k => events[x].trigger <= time
    BY <1>1 DEF InsertPosition
  <2>3. \A x \in 1..n : k <= x => time <= events[x].trigger
    BY <1>1, <1>4, <2>1 DEF InsertPosition
  <2>4. e.trigger = time
    OBVIOUS
  <2> HIDE DEF e
  <2>5. CASE i < k /\ j < k
    BY <2>5, <1>1, <1>2, <2>1
  <2>6. CASE i < k /\ j = k
    BY <2>6, <1>1, <1>2, <2>2, <2>4
  <2>7. CASE i < k /\ j > k
    <3>1. events'[i] = events[i] /\ events'[j] = events[j - 1]
      BY <2>7, <1>1, <1>2
    <3>2. i \in 1..n /\ j - 1 \in 1..n /\ i <= j - 1
      BY <2>7, <1>1
    <3> QED
      BY <3>1, <3>2, <2>1
  <2>8. CASE i = k /\ j = k
    BY <2>8, <1>1, <1>2, <2>4
  <2>9. CASE i = k /\ j > k
    <3>1. events'[i] = e /\ events'[j] = events[j - 1]
      BY <2>9, <1>1, <1>2
    <3>2. j - 1 \in 1..n /\ k <= j - 1
      BY <2>9, <1>1
    <3> QED
      BY <3>1, <3>2, <2>3, <2>4
  <2>10. CASE i > k /\ j > k
    <3>1. events'[i] = events[i - 1] /\ events'[j] = events[j - 1]
      BY <2>10, <1>1, <1>2
    <3>2. i - 1 \in 1..n /\ j - 1 \in 1..n /\ i - 1 <= j - 1
      BY <2>10, <1>1
    <3> QED
      BY <3>1, <3>2, <2>1
  <2> QED
    BY <1>1, <2>5, <2>6, <2>7, <2>8, <2>9, <2>10
<1>6. \A i \in 1..(n + 1) : \/ i < k /\ i \in 1..n /\ events'[i] = events[i]
                            \/ i = k /\ events'[i] = e
                            \/ i > k /\ i - 1 \in 1..n /\ events'[i] = events[i - 1]
  BY <1>1, <1>2
<1>7. e.private = p
  OBVIOUS
<1> HIDE DEF e
<1>8. map' = {events'[i].private : i \in DOMAIN events'}
  <2>1. ASSUME NEW q \in map'
        PROVE  \E i \in 1..(n + 1) : events'[i].private = q
    <3>1. CASE q = p
      BY <3>1, <1>1, <1>2, <1>7
    <3>2. CASE q \in map
      <4>1. PICK i \in 1..n : events[i].private = q
        BY <3>2, <1>1 DEF ListOK, MapMatchesQueue
      <4>2. CASE i < k
        BY <4>1, <4>2, <1>1, <1>2
      <4>3. CASE i >= k
        <5>1. i + 1 \in 1..(n + 1) /\ events'[i + 1] = events[i]
          BY <4>3, <1>1, <1>2
        <5> QED
          BY <5>1, <4>1
      <4> QED
        BY <4>2, <4>3, <1>1
    <3> QED
      BY <3>1, <3>2
  <2>2. \A i \in 1..(n + 1) : events'[i].private \in map'
    BY <1>4, <1>6, <1>7
  <2> QED
    BY <2>1, <2>2, <1>3
<1>9. ASSUME NEW i \in 1..(n + 1), NEW j \in 1..(n + 1),
             events'[i].private = events'[j].private
      PROVE  i = j
  <2>1. \A x, y \in 1..n : events[x].private = events[y].private => x = y
    BY <1>1 DEF ListOK, MapMatchesQueue
  <2>2. \A x \in 1..n : events[x].private # p
    BY <1>4
  <2>3. CASE i = k
    BY <2>3, <2>2, <1>1, <1>6, <1>7, <1>9
  <2>4. CASE j = k
    BY <2>4, <2>2, <1>1, <1>6, <1>7, <1>9
  <2>5. CASE i # k /\ j # k
    <3>1. PICK x \in 1..n : /\ events'[i] = events[x]
                            /\ (i < k /\ x = i) \/ (i > k /\ x = i - 1)
      BY <2>5, <1>6
    <3>2. PICK y \in 1..n : /\ events'[j] = events[y]
                            /\ (j < k /\ y = j) \/ (j > k /\ y = j - 1)
      BY <2>5, <1>6
    <3>3. x = y
      BY <3>1, <3>2, <2>1, <1>9
    <3> QED
      BY <3>1, <3>2, <3>3, <1>1
  <2> QED
    BY <2>3, <2>4, <2>5
<1>10. MapMatchesQueue'
  BY <1>3, <1>8, <1>9 DEF MapMatchesQueue
<1>11. events' # <<>>
  BY <1>1, <1>2
<1> QED
  BY <1>2, <1>5, <1>10, <1>11 DEF ListOK

\* Taking out one event, the head or the one an owner withdraws.
LEMMA DropKeepsList ==
  ASSUME ListOK, NEW k \in 1..Len(events),
         events' \in Seq(Event), Len(events') = Len(events) - 1,
         \A i \in 1..(Len(events) - 1) :
            events'[i] = IF i < k THEN events[i] ELSE events[i + 1],
         map' = map \ {events[k].private}
  PROVE  ListOK'
<1> DEFINE n == Len(events)
<1>1. n \in Nat /\ DOMAIN events = 1..n /\ DOMAIN events' = 1..(n - 1)
  BY DEF ListOK
<1>2. \A i \in 1..(n - 1) :
         \/ i < k /\ i \in 1..n /\ events'[i] = events[i]
         \/ i >= k /\ i + 1 \in 1..n /\ events'[i] = events[i + 1]
  BY <1>1
<1>3. /\ \A x, y \in 1..n : x <= y => events[x].trigger <= events[y].trigger
      /\ \A x, y \in 1..n : events[x].private = events[y].private => x = y
  BY <1>1 DEF ListOK, Sorted, MapMatchesQueue
<1> HIDE DEF n
<1>4. ASSUME NEW i \in 1..(n - 1), NEW j \in 1..(n - 1)
      PROVE  /\ i <= j => events'[i].trigger <= events'[j].trigger
             /\ events'[i].private = events'[j].private => i = j
  <2>1. PICK x \in 1..n : /\ events'[i] = events[x]
                          /\ (i < k /\ x = i) \/ (i >= k /\ x = i + 1)
    BY <1>2
  <2>2. PICK y \in 1..n : /\ events'[j] = events[y]
                          /\ (j < k /\ y = j) \/ (j >= k /\ y = j + 1)
    BY <1>2
  <2>3. (i <= j => x <= y) /\ (x = y => i = j)
    BY <2>1, <2>2, <1>1
  <2> QED
    BY <2>1, <2>2, <2>3, <1>3
<1>5. map' = {events'[i].private : i \in 1..(n - 1)}
  <2>1. ASSUME NEW q \in map'
        PROVE  \E i \in 1..(n - 1) : events'[i].private = q
    <3>1. PICK x \in 1..n : events[x].private = q
      BY <1>1 DEF ListOK, MapMatchesQueue
    <3>2. x # k
      BY <3>1
    <3>3. CASE x < k
      <4>1. x \in 1..(n - 1) /\ events'[x] = events[x]
        BY <3>3, <1>1, <1>2 DEF n
      <4> QED
        BY <4>1, <3>1
    <3>4. CASE x > k
      <4>1. x - 1 \in 1..(n - 1) /\ ~(x - 1 < k)
        BY <3>4, <1>1
      <4>2. events'[x - 1] = events[(x - 1) + 1] /\ (x - 1) + 1 = x
        BY <4>1, <1>1 DEF n
      <4> QED
        BY <4>1, <4>2, <3>1
    <3> QED
      BY <3>2, <3>3, <3>4, <1>1
  <2>2. ASSUME NEW i \in 1..(n - 1)
        PROVE  events'[i].private \in map'
    <3>1. PICK x \in 1..n : /\ events'[i] = events[x]
                            /\ (i < k /\ x = i) \/ (i >= k /\ x = i + 1)
      BY <1>2
    <3>2. x # k /\ k \in 1..n
      BY <3>1, <1>1 DEF n
    <3>3. events[x].private \in map
      BY <1>1 DEF ListOK, MapMatchesQueue
    <3> QED
      BY <3>1, <3>2, <3>3, <1>3
  <2> QED
    BY <2>1, <2>2
<1>6. Sorted'
  BY <1>1, <1>4 DEF Sorted
<1>7. MapMatchesQueue'
  BY <1>1, <1>4, <1>5 DEF MapMatchesQueue
<1> QED
  BY <1>6, <1>7 DEF ListOK

-----------------------------------------------------------------------------
(* The inductive invariant.                                                *)

\* The queue starts empty, unlocked and disarmed.
LEMMA InitIInv == Init => IInv
<1> SUFFICES ASSUME Init PROVE IInv
  OBVIOUS
<1>1. TypeOK
  <2>1. events \in Seq(Event) /\ map \in SUBSET Privates
    BY DEF Init
  <2>2. sig \in BOOLEAN /\ dropped \in BOOLEAN
    BY DEF Init
  <2>3. clock \in Nat /\ timer \in Nat \cup {Off} /\ tv \in Int
    BY DEF Init
  <2>4. /\ state \in States /\ old \in States /\ todo \in {"add", "alarm"}
        /\ holder \in Threads \cup {NoThread} /\ ret \in {"unlock", "user"}
        /\ pc \in {"idle", "user", "trigger", "resume"}
    BY DEF Init, States
  <2> QED
    BY <2>1, <2>2, <2>3, <2>4 DEF TypeOK
<1>2. MapMatchesQueue /\ Sorted
  BY DEF Init, MapMatchesQueue, Sorted
<1>3. TimerForHead /\ WakeupOrDropped /\ HolderInside
  BY QueueAssumption DEF Init, TimerForHead, WakeupOrDropped, HolderInside
<1>4. StateMatchesTimer /\ PendedInside /\ PendedThroughout
  BY DEF Init, StateMatchesTimer, PendedInside, PendedThroughout
<1> QED
  BY <1>1, <1>2, <1>3, <1>4 DEF IInv

\* do_remove_time_event() takes the owner's event out of list and map.
LEMMA RemoveKeepsList ==
  ASSUME IInv, NEW t, NEW p \in Privates, NEW to, RemoveBody(t, p, to)
  PROVE  ListOK'
<1>0. ListOK
  BY DEF IInv, TypeOK, ListOK
<1>1. CASE p \notin map
  <2>1. UNCHANGED <<events, map>>
    BY <1>1 DEF RemoveBody
  <2> QED
    BY <1>0, <2>1 DEF ListOK, MapMatchesQueue, Sorted
<1>2. CASE p \in map
  <2>1. map' = map \ {p}
    BY <1>2 DEF RemoveBody
  <2>2. PICK k \in DOMAIN events :
           events[k].private = p /\ events' = RemoveAt(events, k)
    BY <1>2 DEF RemoveBody
  <2>3. k \in 1..Len(events) /\ events \in Seq(Event)
    BY <1>0, <2>2 DEF ListOK
  <2>4. /\ events' \in Seq(Event)
        /\ Len(events') = Len(events) - 1
        /\ \A i \in 1..(Len(events) - 1) :
              events'[i] = IF i < k THEN events[i] ELSE events[i + 1]
    BY <2>2, <2>3, RemoveAtProperties
  <2> QED
    BY <1>0, <2>1, <2>2, <2>3, <2>4, DropKeepsList
<1> QED
  BY <1>1, <1>2

\* Every step of the queue preserves IInv.
LEMMA NextIInv == IInv /\ [Next]_vars => IInv'
<1> SUFFICES ASSUME IInv, [Next]_vars PROVE IInv'
  OBVIOUS
<1> USE QueueAssumption
<1>0. /\ ListOK /\ TypeOK /\ TimerForHead /\ WakeupOrDropped /\ HolderInside
      /\ StateMatchesTimer /\ PendedInside /\ PendedThroughout
  BY DEF IInv, TypeOK, ListOK
<1>1. ASSUME NEW t \in Threads, NEW p \in Privates, NEW d \in Delays,
             add_time_event(t, p, d)
      PROVE  IInv'
  <2>1. ListOK' /\ events' # <<>>
    <3>1. p \notin map /\ clock + d \in Nat /\ map' = map \cup {p}
      BY <1>1, <1>0 DEF add_time_event, AddBody, do_pend_event_queue, Disarm, Acquire, TypeOK
    <3>2. PICK k \in 1..(Len(events) + 1) :
             /\ InsertPosition(clock + d, k)
             /\ events' = InsertAt(events, k,
                                   [private |-> p, trigger |-> clock + d])
      BY <1>1 DEF add_time_event, AddBody, do_pend_event_queue, Disarm, Acquire
    <3> QED
      BY <3>1, <3>2, <1>0, InsertKeepsList
  <2>2. TypeOK'
    <3>1. events' \in Seq(Event) /\ map' \in SUBSET Privates
      BY <1>1, <1>0, <2>1 DEF add_time_event, AddBody, do_pend_event_queue, Disarm, Acquire, TypeOK, ListOK, locals
    <3>2. sig' \in BOOLEAN /\ dropped' \in BOOLEAN
      BY <1>1, <1>0 DEF add_time_event, AddBody, do_pend_event_queue, Disarm, Acquire, TypeOK, locals
    <3>3. clock' \in Nat /\ timer' \in Nat \cup {Off} /\ tv' \in Int
      BY <1>1, <1>0 DEF add_time_event, AddBody, do_pend_event_queue, Disarm, Acquire, TypeOK, locals
    <3>4. /\ state' \in States /\ old' \in States /\ todo' \in {"add", "alarm"}
          /\ holder' \in Threads \cup {NoThread} /\ ret' \in {"unlock", "user"}
          /\ pc' \in {"idle", "user", "trigger", "resume"}
      BY <1>1, <1>0 DEF add_time_event, AddBody, do_pend_event_queue, Disarm, Acquire, TypeOK, locals, States
    <3> QED
      BY <3>1, <3>2, <3>3, <3>4 DEF TypeOK
  <2>3. TimerForHead' /\ StateMatchesTimer'
    BY <1>1, <1>0, <2>1 DEF add_time_event, AddBody, do_pend_event_queue, Disarm, Acquire, locals,
       TypeOK, TimerForHead, WakeupOrDropped, HolderInside, StateMatchesTimer
  <2>4. HolderInside' /\ WakeupOrDropped'
    BY <1>1, <1>0, <2>1 DEF add_time_event, AddBody, do_pend_event_queue, Disarm, Acquire, locals,
       TypeOK, TimerForHead, WakeupOrDropped, HolderInside, StateMatchesTimer,
       PendedInside
  <2>5. PendedInside' /\ PendedThroughout'
    BY <1>1, <1>0 DEF add_time_event, AddBody, do_pend_event_queue, Disarm, Acquire, locals,
       TypeOK, HolderInside, PendedInside, PendedThroughout
  <2> QED
    BY <2>1, <2>2, <2>3, <2>4, <2>5 DEF IInv, ListOK
<1>2. ASSUME NEW t \in Threads, NEW p \in Privates, NEW d \in Delays,
             add_time_event_when_pending(t, p, d)
      PROVE  IInv'
  <2>1. ListOK' /\ events' # <<>>
    <3>1. p \notin map /\ clock + d \in Nat /\ map' = map \cup {p}
      BY <1>2, <1>0 DEF add_time_event_when_pending, AddBody, do_pend_event_queue, Disarm, TypeOK
    <3>2. PICK k \in 1..(Len(events) + 1) :
             /\ InsertPosition(clock + d, k)
             /\ events' = InsertAt(events, k,
                                   [private |-> p, trigger |-> clock + d])
      BY <1>2 DEF add_time_event_when_pending, AddBody, do_pend_event_queue, Disarm
    <3> QED
      BY <3>1, <3>2, <1>0, InsertKeepsList
  <2>2. TypeOK'
    <3>1. events' \in Seq(Event) /\ map' \in SUBSET Privates
      BY <1>2, <1>0, <2>1 DEF add_time_event_when_pending, AddBody, do_pend_event_queue, Disarm, TypeOK, ListOK, locals
    <3>2. sig' \in BOOLEAN /\ dropped' \in BOOLEAN
      BY <1>2, <1>0 DEF add_time_event_when_pending, AddBody, do_pend_event_queue, Disarm, TypeOK, locals
    <3>3. clock' \in Nat /\ timer' \in Nat \cup {Off} /\ tv' \in Int
      BY <1>2, <1>0 DEF add_time_event_when_pending, AddBody, do_pend_event_queue, Disarm, TypeOK, locals
    <3>4. /\ state' \in States /\ old' \in States /\ todo' \in {"add", "alarm"}
          /\ holder' \in Threads \cup {NoThread} /\ ret' \in {"unlock", "user"}
          /\ pc' \in {"idle", "user", "trigger", "resume"}
      BY <1>2, <1>0 DEF add_time_event_when_pending, AddBody, do_pend_event_queue, Disarm, TypeOK, locals, States
    <3> QED
      BY <3>1, <3>2, <3>3, <3>4 DEF TypeOK
  <2>3. TimerForHead' /\ StateMatchesTimer'
    BY <1>2, <1>0, <2>1 DEF add_time_event_when_pending, AddBody, do_pend_event_queue, Disarm, locals,
       TypeOK, TimerForHead, WakeupOrDropped, HolderInside, StateMatchesTimer
  <2>4. HolderInside' /\ WakeupOrDropped'
    BY <1>2, <1>0, <2>1 DEF add_time_event_when_pending, AddBody, do_pend_event_queue, Disarm, locals,
       TypeOK, TimerForHead, WakeupOrDropped, HolderInside, StateMatchesTimer,
       PendedInside
  <2>5. PendedInside' /\ PendedThroughout'
    BY <1>2, <1>0 DEF add_time_event_when_pending, AddBody, do_pend_event_queue, Disarm, locals,
       TypeOK, HolderInside, PendedInside, PendedThroughout
  <2> QED
    BY <2>1, <2>2, <2>3, <2>4, <2>5 DEF IInv, ListOK
<1>3. ASSUME NEW t \in Threads, NEW p \in Privates,
             remove_time_event_when_pending(t, p)
      PROVE  IInv'
  <2>1. ListOK'
    BY <1>3, RemoveKeepsList DEF remove_time_event_when_pending
  <2>2. TypeOK'
    <3>1. events' \in Seq(Event) /\ map' \in SUBSET Privates
      BY <1>3, <1>0, <2>1 DEF remove_time_event_when_pending, RemoveBody, Disarm, Return, TypeOK, ListOK, locals
    <3>2. sig' \in BOOLEAN /\ dropped' \in BOOLEAN
      BY <1>3, <1>0 DEF remove_time_event_when_pending, RemoveBody, Disarm, Return, TypeOK, locals
    <3>3. clock' \in Nat /\ timer' \in Nat \cup {Off} /\ tv' \in Int
      BY <1>3, <1>0 DEF remove_time_event_when_pending, RemoveBody, Disarm, Return, TypeOK, locals
    <3>4. /\ state' \in States /\ old' \in States /\ todo' \in {"add", "alarm"}
          /\ holder' \in Threads \cup {NoThread} /\ ret' \in {"unlock", "user"}
          /\ pc' \in {"idle", "user", "trigger", "resume"}
      BY <1>3, <1>0 DEF remove_time_event_when_pending, RemoveBody, Disarm, Return, TypeOK, locals, States
    <3> QED
      BY <3>1, <3>2, <3>3, <3>4 DEF TypeOK
  <2>3. TimerForHead' /\ StateMatchesTimer'
    BY <1>3, <1>0, <2>1 DEF remove_time_event_when_pending, RemoveBody, Disarm, Return, locals,
       TypeOK, TimerForHead, WakeupOrDropped, HolderInside, StateMatchesTimer
  <2>4. HolderInside' /\ WakeupOrDropped'
    BY <1>3, <1>0, <2>1 DEF remove_time_event_when_pending, RemoveBody, Disarm, Return, locals,
       TypeOK, TimerForHead, WakeupOrDropped, HolderInside, StateMatchesTimer,
       PendedInside
  <2>5. PendedInside' /\ PendedThroughout'
    BY <1>3, <1>0 DEF remove_time_event_when_pending, RemoveBody, Disarm, Return, locals,
       TypeOK, HolderInside, PendedInside, PendedThroughout
  <2> QED
    BY <2>1, <2>2, <2>3, <2>4, <2>5 DEF IInv, ListOK
<1>4. ASSUME NEW t \in Threads, NEW p \in Privates,
             remove_time_event(t, p)
      PROVE  IInv'
  <2>1. ListOK'
    BY <1>4, RemoveKeepsList DEF remove_time_event
  <2>2. TypeOK'
    <3>1. events' \in Seq(Event) /\ map' \in SUBSET Privates
      BY <1>4, <1>0, <2>1 DEF remove_time_event, RemoveBody, Disarm, Return, TypeOK, ListOK, locals
    <3>2. sig' \in BOOLEAN /\ dropped' \in BOOLEAN
      BY <1>4, <1>0 DEF remove_time_event, RemoveBody, Disarm, Return, TypeOK, locals
    <3>3. clock' \in Nat /\ timer' \in Nat \cup {Off} /\ tv' \in Int
      BY <1>4, <1>0 DEF remove_time_event, RemoveBody, Disarm, Return, TypeOK, locals
    <3>4. /\ state' \in States /\ old' \in States /\ todo' \in {"add", "alarm"}
          /\ holder' \in Threads \cup {NoThread} /\ ret' \in {"unlock", "user"}
          /\ pc' \in {"idle", "user", "trigger", "resume"}
      BY <1>4, <1>0 DEF remove_time_event, RemoveBody, Disarm, Return, TypeOK, locals, States
    <3> QED
      BY <3>1, <3>2, <3>3, <3>4 DEF TypeOK
  <2>3. TimerForHead' /\ StateMatchesTimer'
    BY <1>4, <1>0, <2>1 DEF remove_time_event, RemoveBody, Disarm, Return, locals,
       TypeOK, TimerForHead, WakeupOrDropped, HolderInside, StateMatchesTimer
  <2>4. HolderInside' /\ WakeupOrDropped'
    BY <1>4, <1>0, <2>1 DEF remove_time_event, RemoveBody, Disarm, Return, locals,
       TypeOK, TimerForHead, WakeupOrDropped, HolderInside, StateMatchesTimer,
       PendedInside
  <2>5. PendedInside' /\ PendedThroughout'
    BY <1>4, <1>0 DEF remove_time_event, RemoveBody, Disarm, Return, locals,
       TypeOK, HolderInside, PendedInside, PendedThroughout
  <2> QED
    BY <2>1, <2>2, <2>3, <2>4, <2>5 DEF IInv, ListOK
<1>5. ASSUME NEW t \in Threads, pend_time_event_queue(t)
      PROVE  IInv'
  <2>1. ListOK'
    BY <1>5, <1>0 DEF pend_time_event_queue, do_pend_event_queue, Disarm, Acquire, ListOK, MapMatchesQueue, Sorted
  <2>2. TypeOK'
    BY <1>5, <1>0, <2>1 DEF pend_time_event_queue, do_pend_event_queue, Disarm, Acquire, TypeOK, ListOK, locals, States
  <2>3. TimerForHead' /\ StateMatchesTimer'
    BY <1>5, <1>0, <2>1 DEF pend_time_event_queue, do_pend_event_queue, Disarm, Acquire, locals,
       TypeOK, TimerForHead, WakeupOrDropped, HolderInside, StateMatchesTimer
  <2>4. HolderInside' /\ WakeupOrDropped'
    BY <1>5, <1>0, <2>1 DEF pend_time_event_queue, do_pend_event_queue, Disarm, Acquire, locals,
       TypeOK, TimerForHead, WakeupOrDropped, HolderInside, StateMatchesTimer,
       PendedInside
  <2>5. PendedInside' /\ PendedThroughout'
    BY <1>5, <1>0 DEF pend_time_event_queue, do_pend_event_queue, Disarm, Acquire, locals,
       TypeOK, HolderInside, PendedInside, PendedThroughout
  <2> QED
    BY <2>1, <2>2, <2>3, <2>4, <2>5 DEF IInv, ListOK
<1>6. ASSUME NEW t \in Threads, resume_time_event_queue(t)
      PROVE  IInv'
  <2>1. ListOK'
    BY <1>6, <1>0 DEF resume_time_event_queue, Return, ListOK, MapMatchesQueue, Sorted
  <2>2. TypeOK'
    BY <1>6, <1>0, <2>1 DEF resume_time_event_queue, Return, TypeOK, ListOK, locals, States
  <2>3. TimerForHead' /\ StateMatchesTimer'
    <3>1. state # "ACTIVE" => timer = Off
      BY <1>0 DEF TypeOK, States, TimerForHead, StateMatchesTimer
    <3> QED
      BY <1>6, <1>0, <3>1 DEF resume_time_event_queue, Return, locals,
         TypeOK, TimerForHead, HolderInside, StateMatchesTimer
  <2>4. HolderInside' /\ WakeupOrDropped'
    BY <1>6, <1>0, <2>1 DEF resume_time_event_queue, Return, locals,
       TypeOK, TimerForHead, WakeupOrDropped, HolderInside, StateMatchesTimer,
       PendedInside
  <2>5. PendedInside' /\ PendedThroughout'
    BY <1>6, <1>0 DEF resume_time_event_queue, Return, locals,
       TypeOK, HolderInside, PendedInside, PendedThroughout
  <2> QED
    BY <2>1, <2>2, <2>3, <2>4, <2>5 DEF IInv, ListOK
<1>7. ASSUME NEW t \in Threads, trigger_time_event(t)
      PROVE  IInv'
  <2>1. ListOK'
    BY <1>7, <1>0 DEF trigger_time_event, do_pend_event_queue, Disarm, Acquire, locals, ListOK, MapMatchesQueue, Sorted
  <2>2. TypeOK'
    <3>1. events' \in Seq(Event) /\ map' \in SUBSET Privates
      BY <1>7, <1>0, <2>1 DEF trigger_time_event, do_pend_event_queue, Disarm, Acquire, TypeOK, ListOK, locals
    <3>2. sig' \in BOOLEAN /\ dropped' \in BOOLEAN
      BY <1>7, <1>0 DEF trigger_time_event, do_pend_event_queue, Disarm, Acquire, TypeOK, locals
    <3>3. clock' \in Nat /\ timer' \in Nat \cup {Off} /\ tv' \in Int
      BY <1>7, <1>0 DEF trigger_time_event, do_pend_event_queue, Disarm, Acquire, TypeOK, locals
    <3>4. /\ state' \in States /\ old' \in States /\ todo' \in {"add", "alarm"}
          /\ holder' \in Threads \cup {NoThread} /\ ret' \in {"unlock", "user"}
          /\ pc' \in {"idle", "user", "trigger", "resume"}
      BY <1>7, <1>0 DEF trigger_time_event, do_pend_event_queue, Disarm, Acquire, TypeOK, locals, States
    <3> QED
      BY <3>1, <3>2, <3>3, <3>4 DEF TypeOK
  <2>3. TimerForHead' /\ StateMatchesTimer'
    BY <1>7, <1>0, <2>1 DEF trigger_time_event, do_pend_event_queue, Disarm, Acquire, locals,
       TypeOK, TimerForHead, WakeupOrDropped, HolderInside, StateMatchesTimer
  <2>4. HolderInside' /\ WakeupOrDropped'
    BY <1>7, <1>0, <2>1 DEF trigger_time_event, do_pend_event_queue, Disarm, Acquire, locals,
       TypeOK, TimerForHead, WakeupOrDropped, HolderInside, StateMatchesTimer,
       PendedInside
  <2>5. PendedInside' /\ PendedThroughout'
    BY <1>7, <1>0 DEF trigger_time_event, do_pend_event_queue, Disarm, Acquire, locals,
       TypeOK, HolderInside, PendedInside, PendedThroughout
  <2> QED
    BY <2>1, <2>2, <2>3, <2>4, <2>5 DEF IInv, ListOK
<1>8. ASSUME TriggerHead
      PROVE  IInv'
  <2>1. ListOK'
    <3>1. /\ events # <<>>
          /\ events' = Tail(events)
          /\ map' = map \ {Head(events).private}
      BY <1>8 DEF TriggerHead, HeadDue
    <3>2. /\ events' \in Seq(Event) /\ Len(events') = Len(events) - 1
          /\ 1 \in 1..Len(events)
          /\ \A i \in 1..(Len(events) - 1) :
                events'[i] = IF i < 1 THEN events[i] ELSE events[i + 1]
      BY <3>1, <1>0 DEF ListOK
    <3>3. map' = map \ {events[1].private}
      BY <3>1, <1>0 DEF ListOK
    <3> QED
      BY <3>2, <3>3, <1>0, DropKeepsList
  <2>2. TypeOK'
    BY <1>8, <1>0, <2>1 DEF TriggerHead, TypeOK, ListOK, locals, States
  <2>3. TimerForHead' /\ StateMatchesTimer'
    BY <1>8, <1>0, <2>1 DEF TriggerHead, locals,
       TypeOK, TimerForHead, WakeupOrDropped, HolderInside, StateMatchesTimer
  <2>4. HolderInside' /\ WakeupOrDropped'
    BY <1>8, <1>0, <2>1 DEF TriggerHead, locals,
       TypeOK, TimerForHead, WakeupOrDropped, HolderInside, StateMatchesTimer,
       PendedInside
  <2>5. PendedInside' /\ PendedThroughout'
    BY <1>8, <1>0 DEF TriggerHead, locals,
       TypeOK, HolderInside, PendedInside, PendedThroughout
  <2> QED
    BY <2>1, <2>2, <2>3, <2>4, <2>5 DEF IInv, ListOK
<1>9. ASSUME AddTriggered
      PROVE  IInv'
  <2>1. ListOK'
    BY <1>9, <1>0 DEF AddTriggered, ListOK, MapMatchesQueue, Sorted
  <2>2. TypeOK'
    BY <1>9, <1>0, <2>1 DEF AddTriggered, Return, TypeOK, ListOK, locals, States
  <2>3. TimerForHead' /\ StateMatchesTimer'
    BY <1>9, <1>0, <2>1 DEF AddTriggered, Return, locals,
       TypeOK, TimerForHead, WakeupOrDropped, HolderInside, StateMatchesTimer
  <2>4. HolderInside' /\ WakeupOrDropped'
    BY <1>9, <1>0, <2>1 DEF AddTriggered, Return, locals,
       TypeOK, TimerForHead, WakeupOrDropped, HolderInside, StateMatchesTimer,
       PendedInside
  <2>5. PendedInside' /\ PendedThroughout'
    BY <1>9, <1>0 DEF AddTriggered, Return, locals,
       TypeOK, HolderInside, PendedInside, PendedThroughout
  <2> QED
    BY <2>1, <2>2, <2>3, <2>4, <2>5 DEF IInv, ListOK
<1>10. ASSUME AlarmTriggered
      PROVE  IInv'
  <2>1. ListOK'
    BY <1>10, <1>0 DEF AlarmTriggered, ListOK, MapMatchesQueue, Sorted
  <2>2. TypeOK'
    BY <1>10, <1>0, <2>1 DEF AlarmTriggered, Return, TypeOK, ListOK, locals, States
  <2>3. TimerForHead' /\ StateMatchesTimer'
    BY <1>10, <1>0, <2>1 DEF AlarmTriggered, Return, locals,
       TypeOK, TimerForHead, WakeupOrDropped, HolderInside, StateMatchesTimer
  <2>4. HolderInside' /\ WakeupOrDropped'
    BY <1>10, <1>0, <2>1 DEF AlarmTriggered, Return, locals,
       TypeOK, TimerForHead, WakeupOrDropped, HolderInside, StateMatchesTimer,
       PendedInside
  <2>5. PendedInside' /\ PendedThroughout'
    BY <1>10, <1>0 DEF AlarmTriggered, Return, locals,
       TypeOK, HolderInside, PendedInside, PendedThroughout
  <2> QED
    BY <2>1, <2>2, <2>3, <2>4, <2>5 DEF IInv, ListOK
<1>11. ASSUME Rearmed
      PROVE  IInv'
  <2>1. ListOK'
    BY <1>11, <1>0 DEF Rearmed, ListOK, MapMatchesQueue, Sorted
  <2>2. TypeOK'
    <3>1. events' \in Seq(Event) /\ map' \in SUBSET Privates
      BY <1>11, <1>0, <2>1 DEF Rearmed, Return, set_timer, HeadDue, TypeOK, ListOK, locals
    <3>2. sig' \in BOOLEAN /\ dropped' \in BOOLEAN
      BY <1>11, <1>0 DEF Rearmed, Return, set_timer, HeadDue, TypeOK, locals
    <3>3. clock' \in Nat /\ timer' \in Nat \cup {Off} /\ tv' \in Int
      <4>1. events # <<>> => Head(events).trigger \in Nat
        <5>1. events # <<>> => Head(events) \in Event
          BY <1>0, HeadTailProperties DEF ListOK
        <5> QED
          BY <5>1 DEF Event
      <4>2. clock' = clock /\ tv' = tv /\ tv <= clock
        BY <1>11, <1>0 DEF Rearmed, HolderInside, locals
      <4>3. CASE events = <<>>
        BY <1>11, <1>0, <4>2, <4>3 DEF Rearmed, TypeOK
      <4>4. CASE events # <<>>
        <5>1. timer' = IF Head(events).trigger - tv = 0 THEN Off
                       ELSE clock + (Head(events).trigger - tv)
          BY <1>11, <4>4 DEF Rearmed, set_timer
        <5> QED
          BY <1>0, <4>1, <4>2, <4>4, <5>1 DEF TypeOK
      <4> QED
        BY <4>3, <4>4
    <3>4. /\ state' \in States /\ old' \in States /\ todo' \in {"add", "alarm"}
          /\ holder' \in Threads \cup {NoThread} /\ ret' \in {"unlock", "user"}
          /\ pc' \in {"idle", "user", "trigger", "resume"}
      BY <1>11, <1>0 DEF Rearmed, Return, set_timer, HeadDue, TypeOK, locals, States
    <3> QED
      BY <3>1, <3>2, <3>3, <3>4 DEF TypeOK
  <2>3. TimerForHead' /\ StateMatchesTimer'
    BY <1>11, <1>0, <2>1 DEF Rearmed, Return, set_timer, HeadDue, locals,
       TypeOK, TimerForHead, WakeupOrDropped, HolderInside, StateMatchesTimer
  <2>4. HolderInside' /\ WakeupOrDropped'
    BY <1>11, <1>0, <2>1 DEF Rearmed, Return, set_timer, HeadDue, locals,
       TypeOK, TimerForHead, WakeupOrDropped, HolderInside, StateMatchesTimer,
       PendedInside
  <2>5. PendedInside' /\ PendedThroughout'
    BY <1>11, <1>0 DEF Rearmed, Return, set_timer, HeadDue, locals,
       TypeOK, HolderInside, PendedInside, PendedThroughout
  <2> QED
    BY <2>1, <2>2, <2>3, <2>4, <2>5 DEF IInv, ListOK
<1>12. ASSUME AlarmMissed
      PROVE  IInv'
  <2>1. ListOK'
    BY <1>12, <1>0 DEF AlarmMissed, ListOK, MapMatchesQueue, Sorted
  <2>2. TypeOK'
    BY <1>12, <1>0, <2>1 DEF AlarmMissed, TypeOK, ListOK, locals, States
  <2>3. TimerForHead' /\ StateMatchesTimer'
    BY <1>12, <1>0, <2>1 DEF AlarmMissed, locals,
       TypeOK, TimerForHead, WakeupOrDropped, HolderInside, StateMatchesTimer
  <2>4. HolderInside' /\ WakeupOrDropped'
    BY <1>12, <1>0, <2>1 DEF AlarmMissed, locals,
       TypeOK, TimerForHead, WakeupOrDropped, HolderInside, StateMatchesTimer,
       PendedInside
  <2>5. PendedInside' /\ PendedThroughout'
    BY <1>12, <1>0 DEF AlarmMissed, locals,
       TypeOK, HolderInside, PendedInside, PendedThroughout
  <2> QED
    BY <2>1, <2>2, <2>3, <2>4, <2>5 DEF IInv, ListOK
<1>13. ASSUME Tick
      PROVE  IInv'
  <2>1. ListOK'
    BY <1>13, <1>0 DEF Tick, ListOK, MapMatchesQueue, Sorted
  <2>2. TypeOK'
    BY <1>13, <1>0, <2>1 DEF Tick, TypeOK, ListOK, locals, States
  <2>3. TimerForHead' /\ StateMatchesTimer'
    BY <1>13, <1>0, <2>1 DEF Tick, locals,
       TypeOK, TimerForHead, WakeupOrDropped, HolderInside, StateMatchesTimer
  <2>4. HolderInside' /\ WakeupOrDropped'
    BY <1>13, <1>0, <2>1 DEF Tick, locals,
       TypeOK, TimerForHead, WakeupOrDropped, HolderInside, StateMatchesTimer,
       PendedInside
  <2>5. PendedInside' /\ PendedThroughout'
    BY <1>13, <1>0 DEF Tick, locals,
       TypeOK, HolderInside, PendedInside, PendedThroughout
  <2> QED
    BY <2>1, <2>2, <2>3, <2>4, <2>5 DEF IInv, ListOK
<1>14. ASSUME Expire
      PROVE  IInv'
  <2>1. ListOK'
    BY <1>14, <1>0 DEF Expire, ListOK, MapMatchesQueue, Sorted
  <2>2. TypeOK'
    BY <1>14, <1>0, <2>1 DEF Expire, TypeOK, ListOK, locals, States
  <2>3. TimerForHead' /\ StateMatchesTimer'
    BY <1>14, <1>0, <2>1 DEF Expire, locals,
       TypeOK, TimerForHead, WakeupOrDropped, HolderInside, StateMatchesTimer
  <2>4. HolderInside' /\ WakeupOrDropped'
    BY <1>14, <1>0, <2>1 DEF Expire, locals,
       TypeOK, TimerForHead, WakeupOrDropped, HolderInside, StateMatchesTimer,
       PendedInside
  <2>5. PendedInside' /\ PendedThroughout'
    BY <1>14, <1>0 DEF Expire, locals,
       TypeOK, HolderInside, PendedInside, PendedThroughout
  <2> QED
    BY <2>1, <2>2, <2>3, <2>4, <2>5 DEF IInv, ListOK
<1>15. CASE UNCHANGED vars
  BY <1>15 DEF vars, IInv, TypeOK, MapMatchesQueue, Sorted, TimerForHead,
     WakeupOrDropped, HolderInside, StateMatchesTimer, PendedInside,
     PendedThroughout
<1> QED
  BY <1>1, <1>2, <1>3, <1>4, <1>5, <1>6, <1>7, <1>8, <1>9, <1>10, <1>11,
     <1>12, <1>13, <1>14, <1>15 DEF Next, Call, HolderStep

-----------------------------------------------------------------------------
(* The results.                                                            *)

\* IInv holds in every reachable state of the queue.
THEOREM QueueInvariant == Spec => []IInv
<1>1. Init => IInv
  BY InitIInv
<1>2. IInv /\ [Next]_vars => IInv'
  BY NextIInv
<1> QED
  BY <1>1, <1>2, PTL DEF Spec

\* The timer is set only at the end of do_resume_event_queue(), and there the
\* head is due later than `now' plus the resolution.
LEMMA StepArmsAhead ==
  IInv /\ [Next]_vars => [timer' \notin {timer, Off} => timer' > clock]_vars
<1> SUFFICES ASSUME IInv, Next, timer' # timer, timer' # Off
             PROVE  timer' > clock
  OBVIOUS
<1>1. Rearmed
  BY DEF Next, Call, HolderStep, add_time_event, add_time_event_when_pending,
     AddBody, do_pend_event_queue, Disarm, remove_time_event_when_pending,
     remove_time_event, RemoveBody, pend_time_event_queue, resume_time_event_queue,
     trigger_time_event, TriggerHead, AddTriggered, AlarmTriggered, AlarmMissed,
     Tick, Expire
<1>2. events \in Seq(Event) /\ tv \in Int /\ clock \in Nat /\ Resolution \in Nat
  BY QueueAssumption DEF IInv, TypeOK
<1>3. events # <<>> /\ ~ (Head(events).trigger <= tv + Resolution)
      /\ timer' = clock + (Head(events).trigger - tv)
  BY <1>1 DEF Rearmed, HeadDue, set_timer
<1>4. Head(events) \in Event
  BY <1>2, <1>3
<1>5. Head(events).trigger \in Nat
  BY <1>4 DEF Event
<1>6. PICK h \in Nat : h = Head(events).trigger
  BY <1>5
<1> QED
  BY <1>2, <1>3, <1>6

\* Every interval handed to setitimer() when the timer is armed is positive.
THEOREM QueueArmedAhead == Spec => ArmedAhead
<1>1. IInv /\ [Next]_vars => [timer' \notin {timer, Off} => timer' > clock]_vars
  BY StepArmsAhead
<1> QED
  BY <1>1, QueueInvariant, PTL DEF Spec, ArmedAhead

\* The hash map and the list always agree, and no owner has two events.
THEOREM QueueMapMatches == Spec => []MapMatchesQueue
<1>1. IInv => MapMatchesQueue
  BY DEF IInv
<1> QED
  BY <1>1, QueueInvariant, PTL

\* The list is sorted by trigger time.
THEOREM QueueSorted == Spec => []Sorted
<1>1. IInv => Sorted
  BY DEF IInv
<1> QED
  BY <1>1, QueueInvariant, PTL

\* The timer is off while handlers run and never expires before the head is
\* due.
THEOREM QueueTimerForHead == Spec => []TimerForHead
<1>1. IInv => TimerForHead
  BY DEF IInv
<1> QED
  BY <1>1, QueueInvariant, PTL

\* The only ways to strand queued events are the two WakeupOrDropped names.
THEOREM QueueWakeupOrDropped == Spec => []WakeupOrDropped
<1>1. IInv => WakeupOrDropped
  BY DEF IInv
<1> QED
  BY <1>1, QueueInvariant, PTL

\* Without removals no wakeup is lost: a pended section stays pended, so its
\* end rearms the timer whatever SIGALRM it threw away.
THEOREM QueueNoLostWakeup == Spec => []NoLostWakeup
<1>1. IInv => NoLostWakeup
  BY DEF IInv, WakeupOrDropped, PendedThroughout, NoLostWakeup
<1> QED
  BY <1>1, QueueInvariant, PTL

-----------------------------------------------------------------------------
(* The queue implements TimerService: the list is the set of its events.   *)

Pending == {events[i] : i \in DOMAIN events}

\* The owners with a pending event are the keys of the map.
LEMMA OwnersAreKeys ==
  ASSUME ListOK
  PROVE  Service!Owners = map
  BY DEF ListOK, MapMatchesQueue, Service!Owners

\* Adding an event is the service's Ask.
LEMMA AddIsAsk ==
  ASSUME ListOK, clock \in Nat, NEW p \in Privates, NEW d \in Delays,
         AddBody(p, d), Mode = "asking", Mode' = "calling"
  PROVE  Service!Ask(p, d)
<1> DEFINE e == [private |-> p, trigger |-> clock + d]
           n == Len(events)
<1>1. /\ p \notin map /\ clock' = clock /\ n \in Nat /\ DOMAIN events = 1..n
      /\ events \in Seq(Event) /\ e \in Event
  BY QueueAssumption DEF AddBody, ListOK, Event
<1>2. PICK k \in 1..(n + 1) : events' = InsertAt(events, k, e)
  BY DEF AddBody
<1> HIDE DEF e, n
<1>3. /\ events' \in Seq(Event) /\ Len(events') = n + 1
      /\ \A i \in 1..(n + 1) : events'[i] = IF i < k THEN events[i]
                                ELSE IF i = k THEN e ELSE events[i - 1]
  <2>1. events \in Seq(Event) /\ k \in 1..(Len(events) + 1) /\ e \in Event
    BY <1>1, <1>2 DEF n
  <2>2. Inserted(events', Event, events, k, e)
    BY <1>2, <2>1, InsertAtProperties
  <2> QED
    BY <2>2 DEF n, Inserted
<1>4. DOMAIN events' = 1..(n + 1)
  BY <1>1, <1>3
<1>5. ASSUME NEW i \in 1..(n + 1) PROVE events'[i] \in Pending \cup {e}
  <2>1. CASE i < k
    BY <2>1, <1>1, <1>3 DEF Pending
  <2>2. CASE i = k
    BY <2>2, <1>1, <1>3
  <2>3. CASE i > k
    <3>1. i - 1 \in 1..n /\ events'[i] = events[i - 1]
      BY <2>3, <1>1, <1>3
    <3> QED
      BY <3>1, <1>1 DEF Pending
  <2> QED
    BY <2>1, <2>2, <2>3, <1>1
<1>6. ASSUME NEW i \in 1..n PROVE \E j \in 1..(n + 1) : events'[j] = events[i]
  <2>1. CASE i < k
    BY <2>1, <1>1, <1>3
  <2>2. CASE i >= k
    <3>1. i + 1 \in 1..(n + 1) /\ events'[i + 1] = events[i]
      BY <2>2, <1>1, <1>3
    <3> QED
      BY <3>1
  <2> QED
    BY <2>1, <2>2, <1>1
<1>7. events'[k] = e
  BY <1>1, <1>3
<1>8. Pending' = Pending \cup {e}
  BY <1>1, <1>4, <1>5, <1>6, <1>7 DEF Pending
<1> QED
  BY <1>1, <1>8, OwnersAreKeys DEF Service!Ask, Pending, e

\* Withdrawing an event is the service's Cancel, or a turn if there is none.
LEMMA RemoveIsCancel ==
  ASSUME ListOK, NEW t, NEW p \in Privates, NEW to, RemoveBody(t, p, to),
         Mode = "asking"
  PROVE  Service!Cancel(p) \/ Service!Turn
<1>1. clock' = clock /\ Mode' \in Service!Modes
  BY DEF RemoveBody, Mode, Service!Modes
<1>2. CASE p \notin map
  BY <1>1, <1>2 DEF RemoveBody, Service!Turn
<1>3. CASE p \in map
  <2> DEFINE n == Len(events)
  <2>1. PICK k \in DOMAIN events :
           events[k].private = p /\ events' = RemoveAt(events, k)
    BY <1>3 DEF RemoveBody
  <2>2. /\ k \in 1..n /\ events \in Seq(Event) /\ n \in Nat
        /\ DOMAIN events = 1..n
    BY <2>1 DEF ListOK
  <2>3. /\ events' \in Seq(Event) /\ Len(events') = n - 1
        /\ \A i \in 1..(n - 1) :
              events'[i] = IF i < k THEN events[i] ELSE events[i + 1]
    BY <2>1, <2>2, RemoveAtProperties
  <2> HIDE DEF n
  <2>4. DOMAIN events' = 1..(n - 1)
    BY <2>2, <2>3
  <2>5. \A i \in 1..n : events[i].private = p <=> i = k
    BY <2>1, <2>2 DEF ListOK, MapMatchesQueue
  <2>6. ASSUME NEW i \in 1..(n - 1)
        PROVE  \E j \in 1..n : j # k /\ events'[i] = events[j]
    <3>1. CASE i < k
      BY <3>1, <2>2, <2>3
    <3>2. CASE i >= k
      <4>1. i + 1 \in 1..n /\ i + 1 # k /\ events'[i] = events[i + 1]
        BY <3>2, <2>2, <2>3
      <4> QED
        BY <4>1
    <3> QED
      BY <3>1, <3>2, <2>2
  <2>7. ASSUME NEW j \in 1..n, j # k
        PROVE  \E i \in 1..(n - 1) : events'[i] = events[j]
    <3>1. CASE j < k
      BY <3>1, <2>2, <2>3
    <3>2. CASE j > k
      <4>1. j - 1 \in 1..(n - 1) /\ ~(j - 1 < k) /\ (j - 1) + 1 = j
        BY <3>2, <2>2
      <4>2. events'[j - 1] = events[(j - 1) + 1]
        BY <4>1, <2>3
      <4> QED
        BY <4>1, <4>2
    <3> QED
      BY <3>1, <3>2, <2>2, <2>7
  <2>8. Pending' = {e \in Pending : e.private # p}
    <3>1. ASSUME NEW x \in Pending' PROVE x \in Pending /\ x.private # p
      <4>1. PICK i \in 1..(n - 1) : x = events'[i]
        BY <2>4 DEF Pending
      <4>2. PICK j \in 1..n : j # k /\ events'[i] = events[j]
        BY <2>6
      <4> QED
        BY <4>1, <4>2, <2>2, <2>5 DEF Pending
    <3>2. ASSUME NEW x \in Pending, x.private # p PROVE x \in Pending'
      <4>1. PICK j \in 1..n : x = events[j]
        BY <2>2 DEF Pending
      <4>2. j # k
        BY <4>1, <3>2, <2>5
      <4>3. PICK i \in 1..(n - 1) : events'[i] = events[j]
        BY <4>2, <2>7
      <4> QED
        BY <4>1, <4>3, <2>4 DEF Pending
    <3> QED
      BY <3>1, <3>2
  <2> QED
    BY <1>1, <1>3, <2>8, OwnersAreKeys DEF Service!Cancel, Pending
<1> QED
  BY <1>2, <1>3

\* One iteration of do_trigger_time_event() is the service's Fire.
LEMMA TriggerIsFire ==
  ASSUME IInv, TriggerHead
  PROVE  \E e \in Pending : Service!Fire(e)
<1> DEFINE n == Len(events)
           e == events[1]
<1>1. /\ events \in Seq(Event) /\ events # <<>> /\ events' = Tail(events)
      /\ Head(events).trigger <= tv + Resolution /\ clock' = clock
      /\ tv <= clock /\ clock \in Nat /\ tv \in Int
      /\ Mode = "calling" /\ Mode' = Mode
  BY DEF IInv, TypeOK, TriggerHead, HeadDue, HolderInside, Mode
<1>2. /\ n \in Nat /\ n >= 1 /\ DOMAIN events = 1..n /\ Head(events) = e
      /\ DOMAIN events' = 1..(n - 1)
      /\ \A i \in 1..(n - 1) : events'[i] = events[i + 1]
  BY <1>1
<1>3. e \in Pending /\ e \in Event
  BY <1>1, <1>2, ElementOfSeq DEF Pending
<1>4. e.trigger \in Nat
  BY <1>3 DEF Event
<1>5. e.trigger <= clock + Resolution
  BY <1>1, <1>2, <1>4, QueueAssumption
<1>6. \A i \in 1..n : e.trigger <= events[i].trigger
  BY <1>2 DEF IInv, Sorted
<1>7. \A i \in 1..n : i # 1 => events[i] # e
  BY <1>2 DEF IInv, MapMatchesQueue
<1> HIDE DEF n, e
<1>8. ASSUME NEW j \in 1..n, j # 1
      PROVE  \E i \in 1..(n - 1) : events'[i] = events[j]
  <2>1. j - 1 \in 1..(n - 1) /\ (j - 1) + 1 = j
    BY <1>2, <1>8
  <2> QED
    BY <2>1, <1>2
<1>9. \A i \in 1..(n - 1) : i + 1 \in 1..n /\ i + 1 # 1
  BY <1>2
<1>10. events[1] = e /\ 1 \in 1..n
  BY <1>2 DEF e
<1>11. Pending' = Pending \ {e}
  <2>1. ASSUME NEW x \in Pending' PROVE x \in Pending \ {e}
    <3>1. PICK i \in 1..(n - 1) : x = events'[i]
      BY <1>2 DEF Pending
    <3>2. i + 1 \in 1..n /\ x = events[i + 1] /\ events[i + 1] # e
      BY <3>1, <1>2, <1>7, <1>9
    <3> QED
      BY <3>2, <1>2 DEF Pending
  <2>2. ASSUME NEW x \in Pending, x # e PROVE x \in Pending'
    <3>1. PICK j \in 1..n : x = events[j]
      BY <1>2 DEF Pending
    <3>2. j # 1
      BY <3>1, <2>2, <1>10
    <3>3. PICK i \in 1..(n - 1) : events'[i] = events[j]
      BY <3>2, <1>8
    <3> QED
      BY <3>1, <3>3, <1>2 DEF Pending
  <2> QED
    BY <2>1, <2>2
<1> QED
  BY <1>1, <1>2, <1>3, <1>5, <1>6, <1>11 DEF Service!Fire, Pending

\* Every step of the queue is a step of the service or leaves it unchanged.
LEMMA StepRefines ==
  IInv /\ [Next]_vars => [Service!ServiceNext]_<<clock, Pending, Mode>>
<1> SUFFICES ASSUME IInv, [Next]_vars
             PROVE  Service!ServiceNext \/ UNCHANGED <<clock, Pending, Mode>>
  OBVIOUS
<1>0. /\ ListOK /\ clock \in Nat
      /\ pc \in {"idle", "user"} => Mode = "asking"
      /\ holder = NoThread => pc = "idle"
      /\ Mode' \in Service!Modes
  BY DEF IInv, TypeOK, ListOK, HolderInside, Mode, Service!Modes
<1>1. ASSUME NEW t \in Threads, NEW p \in Privates, NEW d \in Delays,
             add_time_event(t, p, d) \/ add_time_event_when_pending(t, p, d)
      PROVE  Service!ServiceNext
  <2>1. AddBody(p, d) /\ pc \in {"idle", "user"} /\ pc' = "trigger"
    BY <1>0, <1>1 DEF add_time_event, add_time_event_when_pending, Acquire
  <2>2. Mode = "asking" /\ Mode' = "calling"
    BY <1>0, <2>1 DEF Mode
  <2>3. Service!Ask(p, d)
    BY <1>0, <2>1, <2>2, AddIsAsk
  <2> QED
    BY <2>3 DEF Service!ServiceNext
<1>2. ASSUME NEW t \in Threads, NEW p \in Privates,
             remove_time_event_when_pending(t, p) \/ remove_time_event(t, p)
      PROVE  Service!ServiceNext
  <2>1. PICK to : RemoveBody(t, p, to)
    BY <1>2 DEF remove_time_event_when_pending, remove_time_event
  <2>2. Mode = "asking"
    BY <1>0, <1>2 DEF remove_time_event_when_pending, remove_time_event
  <2>3. Service!Cancel(p) \/ Service!Turn
    BY <1>0, <2>1, <2>2, RemoveIsCancel
  <2> QED
    BY <2>3 DEF Service!ServiceNext
<1>3. ASSUME TriggerHead PROVE Service!ServiceNext
  BY <1>3, TriggerIsFire DEF Service!ServiceNext, Pending
<1>4. ASSUME Tick PROVE Service!ServiceNext
  <2>1. Service!Pass
    BY <1>4 DEF Tick, Service!Pass, Mode
  <2> QED
    BY <2>1 DEF Service!ServiceNext
<1>5. ASSUME NEW t \in Threads,
             \/ pend_time_event_queue(t) \/ resume_time_event_queue(t)
             \/ trigger_time_event(t)
      PROVE  Service!ServiceNext
  <2>1. Service!Turn
    BY <1>0, <1>5 DEF pend_time_event_queue, resume_time_event_queue,
       trigger_time_event, Service!Turn
  <2> QED
    BY <2>1 DEF Service!ServiceNext
<1>6. ASSUME AddTriggered \/ AlarmTriggered \/ Rearmed \/ AlarmMissed \/ Expire
      PROVE  Service!ServiceNext
  <2>1. Service!Turn
    BY <1>0, <1>6 DEF AddTriggered, AlarmTriggered, Rearmed, AlarmMissed,
       Expire, Service!Turn
  <2> QED
    BY <2>1 DEF Service!ServiceNext
<1>7. CASE UNCHANGED vars
  BY <1>7 DEF vars, Pending, Mode
<1> QED
  BY <1>1, <1>2, <1>3, <1>4, <1>5, <1>6, <1>7 DEF Next, Call, HolderStep

\* The queue implements TimerService: an event is triggered at most one
\* resolution early, in order of trigger time and only in the loops of
\* do_trigger_time_event(), and otherwise leaves only by being removed.
THEOREM QueueImplementsService == Spec => ServiceSpec
<1>1. Init => Service!ServiceInit
  BY DEF Init, Service!ServiceInit, Mode
<1>2. IInv /\ [Next]_vars => [Service!ServiceNext]_Service!serviceVars
  BY StepRefines DEF Service!serviceVars, Pending
<1> QED
  BY <1>1, <1>2, QueueInvariant, PTL DEF Spec, ServiceSpec, Service!ServiceSpec
=============================================================================
