--------------------------- MODULE CentralFreeList ---------------------------
(* The central free lists of the memory manager (central_freelist.cc): one   *)
(* per heap type and size class, shared by the caches of all threads.  A     *)
(* list keeps spans cut into objects, and a few ready chains of objects in   *)
(* its transfer slots.  Its lock is dropped in the middle of an operation:   *)
(* around every call of the page heap, and to take a slot from another list. *)
(*                                                                          *)
(* An object is told apart by its span only: a chain is a sequence of spans. *)
(* What an operation does between two drops of the lock is one step, which   *)
(* is right as long as the lock excludes.  LockInverter can free the lock of *)
(* a default list that another thread holds (see NeverTwoLocks): what the    *)
(* thread that lost its lock does to the spans from there on is left out, so *)
(* those steps ask for the lock.                                             *)
EXTENDS Integers, Sequences, FiniteSets, FiniteSetsExt, Functions, SequencesExt

CONSTANTS
    Threads, NoThread,
    Lists,               \* <<heap type, size class>>; the default type is 0
    Spans,               \* the spans the page heap can give
    ObjectsPerSpan,      \* the objects a span is cut into
    num_objects_to_move, \* the length of a chain in a slot
    CacheSize,           \* the slots Init gives a list of each class ...
    MaxCacheSize         \* ... and the most it may have

DEFAULT_HEAP_TYPE == 0
Default(class) == <<DEFAULT_HEAP_TYPE, class>>
Classes == {l[2] : l \in Lists}

\* Where a span is that is on no list: in the page heap, or on its way.
Heap == <<"heap">>
Taken == <<"on", "its", "way">>

ASSUME ListsAssumption ==
    /\ NoThread \notin Threads
    /\ IsFiniteSet(Threads) /\ IsFiniteSet(Lists) /\ IsFiniteSet(Spans)
    /\ Classes = 1 .. Cardinality(Classes)
    /\ \A c \in Classes : Default(c) \in Lists
    /\ Heap \notin Lists /\ Taken \notin Lists
ASSUME SizesAssumption ==
    /\ ObjectsPerSpan \in Nat \ {0}
    /\ num_objects_to_move \in Nat \ {0}
    /\ \A c \in Classes : CacheSize[c] \in Nat /\ MaxCacheSize[c] \in Nat
    /\ \A c \in Classes : CacheSize[c] <= MaxCacheSize[c]

VARIABLES
    lock,         \* lock_ of each list: its holder
    cache_size,   \* cache_size_: the slots a list may use
    tc_slots,     \* tc_slots_[0 .. used_slots_ - 1]
    nonempty,     \* nonempty_: the spans with free objects, in list order
    empty,        \* empty_: the spans without
    counter,      \* counter_: the free objects in the spans of the list
    home,         \* where a span is: on a list, in the page heap, or between
    objects,      \* the length of span->objects
    refcount,     \* span->refcount
    out,          \* the objects in thread caches and in the program, by list
    call          \* what each thread is doing

listVars == <<cache_size, tc_slots, nonempty, empty, counter>>
spanVars == <<home, objects, refcount>>
vars == <<lock, listVars, spanVars, out, call>>

Idle == [pc |-> "idle"]
Chains == UNION {[1 .. n -> Spans] : n \in 1 .. num_objects_to_move}

\* The objects of span s in a chain.
Count(chain, s) == Cardinality({i \in DOMAIN chain : chain[i] = s})

Init ==
    /\ lock = [l \in Lists |-> NoThread]
    /\ cache_size = [l \in Lists |-> CacheSize[l[2]]]
    /\ tc_slots = [l \in Lists |-> <<>>]
    /\ nonempty = [l \in Lists |-> <<>>]
    /\ empty = [l \in Lists |-> {}]
    /\ counter = [l \in Lists |-> 0]
    /\ home = [s \in Spans |-> Heap]
    /\ objects = [s \in Spans |-> 0]
    /\ refcount = [s \in Spans |-> 0]
    /\ out = [l \in Lists |-> [s \in Spans |-> 0]]
    /\ call = [t \in Threads |-> Idle]

----------------------------------------------------------------------------
(* Locks.                                                                   *)

\* Thread t takes the free lock of list l.
Acquire(t, l) == lock[l] = NoThread /\ lock' = [lock EXCEPT ![l] = t]

\* An unlock clears the lock, whoever holds it.
Release(l) == lock' = [lock EXCEPT ![l] = NoThread]

Go(t, to) == call' = [call EXCEPT ![t] = to]

\* The call of t goes on at pc.
At(t, pc) == [call[t] EXCEPT !.pc = pc]

----------------------------------------------------------------------------
(* RemoveRange(): a thread cache asks for objects.                          *)

\* The objects in a chain reach the thread's cache.
HandOut(l, chain) ==
    out' = [out EXCEPT ![l] = [s \in Spans |-> @[s] + Count(chain, s)]]

\* With the lock: a whole chain comes from the last slot, if one is used.
RemoveSlot(t, l) ==
    /\ call[t].pc = "idle" /\ lock[l] = NoThread
    /\ tc_slots[l] # <<>>
    /\ HandOut(l, Last(tc_slots[l]))
    /\ tc_slots' = [tc_slots EXCEPT ![l] = Front(@)]
    /\ UNCHANGED <<lock, cache_size, nonempty, empty, counter, spanVars, call>>

\* Otherwise, or for less than a whole chain, n objects come from the spans.
RemoveFromSpans(t, l, n) ==
    /\ call[t].pc = "idle" /\ Acquire(t, l)
    /\ n # num_objects_to_move \/ tc_slots[l] = <<>>
    /\ Go(t, [pc |-> "fetch", l |-> l, n |-> n, chain |-> <<>>,
              populated |-> FALSE, span |-> {}])
    /\ UNCHANGED <<listVars, spanVars, out>>

RemoveRange(t) ==
    \E l \in Lists :
      \/ RemoveSlot(t, l)
      \/ \E n \in 1 .. num_objects_to_move : RemoveFromSpans(t, l, n)

\* FetchFromOneSpans(): as many objects as it has of the first span, which
\* moves to the other list when it has no more.
FetchFromOneSpans(t) ==
    LET l == call[t].l
        s == Head(nonempty[l])
        n == Min({call[t].n - Len(call[t].chain), objects[s]})
    IN  /\ call[t].pc = "fetch" /\ Len(call[t].chain) < call[t].n
        /\ lock[l] = t
        /\ nonempty[l] # <<>>
        /\ objects' = [objects EXCEPT ![s] = @ - n]
        /\ refcount' = [refcount EXCEPT ![s] = @ + n]
        /\ counter' = [counter EXCEPT ![l] = @ - n]
        /\ IF objects[s] = n
             THEN /\ nonempty' = [nonempty EXCEPT ![l] = Tail(@)]
                  /\ empty' = [empty EXCEPT ![l] = @ \cup {s}]
             ELSE UNCHANGED <<nonempty, empty>>
        /\ call' = [call EXCEPT ![t].chain = [i \in 1 .. n |-> s] \o @]
        /\ UNCHANGED <<lock, cache_size, tc_slots, home, out>>

\* RemoveRange() returns what it got: all, or less when the spans ran out.
FinishRemove(t) ==
    LET l == call[t].l
    IN  /\ call[t].pc = "fetch"
        /\ \/ Len(call[t].chain) = call[t].n
           \/ /\ nonempty[l] = <<>>
              /\ call[t].chain # <<>> \/ call[t].populated
        /\ Release(l)
        /\ HandOut(l, call[t].chain)
        /\ Go(t, Idle)
        /\ UNCHANGED <<listVars, spanVars>>

\* Populate(): with no object at all, once, the list drops its lock and ...
Populate(t) ==
    /\ call[t].pc = "fetch" /\ ~ call[t].populated
    /\ call[t].chain = <<>> /\ nonempty[call[t].l] = <<>>
    /\ Release(call[t].l)
    /\ Go(t, [At(t, "populate") EXCEPT !.populated = TRUE])
    /\ UNCHANGED <<listVars, spanVars, out>>

\* ... asks the page heap for a span, which may have none, ...
NewSpan(t) ==
    /\ call[t].pc = "populate"
    /\ \/ \E s \in Spans :
            /\ home[s] = Heap
            /\ home' = [home EXCEPT ![s] = Taken]
            /\ objects' = [objects EXCEPT ![s] = ObjectsPerSpan]
            /\ refcount' = [refcount EXCEPT ![s] = 0]
            /\ Go(t, [At(t, "link") EXCEPT !.span = {s}])
       \/ /\ \A s \in Spans : home[s] # Heap
          /\ Go(t, At(t, "link"))
          /\ UNCHANGED spanVars
    /\ UNCHANGED <<lock, listVars, out>>

\* ... and links it, with the lock again, before it looks at the spans again.
LinkSpan(t) ==
    LET l == call[t].l
    IN  /\ call[t].pc = "link" /\ Acquire(t, l)
        /\ \/ \E s \in call[t].span :
                /\ nonempty' = [nonempty EXCEPT ![l] = <<s>> \o @]
                /\ counter' = [counter EXCEPT ![l] = @ + ObjectsPerSpan]
                /\ home' = [home EXCEPT ![s] = l]
           \/ call[t].span = {} /\ UNCHANGED <<nonempty, counter, home>>
        /\ Go(t, [At(t, "fetch") EXCEPT !.span = {}])
        /\ UNCHANGED <<cache_size, tc_slots, empty, objects, refcount, out>>

----------------------------------------------------------------------------
(* InsertRange(): a thread cache gives objects back.                        *)

\* The chain becomes the contents of the next slot.
PutSlot(l, chain) == tc_slots' = [tc_slots EXCEPT ![l] = Append(@, chain)]

\* Objects that find no slot go back to their spans, w's lock being held.
ToSpans(c, w, chain) == [c EXCEPT !.pc = "release", !.w = w, !.rel = chain]

\* The chain of the call itself goes to the spans.
ChainToSpans(c) == [ToSpans(c, c.l, c.chain) EXCEPT !.chain = <<>>]

\* With the lock: a whole chain goes to a free slot.
InsertSlot(t, l, chain) ==
    /\ Len(chain) = num_objects_to_move
    /\ lock[l] = NoThread
    /\ Len(tc_slots[l]) < cache_size[l]
    /\ PutSlot(l, chain)
    /\ UNCHANGED <<lock, cache_size, call>>

\* A short chain, or one for a list that has all its slots, goes to the spans;
\* else MakeCacheSpace() tries to get a slot from another size class.
InsertNoSlot(t, l, chain) ==
    LET whole == Len(chain) = num_objects_to_move
        c == [pc |-> "evict", l |-> l, chain |-> chain, rel |-> <<>>, w |-> l,
              force |-> FALSE, won |-> FALSE, span |-> {}]
    IN  /\ ~ (whole /\ Len(tc_slots[l]) < cache_size[l])
        /\ Acquire(t, l)
        /\ Go(t, IF whole /\ cache_size[l] # MaxCacheSize[l[2]]
                   THEN c ELSE ChainToSpans(c))
        /\ UNCHANGED <<cache_size, tc_slots>>

\* The lists that objects may come from which reach list l: of its class, but
\* of another heap type if switch_heap_type() has changed their heads.
Origins(l) == [Spans -> {k \in Lists : k[2] = l[2]}]

\* A thread gives list l a chain of objects, those of span s from list from[s].
InsertRange(t) ==
    \E l \in Lists, chain \in Chains : \E from \in Origins(l) :
      /\ call[t].pc = "idle"
      /\ \A s \in Spans : Count(chain, s) <= out[from[s]][s]
      /\ out' = [k \in Lists |-> [s \in Spans |->
                    IF from[s] = k THEN out[k][s] - Count(chain, s) ELSE out[k][s]]]
      /\ InsertSlot(t, l, chain) \/ InsertNoSlot(t, l, chain)
      /\ UNCHANGED <<nonempty, empty, counter, spanVars>>

\* EvictRandomSizeClass() failed: try with force, then give up.
EvictFailed(t) ==
    IF call[t].force
      THEN ChainToSpans(call[t])
      ELSE [At(t, "evict") EXCEPT !.force = TRUE]

\* The lock that ShrinkCache() hands to LockInverter: the list of the default
\* heap type with the class of the list whose lock is held.
Inverted(t) == Default(call[t].l[2])

\* As EvictRandomSizeClass, but the other lock is taken inside the first.
EvictNested(t) ==
    \E c \in Classes :
      /\ call[t].pc = "evict"
      /\ Go(t, IF c = call[t].l[2] THEN EvictFailed(t)
                ELSE [At(t, "shrink") EXCEPT !.w = Default(c)])
      /\ UNCHANGED <<lock, listVars, spanVars, out>>

\* EvictRandomSizeClass() and the unlocked look of ShrinkCache() at the list
\* it picked; LockInverter then unlocks the one list to lock the other.  The
\* class comes from a counter that all lists advance without a lock: any.
EvictRandomSizeClass(t) ==
    \E c \in Classes :
      LET v == Default(c)
      IN  /\ call[t].pc = "evict"
          /\ IF \/ c = call[t].l[2]
                \/ cache_size[v] = 0
                \/ ~ call[t].force /\ Len(tc_slots[v]) = cache_size[v]
               THEN Go(t, EvictFailed(t)) /\ UNCHANGED lock
               ELSE /\ Go(t, [At(t, "shrink") EXCEPT !.w = v])
                    /\ Release(Inverted(t))
          /\ UNCHANGED <<listVars, spanVars, out>>

\* As ShrinkCache, but the used slot is given up only after its objects.
ShrinkAfterRelease(t) ==
    LET v == call[t].w
    IN  /\ call[t].pc = "shrink" /\ cache_size[v] > 0
        /\ Acquire(t, v)
        /\ cache_size' = [cache_size EXCEPT ![v] = @ - 1]
        /\ Go(t, [ToSpans(call[t], v,
                          IF tc_slots[v] = <<>> THEN <<>> ELSE Last(tc_slots[v]))
                    EXCEPT !.won = TRUE])
        /\ UNCHANGED <<tc_slots, nonempty, empty, counter, spanVars, out>>

\* ShrinkCache() with the other list's lock: take a free slot, or with force
\* the last used one, whose objects go to their spans.  The list is up to
\* date before ReleaseListToSpans() drops the lock.
ShrinkCache(t) ==
    LET v == call[t].w
        full == Len(tc_slots[v]) = cache_size[v]
    IN  /\ call[t].pc = "shrink" /\ lock[v] = NoThread
        /\ \/ /\ cache_size[v] = 0 \/ (full /\ ~ call[t].force)
              /\ Go(t, At(t, "invert"))
              /\ UNCHANGED <<lock, cache_size, tc_slots>>
           \/ /\ cache_size[v] > 0 /\ ~ full
              /\ cache_size' = [cache_size EXCEPT ![v] = @ - 1]
              /\ Go(t, [At(t, "invert") EXCEPT !.won = TRUE])
              /\ UNCHANGED <<lock, tc_slots>>
           \/ /\ cache_size[v] > 0 /\ full /\ call[t].force
              /\ Acquire(t, v)
              /\ cache_size' = [cache_size EXCEPT ![v] = @ - 1]
              /\ tc_slots' = [tc_slots EXCEPT ![v] = Front(@)]
              /\ Go(t, [ToSpans(call[t], v, Last(tc_slots[v]))
                          EXCEPT !.won = TRUE])
        /\ UNCHANGED <<nonempty, empty, counter, spanVars, out>>

\* As MakeCacheSpace, but a slot that was won is added without a second look.
GrowUnchecked(t) ==
    LET l == call[t].l
    IN  /\ call[t].pc = "invert" /\ lock[Inverted(t)] = NoThread
        /\ IF call[t].won
             THEN /\ cache_size' = [cache_size EXCEPT ![l] = @ + 1]
                  /\ PutSlot(l, call[t].chain)
                  /\ Go(t, Idle)
                  /\ UNCHANGED lock
             ELSE /\ Acquire(t, l)
                  /\ Go(t, EvictFailed(t))
                  /\ UNCHANGED <<cache_size, tc_slots>>
        /\ UNCHANGED <<nonempty, empty, counter, spanVars, out>>

\* LockInverter locks the first list again.  MakeCacheSpace() looks at the
\* size once more, for the lock was free meanwhile, and the chain gets the
\* new slot or goes to the spans.
MakeCacheSpace(t) ==
    LET l == call[t].l
        h == Inverted(t)
        grows == call[t].won /\ cache_size[l] < MaxCacheSize[l[2]]
    IN  /\ call[t].pc = "invert" /\ lock[h] = NoThread
        /\ IF grows
             THEN /\ cache_size' = [cache_size EXCEPT ![l] = @ + 1]
                  /\ PutSlot(l, call[t].chain)
                  /\ lock' = [lock EXCEPT ![h] = t, ![l] = NoThread]
                  /\ Go(t, Idle)
             ELSE /\ Acquire(t, h)
                  /\ Go(t, IF call[t].won
                             THEN ChainToSpans(call[t])
                             ELSE EvictFailed(t))
                  /\ UNCHANGED <<cache_size, tc_slots>>
        /\ UNCHANGED <<nonempty, empty, counter, spanVars, out>>

----------------------------------------------------------------------------
(* ReleaseListToSpans(): objects go back to their spans one by one.          *)

\* As ReleaseToSpans, but a span that gets an object back stays where it is.
ReleaseInPlace(t) ==
    LET l == call[t].w
        s == Head(call[t].rel)
    IN  /\ call[t].pc = "release" /\ call[t].rel # <<>> /\ refcount[s] # 1
        /\ counter' = [counter EXCEPT ![l] = @ + 1]
        /\ refcount' = [refcount EXCEPT ![s] = @ - 1]
        /\ objects' = [objects EXCEPT ![s] = @ + 1]
        /\ call' = [call EXCEPT ![t].rel = Tail(@)]
        /\ UNCHANGED <<lock, cache_size, tc_slots, nonempty, empty, home, out>>

\* ReleaseToSpans() of an object that is not the last one out of its span.  A
\* span without objects leaves whatever list it is on.
ReleaseToSpans(t) ==
    LET l == call[t].w
        s == Head(call[t].rel)
    IN  /\ call[t].pc = "release" /\ call[t].rel # <<>> /\ refcount[s] # 1
        /\ lock[l] = t
        /\ IF objects[s] = 0
             THEN /\ empty' = [k \in Lists |-> empty[k] \ {s}]
                  /\ nonempty' = [nonempty EXCEPT ![l] = <<s>> \o @]
                  /\ home' = [home EXCEPT ![s] = l]
             ELSE UNCHANGED <<nonempty, empty, home>>
        /\ counter' = [counter EXCEPT ![l] = @ + 1]
        /\ refcount' = [refcount EXCEPT ![s] = @ - 1]
        /\ objects' = [objects EXCEPT ![s] = @ + 1]
        /\ call' = [call EXCEPT ![t].rel = Tail(@)]
        /\ UNCHANGED <<lock, cache_size, tc_slots, out>>

\* The last object out: the whole span leaves its list, and l drops its lock.
ReleaseSpan(t) ==
    LET l == call[t].w
        s == Head(call[t].rel)
    IN  /\ call[t].pc = "release" /\ call[t].rel # <<>> /\ refcount[s] = 1
        /\ lock[l] = t
        /\ nonempty' = [k \in Lists |-> RemoveFirst(nonempty[k], s)]
        /\ empty' = [k \in Lists |-> empty[k] \ {s}]
        /\ counter' = [counter EXCEPT ![l] = @ + 1 - ObjectsPerSpan]
        /\ refcount' = [refcount EXCEPT ![s] = 0]
        /\ home' = [home EXCEPT ![s] = Taken]
        /\ Release(l)
        /\ Go(t, [At(t, "delete") EXCEPT !.rel = Tail(@), !.span = {s}])
        /\ UNCHANGED <<cache_size, tc_slots, objects, out>>

\* The page heap takes the span.
DeleteSpan(t) ==
    /\ call[t].pc = "delete"
    /\ home' = [s \in Spans |-> IF s \in call[t].span THEN Heap ELSE home[s]]
    /\ Go(t, [At(t, "relock") EXCEPT !.span = {}])
    /\ UNCHANGED <<lock, listVars, objects, refcount, out>>

Relock(t) ==
    /\ call[t].pc = "relock" /\ Acquire(t, call[t].w)
    /\ Go(t, At(t, "release"))
    /\ UNCHANGED <<listVars, spanVars, out>>

\* All objects are back: InsertRange() returns, or ShrinkCache() does.
FinishRelease(t) ==
    /\ call[t].pc = "release" /\ call[t].rel = <<>>
    /\ Release(call[t].w)
    /\ Go(t, IF call[t].chain = <<>> THEN Idle ELSE At(t, "invert"))
    /\ UNCHANGED <<listVars, spanVars, out>>

Step(t) ==
    \/ RemoveRange(t) \/ FetchFromOneSpans(t) \/ FinishRemove(t)
    \/ Populate(t) \/ NewSpan(t) \/ LinkSpan(t)
    \/ InsertRange(t)
    \/ EvictRandomSizeClass(t) \/ ShrinkCache(t) \/ MakeCacheSpace(t)
    \/ ReleaseToSpans(t) \/ ReleaseSpan(t) \/ DeleteSpan(t) \/ Relock(t)
    \/ FinishRelease(t)

Next == \E t \in Threads : Step(t)

Spec == Init /\ [][Next]_vars

----------------------------------------------------------------------------
(* Properties.                                                              *)

\* The sum of the values of f: the number of units that its arguments have.
Units(f) == UNION {{x} \X (1 .. f[x]) : x \in DOMAIN f}
Total(f) == Cardinality(Units(f))

\* The objects of span s outside its span: in the threads, in slots, and in
\* the hands of calls under way.
InCall(t, s) ==
    IF call[t].pc = "idle" THEN 0
    ELSE Count(call[t].chain, s)
         + (IF "rel" \in DOMAIN call[t] THEN Count(call[t].rel, s) ELSE 0)

InSlots(slots, s) == Total([i \in DOMAIN slots |-> Count(slots[i], s)])

Outside(s) ==
    Total([l \in Lists |-> out[l][s] + InSlots(tc_slots[l], s)])
    + Total([t \in Threads |-> InCall(t, s)])

\* ReleaseToSpans() (central_freelist.cc:107-152) gives a span to the page
\* heap when its refcount is zero.  That is right only if the refcount of a
\* span on a list is the number of its objects that are outside, whoever has
\* them, the others being free in the span, and if no object of a span is
\* outside once the page heap has the span.
ObjectsAccounted ==
    \A s \in Spans :
      /\ home[s] \in Lists => /\ refcount[s] = Outside(s)
                              /\ refcount[s] + objects[s] = ObjectsPerSpan
      /\ home[s] = Heap => Outside(s) = 0

\* FetchFromOneSpans() takes the first span of nonempty_ without looking
\* whether it has an object (ASSERT, central_freelist.cc:297), and length()
\* reports counter_: each span is on the one list it belongs to, on nonempty_
\* exactly if it has free objects, and counter_ is their number, although
\* every operation may lose the lock half way.
ListsAgree ==
    \A l \in Lists :
      /\ \A s \in Spans : (home[s] = l) <=> (s \in ToSet(nonempty[l]) \cup empty[l])
      /\ IsInjective(nonempty[l])
      /\ \A s \in ToSet(nonempty[l]) : objects[s] > 0
      /\ \A s \in empty[l] : objects[s] = 0
      /\ counter[l] = Total([s \in Spans |-> IF home[s] = l THEN objects[s] ELSE 0])

\* The calls that have taken a slot from a list and not yet given it to theirs.
Winners == {t \in Threads : "won" \in DOMAIN call[t] /\ call[t].won
                              /\ call[t].chain # <<>>}

\* Slots move between size classes (MakeCacheSpace, central_freelist.cc:
\* 170-190), with no lock that covers both lists.  A list never uses more
\* slots than it has nor has more than its limit, the size of tc_slots_; a
\* slot holds a whole chain, as RemoveRange() assumes; and moving never makes
\* slots: all lists, with the slot a call has taken and not yet given, have
\* at most what they started with.
SlotsMoved ==
    /\ \A l \in Lists :
         /\ Len(tc_slots[l]) <= cache_size[l]
         /\ cache_size[l] <= MaxCacheSize[l[2]]
         /\ \A i \in DOMAIN tc_slots[l] : Len(tc_slots[l][i]) = num_objects_to_move
    /\ Total(cache_size) + Cardinality(Winners)
         <= Total([l \in Lists |-> CacheSize[l[2]]])

\* The list a thread waits for.
Wanted(t) ==
    CASE call[t].pc = "link" -> {call[t].l}
      [] call[t].pc \in {"shrink", "relock"} -> {call[t].w}
      [] call[t].pc = "invert" -> {Inverted(t)}
      [] OTHER -> {}

\* "we never hold two size class locks concurrently" (ShrinkCache,
\* central_freelist.cc:213-215): no thread waits for the lock of a list while
\* it holds one, and a thread that is done holds none.
NeverTwoLocks ==
    \A t \in Threads :
      call[t].pc = "idle" \/ Wanted(t) # {} => \A l \in Lists : lock[l] # t
=============================================================================
