------------------------------ MODULE PageHeap ------------------------------
(***************************************************************************)
(* The page heaps of the memory manager: page_heap.cc of the extended      *)
(* gperftools.  There is one heap for restrict and one for open mapping;   *)
(* each has its own free lists of spans and its own statistics, while the  *)
(* page map, through which a span finds its neighbours, and the cache of   *)
(* size classes are shared.  What an operation does under pageheap_lock is *)
(* one step; only Populate() goes on without the lock, see Populated.      *)
(*                                                                         *)
(* A span is freed to the heap that the caller names.  The callers that    *)
(* the allocator has name another one than the heap the span is from: for  *)
(* every span of small objects the default heap                            *)
(* (CentralFreeList::ReleaseToSpans), for a large chunk the type in its    *)
(* head, which switch_heap_type() changes.  A program that is strict never *)
(* comes to that: its small objects are all of the default type, and it    *)
(* switches no type.                                                       *)
(*                                                                         *)
(* A span is named by its first page.  The page map holds that name where  *)
(* the code keeps the map up to date, and 0 for the entries inside a span  *)
(* which the code lets go stale.  A free list is the set of its spans:     *)
(* which of the spans of one list is taken is left open.  There is no heap *)
(* limit, as by default (EnsureLimit).                                     *)
(***************************************************************************)
EXTENDS Integers, Sequences, FiniteSets, FiniteSetsExt

CONSTANTS
    NPages, MixedPages,  \* bound: the address space, when strict and otherwise
    kMaxPages,           \* spans of this length and more are large
    kMinSystemAlloc,
    MaxDrift,            \* bound: how far the counters of a heap may leave 0 .. NPages
    CoalesceInterval,    \* kForcedCoalesceInterval, in pages
    Lengths, MixedLengths,   \* the lengths asked for, when strict and otherwise
    class_to_pages,      \* the length of the spans of each size class
    Programs             \* of BOOLEAN: is the program strict?

Classes == DOMAIN class_to_pages

ASSUME PageHeapAssumption ==
    /\ {NPages, MixedPages, kMaxPages, kMinSystemAlloc, CoalesceInterval} \subseteq Nat \ {0}
    /\ MixedPages <= NPages
    /\ MaxDrift \in Nat
    /\ Lengths \cup MixedLengths \subseteq Nat \ {0}
    /\ class_to_pages \in [Classes -> Nat \ {0}]
    /\ Classes \subseteq Nat \ {0}
    /\ Programs \subseteq BOOLEAN

VARIABLES
    ph,           \* the heaps: spans, page map, statistics
    mapping,      \* the mapping the kernel was asked for, page by page
    cached,       \* pagemap_cache_, 0 for nothing
    populating,   \* the type of the list whose Populate() has yet to prepare the span
    aggressive,   \* aggressive_decommit_
    releases,     \* TCMalloc_SystemRelease() works on this system
    strict

vars == <<ph, mapping, cached, populating, aggressive, releases, strict>>

Types == {"RESTRICT", "OPEN"}
DEFAULT_HEAP_TYPE == "OPEN"
Pages == 1 .. NPages
NoSpan == [start |-> 0, length |-> 0, location |-> "NONE", heaptype |-> "OPEN",
           list |-> "OPEN", from |-> "OPEN", sizeclass |-> 0]

Init ==
    /\ ph = [span |-> [i \in Pages |-> NoSpan],
             pagemap |-> [p \in 0 .. NPages + 1 |-> 0],
             stats |-> [h \in Types |-> [system |-> 0, free |-> 0, unmapped |-> 0,
                                          committed |-> 0]],
             loop |-> "ENDS"]      \* of ReleaseAtLeastNPages(), or "SPINS"
    /\ mapping = [p \in Pages |-> "NONE"]
    /\ cached = [p \in Pages |-> 0]
    /\ populating = [i \in Pages |-> "NONE"]
    /\ aggressive \in BOOLEAN /\ releases \in BOOLEAN
    /\ aggressive => releases      \* it has no effect otherwise
    /\ strict \in Programs

-----------------------------------------------------------------------------
(* Spans, lists and the page map.  s is the value of ph, h the heap whose  *)
(* member function is called, i a span.                                    *)

Live(s) == {i \in Pages : s.span[i].location # "NONE"}
InUse(s) == {i \in Pages : s.span[i].location = "IN_USE"}
Listed(s, h) == {i \in Live(s) \ InUse(s) : s.span[i].list = h}
Last(sp) == sp.start + sp.length - 1
PagesOf(sp) == sp.start .. Last(sp)

\* The page map when the pages of a span lead to it at both ends only.
Ends(pagemap, sp) ==
    [p \in DOMAIN pagemap |-> CASE p \in {sp.start, Last(sp)} -> sp.start
                                 [] p \in sp.start + 1 .. Last(sp) - 1 -> 0
                                 [] OTHER -> pagemap[p]]

\* NewSpan(), its fields and RecordSpan().
NewSpan(s, sp) ==
    [s EXCEPT !.span[sp.start] = sp, !.pagemap = Ends(@, sp)]

\* Mutant: pages that leave a normal list stay counted.
RemoveKeepsFree(s, h, i) ==
    IF s.span[i].location = "NORMAL" THEN s
    ELSE [s EXCEPT !.stats[h].unmapped = @ - s.span[i].length]

RemoveFromFreeList(s, h, i) ==
    LET n == s.span[i].length
    IN  IF s.span[i].location = "NORMAL"
        THEN [s EXCEPT !.stats[h].free = @ - n]
        ELSE [s EXCEPT !.stats[h].unmapped = @ - n]

PrependToFreeList(s, h, i) ==
    LET n == s.span[i].length
        t == [s EXCEPT !.span[i].list = h]
    IN  IF s.span[i].location = "NORMAL"
        THEN [t EXCEPT !.stats[h].free = @ + n]
        ELSE [t EXCEPT !.stats[h].unmapped = @ + n]

MayMergeSpans(s, i, j) ==
    /\ s.span[i].heaptype = s.span[j].heaptype
    /\ IF aggressive THEN s.span[j].location # "IN_USE"
                     ELSE s.span[i].location = s.span[j].location

\* The span i takes over its neighbour j.
Absorb(s, h, i, j) ==
    LET a == s.span[i]
        b == s.span[j]
        t == RemoveFromFreeList(s, h, j)
        sp == [a EXCEPT !.start = Min({a.start, b.start}), !.length = a.length + b.length]
    IN  [t EXCEPT !.span = [@ EXCEPT ![Max({i, j})] = NoSpan, ![Min({i, j})] = sp],
                  !.pagemap = Ends(@, sp)]

\* Mutant: without temp_committed.
DecommitTwice(s, h, i, before) ==
    IF aggressive /\ releases
    THEN [s EXCEPT !.span[i].location = "RETURNED",
                   !.stats[h].committed = @ - s.span[i].length]
    ELSE s

\* DecommitSpan() when the merged span is released as a whole; what was
\* released before is not counted again (temp_committed).
DecommitMerged(s, h, i, before) ==
    IF aggressive /\ releases
    THEN [s EXCEPT !.span[i].location = "RETURNED",
                   !.stats[h].committed = @ - (s.span[i].length - before)]
    ELSE s

\* Mutant: only the preceding span is looked at.
MergePreceding(s, h, i) ==
    LET prev == s.pagemap[s.span[i].start - 1]
        joins == prev # 0 /\ MayMergeSpans(s, i, prev)
        before == IF joins /\ s.span[prev].location = "RETURNED"
                  THEN s.span[prev].length ELSE 0
        k == IF joins THEN prev ELSE i
        s1 == IF joins THEN Absorb(s, h, i, prev) ELSE s
    IN  PrependToFreeList(DecommitMerged(s1, h, k, before), h, k)

MergeIntoFreeList(s, h, i) ==
    LET prev == s.pagemap[s.span[i].start - 1]
        next == s.pagemap[Last(s.span[i]) + 1]
        joins(j) == j # 0 /\ MayMergeSpans(s, i, j)
        before(j) == IF joins(j) /\ s.span[j].location = "RETURNED"
                     THEN s.span[j].length ELSE 0
        k == IF joins(prev) THEN prev ELSE i
        s1 == IF joins(prev) THEN Absorb(s, h, i, prev) ELSE s
        s2 == IF joins(next) THEN Absorb(s1, h, k, next) ELSE s1
    IN  PrependToFreeList(DecommitMerged(s2, h, k, before(prev) + before(next)), h, k)

\* What becomes of a span in use is told apart only in a strict program.
Owner(h) == IF strict THEN h ELSE DEFAULT_HEAP_TYPE

\* Mutant: the span keeps its length.
ShortenNot(s, i, n) == s

\* A span i without the pages after the n-th.
Shorten(s, i, n) ==
    LET sp == [s.span[i] EXCEPT !.length = n]
    IN  [s EXCEPT !.span[i] = sp, !.pagemap = Ends(@, sp)]

\* The first n pages of a free span are taken and, if released, committed
\* again; the rest goes back to the list of its length, with the type of the
\* heap that carves.
Carve(s, h, i, n) ==
    LET sp == s.span[i]
        t == [RemoveFromFreeList(s, h, i)
                EXCEPT !.span[i].location = "IN_USE", !.span[i].from = Owner(h), !.span[i].list = "OPEN"]
        rest == [sp EXCEPT !.start = i + n, !.length = sp.length - n, !.heaptype = h]
        u == IF sp.length = n THEN t
             ELSE PrependToFreeList(NewSpan(Shorten(t, i, n), rest), h, i + n)
    IN  IF sp.location = "RETURNED" THEN [u EXCEPT !.stats[h].committed = @ + n] ELSE u

\* A span in use is cut after n pages; both parts are in use.
Split(s, h, i, n) ==
    NewSpan(Shorten(s, i, n),
            [s.span[i] EXCEPT !.start = i + n, !.length = @ - n, !.heaptype = h])

-----------------------------------------------------------------------------
(* Returning memory to the system.                                         *)

Normal(s, h) == {i \in Listed(s, h) : s.span[i].location = "NORMAL"}

ReleaseLastNormalSpan(s, h, i) ==
    LET n == s.span[i].length
        t == RemoveFromFreeList([s EXCEPT !.stats[h].committed = @ - n], h, i)
    IN  MergeIntoFreeList([t EXCEPT !.span[i].location = "RETURNED"], h, i)

Lists == 1 .. kMaxPages
ListOf(sp) == Min({sp.length, kMaxPages})

\* A round of the loop that releases num pages: the last span of a list that
\* this pass over the lists has not looked at yet or, when there is none, the
\* test with which the next pass begins.  A system that does not take the span
\* ends it.  The code tests free_bytes and not the lists: with no span to
\* release and free_bytes not 0 (it is unsigned) the passes never end.
ReleaseRound(r, h, num) ==
    LET ahead == {i \in Normal(r.s, h) : ListOf(r.s.span[i]) \in r.left}
        i == CHOOSE x \in ahead : TRUE
    IN  IF r.over = "YES" THEN r
        ELSE IF r.released >= num \/ (ahead # {} /\ ~releases) THEN [r EXCEPT !.over = "YES"]
        ELSE IF ahead # {}
        THEN [s |-> ReleaseLastNormalSpan(r.s, h, i),
              released |-> r.released + r.s.span[i].length,
              left |-> r.left \ {ListOf(r.s.span[i])}, over |-> "NO"]
        ELSE IF r.s.stats[h].free = 0 THEN [r EXCEPT !.over = "YES"]
        ELSE IF Normal(r.s, h) # {} THEN [r EXCEPT !.left = Lists]
        ELSE [r EXCEPT !.over = "YES", !.s = [@ EXCEPT !.loop = "SPINS"]]

\* What is there after the loop; a pass that finds a span releases one, each
\* is released once and every second round at least does, so that many rounds
\* are enough.
ReleaseAtLeastNPages(s, h, num) ==
    LET round[k \in 0 .. 2 * NPages + 2] ==
            IF k = 0 THEN [s |-> s, released |-> 0, left |-> {}, over |-> "NO"]
            ELSE ReleaseRound(round[k - 1], h, num)
    IN  round[2 * NPages + 2]

\* IncrementalScavenge() releases a span when scavenge_counter_ has run out;
\* whether it has is a free choice.
IncrementalScavenge(s, h, due) ==
    IF due THEN ReleaseAtLeastNPages(s, h, 1).s ELSE s

Delete(s, h, i, due) ==
    LET t == [s EXCEPT !.span[i].location = "NORMAL", !.span[i].sizeclass = 0,
                       !.span[i].from = "OPEN"]
    IN  IncrementalScavenge(MergeIntoFreeList(t, h, i), h, due)

-----------------------------------------------------------------------------
(* Allocating pages.                                                       *)

\* The spans that SearchFreeAndLargeLists() may carve: of the shortest length
\* that has a list, normal before returned; AllocLarge(): the best fit, and
\* of several the one at the lowest address.
SearchFreeAndLargeLists(s, h, n) ==
    LET long == {i \in Listed(s, h) : s.span[i].length >= n}
        best == {i \in long : \A j \in long : s.span[i].length <= s.span[j].length}
        normal == best \cap Normal(s, h)
    IN  IF \E i \in best : s.span[i].length < kMaxPages
        THEN IF normal # {} THEN normal ELSE best
        ELSE {i \in best : \A j \in best : s.span[i].start <= s.span[j].start}

\* The places at which the system may give n pages.
Unmapped(m, n) ==
    {p \in Pages : /\ p + n - 1 <= IF strict THEN NPages ELSE MixedPages
                   /\ \A q \in p .. p + n - 1 : m[q] = "NONE"}

\* GrowHeap(): kMinSystemAlloc pages, or just n.  The new pages are freed as
\* a span in use; when pagemap_->Ensure() finds no memory for their entries
\* they are counted but belong to no span, and are lost.  The heaps and the
\* mapping that may result, and whether the heap has grown.
GrowHeap(s, m, h, n) ==
    LET most == IF n > kMinSystemAlloc THEN n ELSE kMinSystemAlloc
        ask == IF Unmapped(m, most) # {} THEN most ELSE n
        counted == [s EXCEPT !.stats[h].system = @ + ask, !.stats[h].committed = @ + ask]
        MapAs(p, x) == [q \in Pages |-> IF q \in p .. p + ask - 1 THEN x ELSE m[q]]
        Grown(p) ==
            LET t == NewSpan(counted, [NoSpan EXCEPT !.start = p, !.length = ask,
                                                     !.location = "IN_USE", !.heaptype = h])
            IN  {<<Delete(t, h, p, due), MapAs(p, h), "GROWN">> : due \in BOOLEAN}
    IN  IF Unmapped(m, ask) = {} THEN {<<s, m, "FAILED">>}
        ELSE UNION {Grown(p) \cup {<<counted, MapAs(p, "LOST"), "FAILED">>}
                      : p \in Unmapped(m, ask)}

\* Lots of free pages, of which some are released, and the heap is about to
\* grow across a multiple of the interval.
MustCoalesce(s, h, n) ==
    LET st == s.stats[h]
    IN  /\ st.free # 0 /\ st.unmapped # 0
        /\ st.free + st.unmapped >= st.system \div 4
        /\ st.system \div CoalesceInterval # (st.system + n) \div CoalesceInterval

\* Everything PageHeap::New() may lead to: the heaps, the mapping and the span,
\* 0 when there is none.
New(s, m, h, n) ==
    LET Carved(t, mm) == {<<Carve(t, h, i, n), mm, i>> :
                             i \in SearchFreeAndLargeLists(t, h, n)}
        s1 == IF MustCoalesce(s, h, n) THEN ReleaseAtLeastNPages(s, h, NPages).s ELSE s
        found == IF Carved(s, m) # {} THEN Carved(s, m) ELSE Carved(s1, m)
    IN  IF found # {} THEN found
        ELSE UNION {IF g[3] = "GROWN" THEN Carved(g[1], g[2]) ELSE {<<g[1], g[2], 0>>}
                      : g \in GrowHeap(s1, m, h, n)}

-----------------------------------------------------------------------------
(* The callers.                                                            *)

\* The end of an operation under pageheap_lock, which leaves s, m and c.  One
\* that never ends keeps the lock, and nobody sees what it has done so far.
Unlock(s, m, c) ==
    IF s.loop = "ENDS" THEN ph' = s /\ mapping' = m /\ cached' = c
    ELSE ph' = [ph EXCEPT !.loop = "SPINS"] /\ UNCHANGED <<mapping, cached>>

\* Mutant: a cached size class stays.
PagesUncached(h, n) ==
    \E r \in New(ph, mapping, h, n) :
        /\ Unlock(r[1], r[2], cached)
        /\ UNCHANGED <<populating, aggressive, releases, strict>>

\* do_malloc_pages() and SpanToMallocResult().
do_malloc_pages(h, n) ==
    \E r \in New(ph, mapping, h, n) :
        /\ Unlock(r[1], r[2], [p \in Pages |-> IF p = r[3] THEN 0 ELSE cached[p]])
        /\ UNCHANGED <<populating, aggressive, releases, strict>>

\* do_memalign() beyond a page: n pages at a multiple of align pages are cut
\* out of more, and the ends are freed.
CutAligned(r, h, n, align, due1, due2) ==
    IF r[3] = 0 THEN Unlock(r[1], r[2], cached)
    ELSE LET i == CHOOSE p \in r[3] .. r[3] + align - 1 : p % align = 0
             s1 == IF i = r[3] THEN r[1]
                   ELSE Delete(Split(r[1], h, r[3], i - r[3]), h, r[3], due1)
             s2 == IF s1.span[i].length > n
                   THEN Delete(Split(s1, h, i, n), h, i + n, due2) ELSE s1
         IN  Unlock(s2, r[2], [cached EXCEPT ![i] = 0])

do_memalign(h, n, align) ==
    /\ \E r \in New(ph, mapping, h, n + align), due1, due2 \in BOOLEAN :
          CutAligned(r, h, n, align, due1, due2)
    /\ UNCHANGED <<populating, aggressive, releases, strict>>

\* The part of CentralFreeList::Populate() under pageheap_lock, with
\* RegisterSizeClass().
Populate(h, cl) ==
    /\ strict => h = DEFAULT_HEAP_TYPE
    /\ \E r \in New(ph, mapping, h, class_to_pages[cl]) :
          IF r[3] = 0 THEN Unlock(r[1], r[2], cached) /\ UNCHANGED populating
          ELSE LET pages == PagesOf(r[1].span[r[3]])
               IN  /\ Unlock([r[1] EXCEPT !.span[r[3]].sizeclass = cl,
                                          !.pagemap = [p \in DOMAIN @ |->
                                                         IF p \in pages THEN r[3] ELSE @[p]]],
                             r[2], cached)
                   /\ populating' = IF r[1].loop = "ENDS"
                                    THEN [populating EXCEPT ![r[3]] = h] ELSE populating
    /\ UNCHANGED <<aggressive, releases, strict>>

\* The rest of it without the lock: the type of the list, and the size class of
\* all pages in the cache.  Until then nobody has an object of the span.
Populated(i) ==
    /\ populating[i] # "NONE"
    /\ ph' = [ph EXCEPT !.span[i].heaptype = populating[i]]
    /\ cached' = [p \in Pages |-> IF p \in PagesOf(ph.span[i]) THEN ph.span[i].sizeclass
                                  ELSE cached[p]]
    /\ populating' = [populating EXCEPT ![i] = "NONE"]
    /\ UNCHANGED <<mapping, aggressive, releases, strict>>

\* do_free_helper() of a large chunk, and ReleaseToSpans() of a span whose
\* objects have all come back, which always names the default heap.
FreeSpan(h, i) ==
    /\ i \in InUse(ph) /\ populating[i] = "NONE"
    /\ ph.span[i].sizeclass # 0 => h = DEFAULT_HEAP_TYPE
    /\ strict => h = ph.span[i].from
    /\ \E due \in BOOLEAN : Unlock(Delete(ph, h, i, due), mapping, cached)
    /\ \A g \in Types, f \in {"free", "unmapped", "committed"} :      \* the bound
          ph'.stats[g][f] \in -MaxDrift .. NPages + MaxDrift
    /\ UNCHANGED <<populating, aggressive, releases, strict>>

\* MallocExtension::ReleaseToSystem().
ReleaseToSystem(n) ==
    /\ Unlock(ReleaseAtLeastNPages(ph, DEFAULT_HEAP_TYPE, n).s, mapping, cached)
    /\ UNCHANGED <<populating, aggressive, releases, strict>>

\* The endless loop.
Spin == ph.loop = "SPINS" /\ UNCHANGED vars

Asked == IF strict THEN Lengths ELSE MixedLengths

Next ==
    \/ /\ ph.loop = "ENDS"      \* pageheap_lock is free
       /\ \/ \E h \in Types, n \in Asked : do_malloc_pages(h, n) \/ do_memalign(h, n, 2)
          \/ \E h \in Types, cl \in {c \in Classes : class_to_pages[c] \in Asked} :
                Populate(h, cl)
          \/ \E h \in Types, i \in Pages : FreeSpan(h, i)
          \/ \E n \in Asked : ReleaseToSystem(n)
    \/ \E i \in Pages : Populated(i)
    \/ Spin

Spec == Init /\ [][Next]_vars

-----------------------------------------------------------------------------
(* Properties.                                                             *)

Given == {p \in Pages : mapping[p] # "NONE"}
Mapped == {p \in Pages : mapping[p] \in Types}
FreePages(h, where) ==
    Cardinality({p \in Pages : \E i \in Listed(ph, h) :
                     ph.span[i].location = where /\ p \in PagesOf(ph.span[i])})

\* Each page that the system has given, and for which the page map has an
\* entry, belongs to exactly one span, whatever was carved, split and merged,
\* in both heaps; a page lost to a failing Ensure() belongs to none.  The page
\* map leads from the first and the last page of a span to it, from every page
\* when objects lie on them, and from a page next to the mapped ones, a lost
\* one included, to no span.
SpansTile ==
    /\ \A p \in Pages :
          Cardinality({i \in Live(ph) : p \in PagesOf(ph.span[i])})
              = IF p \in Mapped THEN 1 ELSE 0
    /\ \A i \in Live(ph) :
          LET sp == ph.span[i]
          IN  \A p \in IF sp.sizeclass # 0 THEN PagesOf(sp) ELSE {sp.start, Last(sp)} :
                 ph.pagemap[p] = i
    /\ \A p \in (0 .. NPages + 1) \ Mapped : ph.pagemap[p] = 0

\* CheckList() and the assertions of the page heap: the counters of a heap
\* agree with each other even when spans of the other heap are freed to it
\* (page_heap.cc:322), and with its lists when they are not.  Over both heaps
\* they agree with the lists whoever frees what where, and the pages lost to a
\* failing Ensure() stay counted.
StatsAgree ==
    LET Total(f) == ph.stats["RESTRICT"][f] + ph.stats["OPEN"][f]
        Listing(loc) == FreePages("RESTRICT", loc) + FreePages("OPEN", loc)
    IN  /\ \A h \in Types :
              LET st == ph.stats[h]
              IN  /\ st.unmapped + st.committed = st.system
                  /\ strict => /\ st.free = FreePages(h, "NORMAL")
                               /\ st.unmapped = FreePages(h, "RETURNED")
        /\ Total("free") = Listing("NORMAL")
        /\ Total("unmapped") = Listing("RETURNED")
        /\ Total("system") = Cardinality(Given)

\* The loop of ReleaseAtLeastNPages(), which runs under pageheap_lock while
\* free_bytes is positive, ends in a strict program, whether it is asked for by
\* the program, by a scavenging free or by a forced coalescing.  It is not so
\* when spans are freed to the other heap: see the README.
LoopEnds == strict => ph.loop = "ENDS"

\* "free spans are maximally coalesced": in a strict program no two free
\* neighbours could be one span.
Coalesced ==
    strict => \A i, j \in Live(ph) \ InUse(ph) :
        Last(ph.span[i]) + 1 = ph.span[j].start => ~MayMergeSpans(ph, i, j)

\* A size class that the cache holds for a page which free() may be called
\* with is that of the span which is there now, not of an earlier one, large
\* or of another class; the span that Populate() is about to prepare has no
\* object yet.
CachedClassFresh ==
    \A i \in {j \in InUse(ph) : populating[j] = "NONE"} :
        LET sp == ph.span[i]
        IN  \A p \in IF sp.sizeclass = 0 THEN {sp.start} ELSE PagesOf(sp) :
               cached[p] \in {0, sp.sizeclass}

\* page_heap.h:154, committed bytes are "always <= system_bytes_", and the
\* counters are unsigned.  This holds in a strict program only: see the README.
CommittedWithinSystem ==
    \A h \in Types : ph.stats[h].committed \in 0 .. ph.stats[h].system

=============================================================================
