# NightWatch: models, checks and proofs

NightWatch (`src/README.md`) extends a memory allocator with the management of
the CPU cache. It samples how the pages of an allocated chunk are referenced,
decides whether the chunk should be confined to a region of the last level cache
(*restrict mapping*) or may use all of it (*open mapping*), and tells the
allocator which mapping to give the next request from the same call stack. This
directory models the library's multi-thread version,
`src/nightwatch_beta_v2.0_parallel`, and the extended allocator under it,
`src/gperftools-2.4_NW_externed_v2.0/src` (file names below are relative to these
two), checks the models with TLC, and proves with TLAPS most of what the runs check.

## 1. Inventory

| component | state | operations | hard because |
|---|---|---|---|
| time event queue, `utl_event_queue.c` | sorted list of events, map owner -> event, queue state (empty, pending, active), one-shot interval timer, `queue_lock` | add, remove, pend, resume, SIGALRM handler | the signal arrives on any thread at any instruction, and is thrown away when the lock is held |
| locality monitor, `chunk_monitor.c` | per chunk: state, round, reference counters, cycle, lock; per page sample: state, timer flag, protection, lock | `monit_chunk`, `stop_monit_chunk`, `remove_sample_range`, fault handler, two timer handlers | faults of several threads, timers, freeing and hooked I/O meet on one chunk; three kinds of locks |
| page sample map, `page_sample_map.c` | page blocks in a hash map, per-thread hot block and free list | attach, detach, get | read in a signal handler without a lock |
| locality predictor, `chunk_predictor.c` | none of its own | `NightWatch_size_demand`, `_heap_type_hint`, `_sampling`, `_collect_sample`, `update_context_mapping_type` | works on a snapshot of shared state |
| locality profile, `locality_profile.c` | contexts by call stack, table of sizes, free lists | `NightWatch_get_alloc_context`, `update_s2t_map`, chunk structures | lookup and insertion are separate; values decay, wrap and divide |
| hash map, `utl_hash_map.c` | buckets, striped locks, key length | add, delete, find, rebuild | a rebuild changes how a slot is computed while other threads compute it |
| library hooks, `stdlib_hook.c` | nesting counter of the thread | `read`, `write`, `fread`, `fwrite`, `fopen`, `fclose` | the kernel must not meet a protected page |
| page heaps, `page_heap.cc` | per heap type: free lists of spans, statistics; shared: page map, cache of size classes | `New`, `Delete`, `Split`, `ReleaseAtLeastNPages`, called for large blocks, aligned blocks and spans of small objects | memory of two mappings must not mix in what used to be one heap; spans are freed to the heap the caller names |
| central lists, `central_freelist.cc` | per heap type and size class: spans, slots of whole chains, lock | `RemoveRange`, `InsertRange` | a list drops its lock half way, and takes slots from lists it holds no lock of |
| allocation hooks, `tcmalloc.cc` | per thread: nesting depth, pending answer of the predictor; per block: `extend_info` | `malloc`, `posix_memalign`, `realloc`, `free` | the library allocates through the functions it hooks; `extend_info` outlives its chunk |
| thread caches, `thread_cache.cc` | per thread and heap type: lists of free objects, budget | `Allocate`, `Deallocate`, `Scavenge` | budgets are stolen between threads |
| hardware counters, `llc_event_cntr.c`, `perf_event.c` | counter handles | init, start, read | input from PAPI |
| lifecycle, `nightwatch.c` | active flag | init, destroy | sequential |

How they interact: `malloc` asks the profile for a context, the predictor for a
size and a mapping, and, after allocating, calls `NightWatch_sampling`, which
skips the chunk or calls `monit_chunk`. The monitor protects sample pages; an
access faults (SIGSEGV) into `page_fault_handler`, which opens the page, takes
the reference and adds an event to the queue; the queue's SIGALRM handler runs
`burst_skip_handler`, which protects the page again. When enough references are
in, `page_sample_complete` evaluates the chunk through
`update_context_mapping_type` and, under restrict mapping, adds a revive event.
`free` calls `stop_monit_chunk`. Hooked I/O calls `remove_sample_range`.

What makes each correct: the queue loses no wakeup, keeps list, map and timer in
agreement and fires in order; the monitor leaves nothing behind when a chunk
goes, does not deadlock, ends its cycles and keeps sampling; the predictor
monitors only memory that belongs to the chunk, answers from the size table only
with a majority and follows the profile; the hash map finds what is in it, whatever
is rebuilt meanwhile; the page heaps account for every page once, in the map, the
lists and the statistics, and keep their locks for a while only; the central lists account
for every object; the hooks give the predictor's answer to the block it was made
for. Where these can go wrong is listed
under `hazards` in `PROJECT.json`.

## 2. Modules

**TimerService** is what the queue promises: a set of pending events, asked for,
cancelled, or fired in order of their time and at most one resolution early; it
fires in rounds of its own, so that an event cannot fire while it is cancelled, and a
firing cannot pass for a cancellation.

**TimeEventQueue** is `utl_event_queue.c`. Entering an operation with
`queue_lock`, each iteration of the trigger loop, the decision after it, and the
rearming of the timer are steps of their own (`pc`, with the C locals `old`,
`tv`, `todo`, `ret`), because the clock, the timer and SIGALRM
(`Tick`, `Expire`, `AlarmMissed`, `trigger_time_event`) move in between. `events`
is the list, `map` the keys of `private2event_map`, `timer` the expiry of
ITIMER_REAL. `dropped` is a history variable: a signal was thrown away after the
timer had been rearmed inside a pended section. `ArmedAhead` is about the interval
given to `setitimer()`: `timer` is the clock plus that interval. A handler runs inside
`TriggerHead`; what it does belongs to the monitor.

**ChunkMonitor** is `chunk_monitor.c` for one chunk. A thread's place in its
handler is `pc`, with the sample it works on, the caller of
`page_sample_complete()` and the answer it will return. `chunk->lock` is held
across a step only between evaluating a finished chunk and adding its revive
event, the place where `queue_lock` is wanted under it. The unlocked reading of
`chunk->state` is a step of its own. The queue appears as the number of events an
owner has (two events under one key are possible in the code, as its assertions
are compiled out), as `queue_lock`, and as `dropped`: the queue is without a wakeup
because a removal, of this chunk's events or of another chunk's (`OtherChunk`), resumed
it inside a pended section, which is what `WakeupOrDropped` of the queue leaves open. No
event fires until somebody rearms the timer. `stop_monit_chunk` needs all threads to be
outside fault handlers on the chunk, since the program does not access memory it
frees; `remove_sample_range` does not. The chunk structure's initial state is
arbitrary because `chunk_alloc()` does not set it.

**LocalityPredictor** is `locality_profile.c` and `chunk_predictor.c` around a
request. Each section under a lock is a step; what is read in one and used in
another is in `req`, the thread-local snapshot included. `predict_type` of the
snapshot is never written by the code and so keeps its zeros, which mean restrict
mapping. Integers wrap at `IntWidth` bits. Miss ratios are free.

**SampleLayout** is the address arithmetic: alignment, `get_sample_addr()`, and the
walk of `remove_sample_range()`. The number of samples is any number up to the
number of pages, which includes what `get_nr_sample()` computes.

**HashMap** is `utl_hash_map.c`. Reading `key_len`, reading `key_mask` with the
computation of the slot, and taking the slot's lock are three steps, as they are in
the code; a rebuild takes the locks one by one, and its new `key_len` and `key_mask`
become visible one after the other. `list_add` to `hmap->members`, which no lock
guards, is two steps, so that two additions can lose a member. `get_map_slot` is the
code's arithmetic on words of `WordBits` bits. The two kinds of clients are the event
queue (`queue_lock` around every call, deletions) and the page blocks and contexts
(look up, add if missing, no lock around the two, no deletions); `client` picks one
initially. `torn` is history: a member was put into a slot computed from one length
and the other's mask. A read past the end of a chain, which `get_map_member()` makes
before it returns NULL, is taken to differ from the key.

**PageHeap** is `page_heap.cc` with its callers. What runs under
`pageheap_lock` is one action; inside it operators pass the value of
`ph` along as the C functions pass `this`. Only `Populate()` goes on without the lock,
to write the span's type and the size class cache (`Populated`). A span is named by its
first page; the page map holds names where the code keeps it current and 0 where it lets
it go stale, so that a model step that relied on a stale entry would lose a neighbour and
break `SpansTile` or `Coalesced`. When the page map cannot get memory for the entries of
new pages (`pagemap_->Ensure()`), the pages are counted and belong to no span: their
`mapping` is `"LOST"`. `Init` picks `aggressive_decommit_`, whether the system
can release memory, and whether the program is `strict`; a program that switches the
first while it runs is not modelled. The code frees every span of
small objects to the default heap (`central_freelist.cc:145`) and a large block to the
heap its head names, which `switch_heap_type()` may have changed. A strict program is one
that never frees a span to another heap by this: its small objects are all of the default
type and it switches no type. Only there can the two heaps be told apart by their
statistics.
The loop of `ReleaseAtLeastNPages` is a function of the number of rounds done, a round
being a span released or the test with which a pass over the lists begins. The code tests
`free_bytes` and not the lists; where the counter is positive and the lists are empty, the
loop never ends, `pageheap_lock` is never released (`ph.loop = "SPINS"`), and the only
steps left are those that need no lock.
The pages on a list are counted as a set of pages (`FreePages`).

**CentralFreeList** is `central_freelist.cc` for several lists and threads. The places
where a list drops its lock (`Populate`, the page heap call of `ReleaseToSpans`, and
`LockInverter` in `ShrinkCache`) separate the actions. Objects are not told apart
beyond the span they are from; a sum of them is the cardinality of a set of units
(`Total`), which the proofs can reason about. `Lists` are pairs of heap type and class; evictions
pick lists of the default type only, as `EvictRandomSizeClass` does. A chain that is
inserted may hold objects of the other type's spans (`Origins`), whose heads
`switch_heap_type()` has changed. A step that the code makes under the list's lock is
guarded by the lock; where `LockInverter` has lost it to another thread, the thread stops
there: what two threads do in one critical section is not modelled, and nothing is claimed
for such programs but the violation itself.

**AllocHook** is the part of `tcmalloc.cc` that calls the predictor, with
`NightWatch_sampling`, `NightWatch_collect_sample`, `chunk_alloc` and `chunk_free`.
`calls[t]` is the stack of calls a thread is in, and each keeps the answer given to
it, for comparison with the one variable, `private`, in which the code keeps it.
A new block's head holds what was there before, or, when the allocator has cut its
memory otherwise, anything (`Junk`). Where the code follows a head that names no
chunk of the block, or adds to a list that was not initialised, nothing can be
said about the program any more: `halted` says which, and the behaviour ends.

**MCTimeEventQueue**, **MCChunkMonitor**, **MCLocalityPredictor**,
**MCPageHeap**, **MCCentralFreeList** and **MCAllocHook** give symmetry sets, the page accesses of the
threads, the size classes and the sets of lists. The proofs about a module `X` are in **XProofs**:
**TimeEventQueueProofs**, **ChunkMonitorProofs**, **LocalityPredictorProofs**,
**SampleLayoutProofs**, **HashMapProofs**, **PageHeapProofs**,
**CentralFreeListProofs** and **AllocHookProofs**.
Operators introduced by a comment "Mutant" or "As X, but" are wrong variants of the definition
that follows; no specification uses them. They document which mistake each
property catches, and the list is in `PROJECT.json`.

## 3. Runs

| run | instance | shows |
|---|---|---|
| `queue` | 2 threads, 3 owners, delays 1, 2 and 4, clock to 9, all calls, fair | `MapMatchesQueue`, `Sorted`, `TimerForHead`, `WakeupOrDropped`, `ArmedAhead`, `EventuallyTriggered`; TimeEventQueue implements TimerService |
| `monitor_apart` | 2 threads on different pages, hooked I/O, other chunks, fair | everything about a single sample: `FaultFindsWaiting`, `TimerFindsSkipping`, `OneEventPerSample`, `RemovedSampleIsQuiet`, `SamplingContinues` |
| `monitor_two_revives` | 2 threads on different pages | violated: `OneRevivePerChunk` |
| `monitor_overshoot` | 2 threads on different pages | violated: `CycleNotOvershot` |
| `predictor_shared` | 2 threads, 1 context key, 1 size, ints of 2 bits | `IntervalPositive`, `AnswerHasMajority` |
| `predictor_alone` | 1 thread that keeps asking, sizes below, between and at the thresholds, ints of 4 bits | `Rechecked` |
| `layout_samples` | pages of 4 bytes, all starts in a page, 5 sizes | `SamplesInChunk`, `SamplesDistinct`, `AlignedBufferOpen` |
| `hash_map` | 2 threads, 3 keys of 6 bits, 2 locks, 4 members, both clients | `LookupMissesOnlyByRace`, `FoundMemberStays`, `SlotInTable`, `NoDeadlock` |
| `page_heap` | 4 pages (3 when not strict), both types, 2 size classes | `SpansTile`, `StatsAgree`, `LoopEnds`, `Coalesced`, `CachedClassFresh` |
| `central_lists` | 2 threads, 2 classes of the default type, 3 spans of 2 objects | `ObjectsAccounted`, `ListsAgree`, `SlotsMoved`, `NeverTwoLocks`, no deadlock |
| `central_lock_inverter` | the same with one list of the other type | violated: `NeverTwoLocks` |
| `alloc_hook` | 2 threads, 2 blocks, 2 chunks, 2 calls at once, one failure | `DepthBalanced`, `AnswerReachesBlock`, `ChunksAccounted` |

The three violated properties are disagreements between the code and what is written
about it, quoted in `findings` of `PROJECT.json`:

- `central_lock_inverter`: `ShrinkCache` knows the class of the list whose lock is
  held and not its heap type. A list of restrict mapping that evicts unlocks the wrong
  lock, waits for the victim's with its own held, and leaves a lock of the default type
  locked when it is done.
- `monitor_two_revives`: `page_sample_complete()` looks at `chunk->state` before it takes
  `chunk->lock` (`chunk_monitor.c:246`). A thread that looked in time and waited for the
  lock evaluates and revives a chunk just finished by another thread (line 278), and the
  owner is added to the queue's map a second time, against the assertion of
  `hash_map_add_member()`.
- `monitor_overshoot`: a reference is counted and the count compared under two holds of
  `chunk->lock` (`chunk_monitor.c:253`). Two references counted between two looks take
  `i_total_ref` past `nr_sample`; the equality that ends a cycle is never true again and
  the chunk is never evaluated.

### Statements that do not hold

The properties that hold are the strongest ones found; what the comments, the
assertions and the documentation say beyond them is refuted by TLC. Each of these
is a change of constants or of the invariant of a run above:

- `queue` with `AlarmTriedLater`, and of the removals only those inside a
  pended section: a SIGALRM thrown away there is not "tried later"
  (`utl_event_queue.c:274`), because the removal had resumed the queue and the
  caller's `resume_time_event_queue()` then does nothing. `WakeupOrDropped` says
  that there is no other way to lose a wakeup than this one and line 239;
- `monitor_apart` with `TouchesShared`: `FaultFindsWaiting` fails
  (`chunk_monitor.c:463`: of two threads that fault on one page the second finds a
  sample that is not waiting), `OneEventPerSample` fails with it, and so does
  `RemovedSampleIsQuiet` (`chunk_monitor.c:461`: hooked I/O detaches a sample a thread
  has just faulted on);
- `monitor_apart` with `NoDeadlock`: `page_sample_complete()` wants `queue_lock` with
  `chunk->lock` held (`chunk_monitor.c:296`), `burst_skip_handler()` the reverse;
- `monitor_apart` with `SamplingContinues` without one of its exceptions: the queue's
  wakeup can be lost, the deadlock above stops both handlers, and a thread that has read
  the chunk's state as finished gives its sample up although `revive_sample_handler()`
  has revived the chunk meanwhile (`chunk_monitor.c:246`);
- `predictor_shared` with `HintFollowsProfile`: the hint is taken from a snapshot
  whose `predict_type` is never written (`locality_profile.c:256`), so it does not
  depend on the profile;
- `predictor_alone` with `MonitoredChunksPadded` fails as soon as `skip_interval`, which
  is doubled at every evaluation, has left the range of an int (`chunk_predictor.c:183`),
  and with two threads and two chunks also before (`chunk_predictor.c:63`: `sample_skip`
  goes from 1 to -1, where small chunks are monitored without having been enlarged);
- `layout_samples` with `BufferOpen`: the walks of `remove_sample_range()` and
  `pre_walk()` miss the last page of a buffer that starts inside a page and ends just
  inside another (`chunk_monitor.c:753`);
- `page_heap` with `CommittedWithinSystem`: when a span is freed to the heap it is not
  from, `committed_bytes` of a heap, "always <= system_bytes_" (`page_heap.h:154`) and
  unsigned, leaves its range, that is, wraps. `StatsAgree` says what
  is left: the sums over both heaps, and each heap's own balance;
- `page_heap` with `ph.loop = "ENDS"` for all programs: a span that is freed to the heap it is not
  from merges there with a neighbour on a list of its own heap, and the neighbour's pages
  are taken off the wrong `free_bytes`; its own heap is left with a positive counter and
  no span, and `ReleaseAtLeastNPages` (`page_heap.cc:493`) of that heap passes over the
  empty lists for ever with `pageheap_lock` held;
- `page_heap` with the requirement that the pages of a span in use are mapped as its heap
  type says: such a free gives restrict memory to the default heap, which carves it for
  open requests (`central_freelist.cc:145`). Only a strict program keeps the mappings
  apart, and for it this says no more than that the heaps are separate, so it is not a
  property here.

With two threads on different pages everything that concerns a single sample of the
monitor holds, but for the three ways of giving one up, while what is kept in the
shared chunk does not. In the hash map a lookup misses a member that is there by two
races only, both named in `LookupMissesOnlyByRace`, and not by a rebuild as such; two
threads that miss the same key both add it, and the later member hides the earlier.
In the hooks, blocks of requests that are tiny, nested or answered from the size table
have heads nobody wrote (`chunk_predictor.c:55`): freeing one can end in `halted`.

**Bounds.** *Queue*: three owners put an insertion before, between and after others;
two threads suffice because the lock admits one and the other takes the signal;
delays 1, 2 and 4 with resolution 1 make some events due at once, and let an alarm for
one event find a later one that must wait;
`MaxTime` exceeds `MaxDue` so that the last event can become due; `MaxDrift` limits
how far the clock runs ahead of the time a holder read. *Monitor*: two samples are the
least with which a cycle needs references from both pages; `BaseCycle` 1 lets the first
cycle finish the chunk, and not every cycle does; references beyond `nr_sample + 1` are
not told apart; `MaxRevives` caps the chunk's revive events, of which the second is
already the violation. *Predictor*: thresholds and counters
are scaled (64 to 4, 10 to 2, 1024 to 2), keeping all orders between them and
letting halving truncate; an int has four bits, or two where two threads meet, so that
doubling leaves its range after a few rounds rather than 31, and the runs go on after
it has. *Layout*: a page of four bytes has every alignment
and remainder. *Hash map*: from a table of two slots, four members pass two
rebuilds; the three keys meet in one slot at some lengths and not at others; two locks
leave slots that share one. *Page heap*: four pages and lengths of one and two give a
span both neighbours, of either type; `kMaxPages` 2 puts them in both kinds of lists,
and `kMinSystemAlloc` 2 leaves a rest to carve; two size classes, one of one and one of
two pages, meet on one page. `MaxDrift` 0 stops a mixed program before a counter of one
heap wraps; below that the counters drift apart from the lists, far enough for the loop
to spin. With `MaxDrift` 1 the same properties pass, in a time near the limit of a run. *Central lists*: two classes, of which one has all its slots
and the other can gain one, are what an eviction needs, and two threads what it needs
to go wrong; three spans let one be empty, one partly used and one in the heap. *Hooks*: two
calls at once nest or run side by side; a second failure on a thread would show
nothing the first does not.

**Fairness.** *Queue*: the lock holder is scheduled, a pended section ends (its
callers loop over finite lists), time passes, the timer raises its signal, the signal
is delivered; no thread has to call anything. *Monitor*: a handler once entered
runs on (weak); a thread that wants `queue_lock` to add an event gets it if it is free
again and again (strong: the lock is a spin lock that the holders keep for a while), and an
event whose queue has its wakeup (`~dropped`) is fired if that is so again and again
(strong), which is what `EventuallyTriggered` gives for the queue. Nothing fires
while `dropped` holds, and nothing makes it end. No thread has to touch a page. *Predictor*: the premise of
`Rechecked` is a program that keeps asking. Deadlock checking is off in `monitor_apart`, because the lock order named above really
stops the program there, and in `hash_map` and `alloc_hook`, where the map is gone, its
members are used up, or the behaviour is `halted`; `NoDeadlock` of the hash map says
what deadlock would be.

## 4. Proofs

A run shows a property for the instance of its cfg; a theorem shows it for every value
of the constants that the module's assumptions allow. Each proof has the same shape: an
inductive invariant (`IInv`, or the parts named below), checked by TLC before it was proved; a
lemma for each action, or for each kind of step that several actions share; the theorem
`Spec => []IInv`; and for each property a theorem that takes it from the invariant.

| module | properties proved | beyond the module's assumptions |
|---|---|---|
| TimeEventQueue | `ArmedAhead`, `MapMatchesQueue`, `Sorted`, `TimerForHead`, `WakeupOrDropped`, `ServiceSpec`; `NoLostWakeup`, which is about programs without removals | none |
| ChunkMonitor, one sample | `FaultFindsWaiting`, `TimerFindsSkipping`, `OneEventPerSample`, `RemovedSampleIsQuiet` | `Apart`: no page is touched by two threads |
| ChunkMonitor, the chunk | `StopLeavesNothing` | `Alone`: one thread |
| LocalityPredictor | `IntervalPositive`, `AnswerHasMajority` | none |
| SampleLayout | `SamplesInChunk`, `SamplesDistinct`, `AlignedBufferOpen` | none |
| HashMap | `LookupMissesOnlyByRace`, `FoundMemberStays`, `SlotInTable`, `NoDeadlock` | none |
| PageHeap | `SpansTile`, `StatsAgree`, `CachedClassFresh`; for strict programs `LoopEnds`, `Coalesced` and the per-heap part of `StatsAgree` | none |
| CentralFreeList | `SlotsMoved`, `ObjectsAccounted`, `ListsAgree`, `NeverTwoLocks` | `DefaultOnly`: all lists are of the default heap type |
| AllocHook | `DepthBalanced`, `AnswerReachesBlock`, `ChunksAccounted` | none |

The hypotheses in the last column restrict what the theorems say. `Apart` is needed:
without it TLC refutes the properties. `DefaultOnly` is the program for which the locks of
the central lists work at all: in others `LockInverter` takes a lock away from another
thread, and switched blocks move between the lists. `Alone` leaves out every race of
threads on one chunk; what it still has are timers, faults and hooked I/O in any order, for
any number of samples and cycles. With two threads `StopLeavesNothing` fails for the
revive event added twice (`monitor_two_revives`). `monitor_apart` and `central_lists` are
instances of `Apart` and `DefaultOnly`.

The assumptions on constants are what the code has: positive sizes and thresholds, a
page that is not empty and small chunks of two pages, ids that are not taken for
threads, finitely many threads, lists and spans, and markers for a span that no list has
that are not lists. The bound `MixedPages` of a program that is not strict is within
`NPages`. `HashMapAssumption` says in addition that the
members fit in half of what a word can number, which is so because each member is larger
than a byte of memory; it keeps `key_len` within a word.

**Event queue.** The properties are not inductive alone. That a queue with events has
its wakeup on the way once the lock is free depends on what the holder was doing: `IInv`
adds `HolderInside` (the loops run in the state the functions around them set, with a
`tv` that is not ahead of the clock), `StateMatchesTimer` (a pended queue has no timer,
an empty one no events, and an active queue in a pended section has its wakeup or has
dropped it), `PendedInside` and `PendedThroughout` (which calls can leave the queue
pended, and to whom an operation returns). `ArmedAhead` is a property of steps: `Rearmed`
has `~HeadDue`, so the head is more than a resolution after `tv`; what is left from the
time that is read to the head is positive. The list lemmas
(`InsertKeepsList`, `DropKeepsList`, `RemoveKeepsList`) say what insertion at the
searched position and removal do to sortedness and to the set of owners; the refinement
takes the list as the set of pending events and the two loops as the rounds in which
handlers are called (`Mode`), and maps each step to `Ask`, `Cancel`, `Fire`, `Pass`,
`Turn` or a stutter.

**Monitor.** `FaultInv` and `TimerInv` say for each place in the two handlers what the
sample they work on is like, `SampleInv` what a protected page and a pending event
exclude, and `HandlersApart` that the timer and a fault are not on the same sample; the
last needs `Apart`. An event set by a thread that has not noted it yet in `wait_timer`
(`Unnoted`) is the case a removal could miss. For one thread `AloneInv` adds the chunk:
`i_total_ref` equals `nr_sample` only inside the completion that will end the cycle, and
a revive event exists only for a finished chunk.

**Predictor.** `IntervalSet` is what makes the interval positive before another thread
makes the entry valid: every request past `update_s2t_skip_interval()`, and every
monitored chunk, has left one behind. `AnswerHasMajority` is inductive with it; its
step is the arithmetic of halving two counters with truncation.

**Layout.** `SamplesInv` puts the samples so far below the page where the next range
begins. The lemmas on rounding to pages, products and quotients carry the proof.

**Hash map.** A slot is computed from `key_len` and `key_mask` before its lock is taken.
`SlotInv` says that a slot computed from the length that is still current is in the
table, even if its mask was of another length; `MaskInv` that length and mask differ only
while a rebuild has every lock, by one bit; and `LockInv` who holds which lock. `FillInv`
bounds `key_len`: members are counted (`LinkInv`), and the table grows only while it has
fewer slots than twice the members. For `NoDeadlock`: the holder of a lock that is wanted
goes on, unless it is a rebuild collecting the locks; then it has lock 0, so the holder of
the lock it wants is no second rebuild, and goes on.

For the lookups the invariant follows the chains. `ChainInv` says that outside the walk
of a rebuild every member that `hmap->members` has, or will have when an addition under way
is done, is in the chain of its slot, unless it was put elsewhere (`torn`). The walk
itself is proved round by round: a member it has met is in its new chain, and moving
the next one takes none away. `FoundInv` says what a call has computed and found, and `SerialInv`
that with the event queue's lock nothing is put elsewhere and nothing is lost; from it
follows that the member to be deleted is still met.

**Page heaps.** An operation is one step of the model and a chain of calls in the code,
in whose middle the invariant does not hold: a span is off the lists and not in use yet,
or its neighbours have been joined and the statistics are behind. `HeapOK(s, m, X, h, d)` is
the invariant with these exceptions as parameters: the spans `X` need not be on their list,
coalesced or decommitted, and the balance of heap `h` is short by `d` pages. `IInv` is
`HeapOK` with none, together with what the size class cache holds. Each function
of the code has a lemma from `HeapOK` with some exceptions to `HeapOK` with others:
carving a span, the merge with the span before and the span after (with the pages that
were decommitted in the neighbour as the deficit), the return to the list, the release of
a span, growth. `Tiling` is its core: where two spans are joined, cut or
added, every page that had a span has one, and the page map still leads to it from its
first and its last page, and from all pages of a span of small objects. The loop that
releases is proved by induction over its rounds, with sets in place of predicates: a set
of numbers that has 0, and with each number the next, has all up to a bound (`UpTo`, from
the library's theorem on finite sets under inclusion); that the loop does not spin is
part of the same induction, as the counter of a strict program is positive only when its
lists are not empty. Lost pages are in no span and in no entry of the page map, so that
they are nobody's neighbours (`Covering`, `Led`), and stay in `system` and `committed`
(`SystemPages`). `Pending` says that a span which `Populate()` has yet to prepare is in use
and small, and `CachedFresh` excepts it. As the properties themselves,
`Apart`, `Compact` and the counters of one heap are about strict programs, and the rest is
about any program.

**Central lists.** `SlotInv` is `SlotsMoved` with the number of slots as a cardinality,
so that taking one from a list and giving it to another are the removal and the addition
of an element; `TypeOK` says which calls carry a whole chain and that a call still
looking has won none. `LockInv` (each lock is held by exactly the call at a place where
it should hold it) needs `DefaultOnly`, because only then does `LockInverter` unlock the
list that is locked. All the theorems have it as a hypothesis: where a lock can be lost, a
section between two operations on locks is no longer one step of the program.

`ObjectsInv` accounts for the objects. Those of a span that are outside are divided
into the shares of the lists (slots and threads) and of the calls (the chain in hand, and
what is still to be given to spans); a step moves objects between the share of one list,
the share of one call and the span. `FlowInv` says that only spans on a list have objects
outside, and only for that list, and that a span on its way between list and page heap is
with one call; `Balance` that `refcount` counts what is outside; `ListsAgree` is needed
with them, as a fetch takes the objects of the first span on `nonempty_`. The case in
which it all meets is the last object of a span coming back: its refcount is one, the call
that brings it has a share of at least one, so no slot, no thread and no other call has
any, and the span can go although other calls are half way. `FlowInv` has `DefaultOnly`
from `Origins`: objects reach a list of their own class and type only.

**Hooks.** `ThreadInv` says that only the outermost call of a thread can have an
answer, and none after a failure, which is why one variable suffices. `HeldLive` and
`HeldApart` say that calls hold different, live blocks, `FreeLists` and `ChunksHeld`
divide the chunk structures between free lists and blocks, and `HeadsWritten` is about
the heads that were written.

Only model-checked:

- `EventuallyTriggered`, `SamplingContinues` and `Rechecked`: liveness is out of the
  prover's reach;
- the three violations, which are facts about one instance.

## 5. Plan

1. **ThreadCache**: the lists of a thread per heap type, their limits, the stealing of
   budgets, and what a thread leaves behind when it ends (`thread_cache.cc:424` frees
   one of its two caches); **PageSampleMap**: blocks, the hot block, free lists.
2. Compositions: LocalityPredictor with ChunkMonitor for SIGALRM inside the
   predictor's locks; AllocHook with PageHeap for the heap type byte, which
   `do_memalign()` leaves unwritten, and `switch_heap_type()`; `struct timeval`
   arithmetic under TimeEventQueue.
3. Proofs for the modules above; of the present modules every safety property that a
   passing run checks is proved.

## 6. Not modelled

The hardware counters and PAPI (inputs, free choices in the models); CPU affinity;
formatting and statistics; the computation of a call stack's key; start and exit of
the library (`NightWatch_init`, `_destroy`, `time_event_queue_destroy`), which are
sequential; the serial version `nightwatch_v1.01_serial`; the kernel patch; size
classes and the bit layout of chunk heads; thread caches and the page sample map's
blocks, which are planned above.

Most of the repository's lines are vendored and have nothing of this program's own
logic: the profilers, the heap and leak checkers, the debug allocator, the base library
and the Windows port of gperftools, and the PAPI headers. They are left out for good,
so the models cover the parts that NightWatch added or changed and not a share of all
lines.
