----------------------------- MODULE AllocHook -----------------------------
(* The hooks that NightWatch puts around malloc() and free() (tcmalloc.cc):  *)
(* the head before each block, the nesting depth and the private pointer of  *)
(* each thread, and the chunk structures (locality_profile.c) that the       *)
(* predictor keeps for the blocks it has monitored.                          *)
(*                                                                          *)
(* What the predictor answers to a request is a free choice here             *)
(* (LocalityPredictor), and so is the block an allocation gets (PageHeap,    *)
(* CentralFreeList).  A block keeps the words of its head while it is free,  *)
(* except when its memory has been part of some other block meanwhile.       *)
EXTENDS Integers, Sequences, FiniteSets, FiniteSetsExt, SequencesExt

CONSTANTS
    Threads, Blocks,
    Chunks,    \* bound: the chunk structures that are ever made
    MaxCalls,  \* bound: calls under way, nested ones included
    MaxFailed, \* bound: requests for which there is no memory
    Null, Junk

ASSUME NotOrdinary == Null # Junk /\ {Null, Junk} \cap (Blocks \cup Chunks) = {}
ASSUME BoundsAssumption == MaxCalls \in Nat /\ MaxFailed \in Nat

\* DEFAULT_HEAP_TYPE, and the type for blocks that should not use the cache.
OPEN == 0
RESTRICT == 1
Types == {OPEN, RESTRICT}

\* What the predictor may answer: a type from its size table, or a context
\* that skips this chunk or wants it monitored.
Answers == [kind : {"table", "skip", "monitor"}, type : Types]
NoAnswer == [kind |-> "none", type |-> OPEN]

\* A block that is not in use, with what is left in its head.
Unused(ext) == [live |-> FALSE, kind |-> "none", ext |-> ext]

VARIABLES
    active,    \* NightWatch_active
    depth,     \* in_cache_manage of each thread
    private,   \* cache_manager_private
    calls,     \* the calls each thread is inside of, the innermost last
    failed,    \* ghost: requests of each thread that got no memory
    block,     \* each block: extend_info of its head and, as a ghost, the kind
               \* of answer its request got
    chunk_of,  \* the block a chunk structure is about: Null when it is on a
               \* free list, Junk before it is made
    free,      \* free_chunk of each thread
    inited,    \* the threads that have initialised free_chunk
    halted     \* ghost: why the program cannot go on

threadVars == <<depth, private, calls, failed>>
chunkVars == <<chunk_of, free, inited>>
vars == <<active, threadVars, block, chunkVars, halted>>

Init ==
    /\ active = FALSE
    /\ depth = [t \in Threads |-> 0]
    /\ private = [t \in Threads |-> NoAnswer]
    /\ calls = [t \in Threads |-> <<>>]
    /\ failed = [t \in Threads |-> 0]
    /\ block = [b \in Blocks |-> Unused(Null)]
    /\ chunk_of = [c \in Chunks |-> Junk]
    /\ free = [t \in Threads |-> {}]
    /\ inited = {}
    /\ halted = "no"

\* TCMallocGuard(): the library starts before the program's own threads.
Activate ==
    /\ ~ active
    /\ active' = TRUE
    /\ UNCHANGED <<threadVars, block, chunkVars, halted>>

----------------------------------------------------------------------------
(* Allocation.                                                              *)

\* A thread enters a call.
Enter(t, call) ==
    /\ MapThenSumSet(LAMBDA u : Len(calls[u]), Threads) < MaxCalls
    /\ calls' = [calls EXCEPT ![t] = Append(@, call)]
    /\ depth' = [depth EXCEPT ![t] = @ + 1]

\* ... and leaves the innermost one.
Leave(t) ==
    /\ calls' = [calls EXCEPT ![t] = Front(@)]
    /\ depth' = [depth EXCEPT ![t] = @ - 1]

Top(t) == Last(calls[t])

\* As Managed, but a nested request is asked about, too.
ManagedNested(t, tiny) == active /\ ~ tiny

\* A request that the predictor is asked about: neither tiny nor nested.
Managed(t, tiny) == active /\ ~ tiny /\ depth[t] = 0

\* notify_heap_type_manager_before_malloc(), for a request that will replace
\* the block old if there is one.
BeforeMalloc(t, op, old) ==
    \E tiny \in BOOLEAN :
      LET asked == Managed(t, tiny)
      IN  \E a \in IF asked THEN Answers ELSE {NoAnswer} :
            /\ Enter(t, [op |-> op, step |-> "before", answer |-> a, b |-> Null,
                         heap |-> OPEN, old |-> old])
            /\ private' = IF asked THEN [private EXCEPT ![t] = a] ELSE private

\* tc_malloc(), tc_calloc(), tc_new(), tc_memalign() and tc_valloc(), and the
\* one that survives a lack of memory, tc_posix_memalign().
tc_malloc(t) ==
    /\ \E op \in {"malloc", "posix_memalign"} : BeforeMalloc(t, op, Null)
    /\ UNCHANGED <<active, failed, block, chunkVars, halted>>

\* get_heap_type_hint()
HeapTypeHint(t) ==
    IF active /\ depth[t] = 1 THEN private[t].type ELSE OPEN

\* do_malloc() and do_memalign(): some free block of the heap the hint names,
\* whose extend_info is what an earlier use of the memory left there.
do_malloc(t) ==
    \E b \in Blocks, mixed \in BOOLEAN :
      /\ calls[t] # <<>> /\ Top(t).step = "before" /\ ~ block[b].live
      /\ block' = [block EXCEPT ![b] =
           [live |-> TRUE, kind |-> "none", ext |-> IF mixed THEN Junk ELSE @.ext]]
      /\ calls' = [calls EXCEPT ![t] =
           Front(@) \o <<[Top(t) EXCEPT !.op = "malloc", !.step = "after",
                                        !.b = b, !.heap = HeapTypeHint(t)]>>]
      /\ UNCHANGED <<active, depth, private, failed, chunkVars, halted>>

\* The depth that is left too large hides the answer from the calls around
\* the one that failed.
Hidden(call) ==
    [call EXCEPT !.answer = IF call.step = "after" THEN [@ EXCEPT !.kind = "none"]
                            ELSE NoAnswer]

\* tc_posix_memalign() without memory returns at once (tcmalloc.cc:2117).
NoMemory(t) ==
    /\ calls[t] # <<>> /\ Top(t).step = "before"
    /\ Top(t).op = "posix_memalign"
    /\ MapThenSumSet(LAMBDA u : failed[u], Threads) < MaxFailed
    /\ failed' = [failed EXCEPT ![t] = @ + 1]
    /\ calls' = [calls EXCEPT ![t] = [i \in 1 .. Len(@) - 1 |-> Hidden(@[i])]]
    /\ UNCHANGED <<active, depth, private, block, chunkVars, halted>>

\* chunk_alloc(): a structure from the thread's list, or a new one.
chunk_alloc(t, c) ==
    /\ IF free[t] = {} THEN chunk_of[c] = Junk ELSE c \in free[t]
    /\ free' = [free EXCEPT ![t] = @ \ {c}]
    /\ inited' = inited \cup {t}

\* As Sampling, but the head of a chunk that is skipped is left alone.
SamplingKeepsHead(t, a, ext) ==
    \/ /\ a.kind # "monitor" /\ ext = block[Top(t).b].ext
       /\ UNCHANGED chunkVars
    \/ /\ a.kind = "monitor" /\ ext \in Chunks
       /\ chunk_alloc(t, ext)
       /\ chunk_of' = [chunk_of EXCEPT ![ext] = Top(t).b]

\* NightWatch_sampling(): for an answer from the size table nothing is done,
\* a chunk that is skipped clears the head, a monitored one is noted there.
Sampling(t, a, ext) ==
    \/ a.kind = "table" /\ ext = block[Top(t).b].ext /\ UNCHANGED chunkVars
    \/ a.kind = "skip" /\ ext = Null /\ UNCHANGED chunkVars
    \/ /\ a.kind = "monitor" /\ ext \in Chunks
       /\ chunk_alloc(t, ext)
       /\ chunk_of' = [chunk_of EXCEPT ![ext] = Top(t).b]

\* Ghost: the answers that make NightWatch_sampling() write the head.
Recorded(a) == IF a.kind = "table" THEN "none" ELSE a.kind

\* notify_heap_type_manager_after_malloc(): the outermost call samples the
\* block by the answer it got, if it got one.
AfterMalloc(t) ==
    \E ext \in Chunks \cup {Null, Junk} :
      LET b == Top(t).b
      IN  /\ calls[t] # <<>> /\ Top(t).step = "after" /\ Top(t).old = Null
          /\ IF active /\ depth[t] = 1 /\ private[t] # NoAnswer
               THEN /\ Sampling(t, private[t], ext)
                    /\ private' = [private EXCEPT ![t] = NoAnswer]
               ELSE /\ ext = block[b].ext
                    /\ UNCHANGED <<private, chunkVars>>
          /\ block' = [block EXCEPT ![b].ext = ext, ![b].kind = Recorded(Top(t).answer)]
          /\ Leave(t)
          /\ UNCHANGED <<active, failed, halted>>

----------------------------------------------------------------------------
(* Release.                                                                 *)

\* chunk_free(): initialises another list than the one it adds to.
chunk_free(t, c) ==
    /\ chunk_of' = [chunk_of EXCEPT ![c] = Null]
    /\ free' = [free EXCEPT ![t] = @ \cup {c}]
    /\ UNCHANGED inited

\* NightWatch_collect_sample(): the chunk in the head is taken off its samples
\* and freed.  A head that names no chunk of this block, or a list without its
\* initial value, is the end of what can be said about the program.
CollectSample(t, b) ==
    LET c == block[b].ext
        own == {x \in Chunks : chunk_of[x] = b}
    IN  \/ c = Null /\ UNCHANGED <<chunkVars, halted>>
        \/ /\ c \in own /\ t \in inited
           /\ chunk_free(t, c)
           /\ UNCHANGED halted
        \/ /\ c \in own /\ t \notin inited
           /\ halted' = "list not initialised"
           /\ UNCHANGED chunkVars
        \/ /\ c \notin own \cup {Null}
           /\ halted' = "not its chunk"
           /\ UNCHANGED chunkVars

\* Blocks that are being handed out or reallocated are not the program's.
Owned(b) ==
    /\ block[b].live
    /\ \A t \in Threads : \A i \in DOMAIN calls[t] :
         b \notin {calls[t][i].old, calls[t][i].b}

\* As tc_free, but the call does not leave the cache manager.
FreeNotLeft(t) ==
    /\ depth[t] < MaxCalls
    /\ \E b \in Blocks :
         /\ Owned(b)
         /\ CollectSample(t, b)
         /\ block' = [block EXCEPT ![b] = Unused(@.ext)]
    /\ depth' = [depth EXCEPT ![t] = @ + 1]
    /\ UNCHANGED <<active, private, calls, failed>>

\* tc_free(): only an active library looks at the head.
tc_free(t) ==
    \E b \in Blocks :
      /\ Owned(b)
      /\ IF active THEN CollectSample(t, b) ELSE UNCHANGED <<chunkVars, halted>>
      /\ block' = IF halted' = "no"
                    THEN [block EXCEPT ![b] = Unused(@.ext)]
                    ELSE block
      /\ UNCHANGED <<active, threadVars>>

\* tc_realloc() to a size that needs another block: the sample is collected
\* in any case, the new block is requested, ...
tc_realloc(t) ==
    \E b \in Blocks :
      /\ Owned(b)
      /\ CollectSample(t, b)
      /\ BeforeMalloc(t, "malloc", b)
      /\ UNCHANGED <<active, failed, block>>

\* ... and the old one is freed without another look at its head.
FreeOld(t) ==
    /\ calls[t] # <<>> /\ Top(t).step = "after" /\ Top(t).old # Null
    /\ block' = [block EXCEPT ![Top(t).old] = Unused(@.ext)]
    /\ calls' = [calls EXCEPT ![t] = Front(@) \o <<[Top(t) EXCEPT !.old = Null]>>]
    /\ UNCHANGED <<active, depth, private, failed, chunkVars, halted>>

----------------------------------------------------------------------------
(* Hooked library functions.                                                *)

\* A hooked library function runs between enter_cache_management() and
\* leave_cache_management(): what it allocates is not managed.
HookedCall(t) ==
    /\ Enter(t, [op |-> "hook", step |-> "inside", answer |-> NoAnswer,
                 b |-> Null, heap |-> OPEN, old |-> Null])
    /\ UNCHANGED <<active, private, failed, block, chunkVars, halted>>

HookedReturn(t) ==
    /\ calls[t] # <<>> /\ Top(t).step = "inside"
    /\ Leave(t)
    /\ UNCHANGED <<active, private, failed, block, chunkVars, halted>>

Step(t) ==
    \/ tc_malloc(t) \/ do_malloc(t) \/ NoMemory(t) \/ AfterMalloc(t)
    \/ tc_free(t) \/ tc_realloc(t) \/ FreeOld(t)
    \/ HookedCall(t) \/ HookedReturn(t)

Next ==
    /\ halted = "no"
    /\ Activate \/ \E t \in Threads : Step(t)

Spec == Init /\ [][Next]_vars

----------------------------------------------------------------------------
(* Properties.                                                              *)

\* The depth decides whether a request is managed (InCacheManage(),
\* tcmalloc.cc:466-474), so it must count the calls a thread is inside of.  It
\* does, but for requests that failed: tc_posix_memalign() does not leave, and
\* the thread is never managed again.  A thread that is inside no call and has
\* not failed has no answer left over from an earlier request.
DepthBalanced ==
    \A t \in Threads :
      /\ depth[t] = Len(calls[t]) + failed[t]
      /\ depth[t] = 0 => private[t] = NoAnswer

\* The answer to a request travels through a thread-local pointer past nested
\* requests, hooked calls and failures (tcmalloc.cc:477-527).  Every block comes
\* from the heap named in the answer to its own request, or the default heap;
\* and a block that should be monitored is: its head names a chunk made for it.
\* Only a request that fails inside another one takes the answer away.
AnswerReachesBlock ==
    /\ \A t \in Threads : \A i \in DOMAIN calls[t] :
         calls[t][i].step = "after" => calls[t][i].heap = calls[t][i].answer.type
    /\ \A b \in Blocks :
         Owned(b) /\ block[b].kind = "monitor"
           => block[b].ext \in {c \in Chunks : chunk_of[c] = b}

\* detach_chunk_from_context() (locality_profile.c:354-363) frees the chunk that
\* the head names, whichever thread frees the block.  Each chunk structure is on
\* one free list or about one live block whose head names it, and the head of
\* a block whose request was answered with a context names its own chunk or
\* none; so only a block that was handed out without writing its head can lead
\* free() to the chunk of another block.
ChunksAccounted ==
    /\ \A c \in Chunks :
         /\ Cardinality({t \in Threads : c \in free[t]})
              = IF chunk_of[c] = Null THEN 1 ELSE 0
         /\ chunk_of[c] \in Blocks =>
              block[chunk_of[c]].live /\ block[chunk_of[c]].ext = c
    /\ \A b \in Blocks :
         Owned(b) /\ block[b].kind \in {"skip", "monitor"}
           => block[b].ext \in {Null} \cup {c \in Chunks : chunk_of[c] = b}
=============================================================================
