---------------------------- MODULE SampleLayout ----------------------------
(***************************************************************************)
(* Addresses: which pages of a chunk monit_chunk() samples, and which page *)
(* samples the hooked read(), write(), fread() and fwrite() take away      *)
(* before the kernel touches the caller's buffer.  The kernel does not     *)
(* fault into page_fault_handler(): a buffer page that is still PROT_NONE  *)
(* makes the call fail with EFAULT.                                        *)
(*                                                                         *)
(* Addresses are numbers; the chunk may start anywhere in a page.          *)
(***************************************************************************)
EXTENDS Integers

CONSTANTS
    PAGE_SIZE,
    SMALL_MEMORY_CHUNK,
    Starts,      \* where a chunk may start
    ChunkSizes,  \* the sizes of chunks
    Lengths      \* the lengths of buffers

ASSUME LayoutAssumption ==
    /\ PAGE_SIZE \in Nat \ {0}
    /\ SMALL_MEMORY_CHUNK \in Nat /\ SMALL_MEMORY_CHUNK >= 2 * PAGE_SIZE
    /\ Starts \subseteq Nat
    /\ ChunkSizes \subseteq Nat
    /\ Lengths \subseteq Nat \ {0}

VARIABLES
    addr,     \* chunk->addr
    size,     \* chunk->size, enlarged by NightWatch_size_demand() if small
    n,        \* chunk->nr_sample
    i,        \* the loop of monit_chunk()
    samples,  \* the pages with a sample, by address
    buffer    \* the buffer of a hooked call under way, length 0 for none

vars == <<addr, size, n, i, samples, buffer>>

PageOf(a) == (a \div PAGE_SIZE) * PAGE_SIZE
UPPER_PAGE_ALIGN(a) == PageOf(a + PAGE_SIZE - 1)
LOWER_PAGE_ALIGN(a) == PageOf(a)

\* Mutant of start_align: the page the chunk starts in is taken as a whole.
StartAlignedDown(a) == LOWER_PAGE_ALIGN(a)

start_align(a) == UPPER_PAGE_ALIGN(a)
end_align(a, s) == LOWER_PAGE_ALIGN(a + s)
total_range == end_align(addr, size) - start_align(addr)

\* get_nr_sample() rounds a power of the number of pages, at least 1 and at
\* most all of them; here any number in between is possible.
Init ==
    /\ addr \in Starts
    /\ size \in {s \in ChunkSizes : s >= SMALL_MEMORY_CHUNK}
    /\ n \in 1..(total_range \div PAGE_SIZE)
    /\ i = 0
    /\ samples = {}
    /\ buffer = [start |-> addr, len |-> 0]

-----------------------------------------------------------------------------
(* Mutant of get_sample_addr: the offset is not kept below the bound.      *)
SampleUnbounded(k, random) ==
    start_align(addr) + PageOf(random + k * (total_range \div n))

\* get_sample_addr() of the k-th sample, random being rand() * rand() modulo
\* the range of a sample.
get_sample_addr(k, random) ==
    LET per_sample_range == total_range \div n
        offset == PageOf(random + k * per_sample_range)
        bound == PageOf((k + 1) * per_sample_range)
        inside == IF offset >= bound THEN bound - PAGE_SIZE ELSE offset
        sample == start_align(addr) + inside
    IN  IF sample >= end_align(addr, size)
        THEN end_align(addr, size) - PAGE_SIZE ELSE sample

\* One iteration of the loop of monit_chunk().
AttachSample ==
    /\ i < n
    /\ \E random \in 0..((total_range \div n) - 1) :
          samples' = samples \cup {get_sample_addr(i, random)}
    /\ i' = i + 1
    /\ UNCHANGED <<addr, size, n, buffer>>

\* Mutant of Walked: the walk stops a page early.
WalkedShort(start, len) ==
    {PageOf(start + k * PAGE_SIZE) : k \in {x \in 0..len : (x + 1) * PAGE_SIZE <= len}}

\* The pages remove_sample_range() looks at, stepping by PAGE_SIZE from the
\* start of the buffer to its end.
Walked(start, len) ==
    {PageOf(start + k * PAGE_SIZE) : k \in {x \in 0..len : x * PAGE_SIZE <= len}}

\* pre_walk() touches the pages stepping likewise, and their samples fault;
\* then remove_sample_range() takes the samples away and libc's function is
\* called with the buffer, which lies in the chunk.
HookedCall(start, len) ==
    /\ i = n /\ buffer.len = 0
    /\ start + len <= addr + size
    /\ buffer' = [start |-> start, len |-> len]
    /\ samples' = samples \ Walked(start, len)
    /\ UNCHANGED <<addr, size, n, i>>

\* It returns, and the program goes on.
HookedReturn ==
    /\ buffer.len # 0
    /\ buffer' = [start |-> addr, len |-> 0]
    /\ UNCHANGED <<addr, size, n, i, samples>>

Next ==
    \/ AttachSample
    \/ \E start \in addr..(addr + size - 1), len \in Lengths : HookedCall(start, len)
    \/ HookedReturn

Spec == Init /\ [][Next]_vars

-----------------------------------------------------------------------------
(* Properties.                                                             *)

\* Every sampled page lies inside the chunk as a whole: protecting it cannot
\* make an access to other memory fault.
SamplesInChunk ==
    \A p \in samples : addr <= p /\ p + PAGE_SIZE <= addr + size

\* No page is sampled twice: while monit_chunk() loops there are as many
\* sampled pages as iterations (attach_page_sample() would free the sample it
\* finds, which is still on the chunk's list), in the order of the loop.
SamplesDistinct ==
    i < n => \A p \in samples, random \in 0..((total_range \div n) - 1) :
                p < get_sample_addr(i, random)

Buffer == buffer.start .. (buffer.start + buffer.len - 1)

\* A hooked call with a buffer that starts a page finds all of it accessible.
AlignedBufferOpen ==
    buffer.len # 0 /\ buffer.start = PageOf(buffer.start) =>
        \A a \in Buffer : PageOf(a) \notin samples

\* "The service of NightWatch is transparent to user's application": a hooked
\* call finds all of its buffer accessible.
BufferOpen == buffer.len # 0 => \A a \in Buffer : PageOf(a) \notin samples
=============================================================================
