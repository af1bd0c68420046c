---------------------------- MODULE ChunkMonitor ----------------------------
(***************************************************************************)
(* The locality monitor, chunk_monitor.c, on one monitored chunk: its page *)
(* samples are protected (PROT_NONE), an access faults into                *)
(* page_fault_handler(), which opens the page and sets a timer, and        *)
(* burst_skip_handler() protects the page again.  When nr_sample           *)
(* references have been taken a cycle ends; when the miss ratio converges  *)
(* the chunk is finished, its mapping is chosen, and a chunk under         *)
(* restrict mapping is revived later by revive_sample_handler().           *)
(*                                                                         *)
(* The time event queue appears as what TimerService and WakeupOrDropped   *)
(* of TimeEventQueue say of it: pending events that fire, one at a time,   *)
(* with queue_lock held, while the queue has a wakeup (~dropped).  A pended *)
(* section that removes events may lose it; the next call of the queue     *)
(* that is not such a removal brings it back.  Handlers run by             *)
(* the loops of add_time_event() and resume_time_event_queue() are fired   *)
(* here by the next SIGALRM: burst_skip_handler() takes no sample lock, so *)
(* it meets the same locks either way.  SIGALRM is blocked in              *)
(* page_fault_handler(), so only a thread outside of it takes the signal.  *)
(*                                                                         *)
(* Miss counters are left out: whether a reference is a burst, whether the *)
(* ratio has converged and which mapping the predictor answers are free.   *)
(***************************************************************************)
EXTENDS Integers, FiniteSets

CONSTANTS
    Threads, NoThread,
    Samples,      \* the page samples of the chunk
    Chunk,        \* the chunk as the owner of its revive event
    Touches,      \* the pages a thread's code accesses, [Threads -> SUBSET Samples]
    BaseCycle,    \* base_sample_cycle
    HookedIO,     \* read(), write(), fread(), fwrite() are called on the chunk
    MaxRevives    \* bound: how many revive events of the chunk are counted

ASSUME MonitorAssumption ==
    /\ NoThread \notin Threads
    /\ Chunk \notin Samples
    /\ IsFiniteSet(Samples) /\ Samples # {}
    /\ Touches \in [Threads -> SUBSET Samples]
    /\ {BaseCycle, MaxRevives} \subseteq Nat \ {0}
    /\ HookedIO \in BOOLEAN

VARIABLES
    alive,      \* the chunk is allocated
    cstate,     \* chunk->state
    cround,     \* chunk->sample_state
    itotal,     \* chunk->i_total_ref
    cycle,      \* chunk->sample_cycle, up to BaseCycle
    clock_by,   \* who holds chunk->lock
    attached,   \* samples in the page sample map and on chunk->sample
    prot,       \* samples whose page is PROT_NONE
    sstate,     \* sample->state
    wait_timer, \* sample->wait_timer
    slock_by,   \* who holds sample->lock
    events,     \* how many events an owner has in the queue
    queue_lock, \* who holds queue_lock
    dropped,    \* the queue has lost its wakeup
    pc,         \* where a thread is, "idle" outside the monitor's handlers
    on,         \* the sample its handler works on (Chunk: none)
    caller,     \* the caller of page_sample_complete()
    finished,   \* what page_sample_complete() is going to return is not 0
    left        \* the samples revive_sample_handler() has still to visit

chunkVars == <<alive, cstate, cround, itotal, cycle, clock_by>>
sampleVars == <<attached, prot, sstate, wait_timer, slock_by>>
queueVars == <<events, queue_lock, dropped>>
localVars == <<pc, on, caller, finished>>
threadVars == <<localVars, left>>
vars == <<chunkVars, sampleVars, queueVars, threadVars>>

nr_sample == Cardinality(Samples)
Owners == Samples \cup {Chunk}
ChunkStates == {"NO_MONIT", "UNDER_MONIT", "MONIT_FINISH"}
SampleStates == {"UNINIT", "FIRST", "SUCCESSIVE", "BURST"}

\* The chunk's structure comes from internal_malloc() with whatever state that
\* memory holds; chunk_alloc() does not set it.
Init ==
    /\ alive = FALSE
    /\ cstate \in ChunkStates
    /\ cround = "START"
    /\ itotal = 0
    /\ cycle = 0
    /\ clock_by = NoThread
    /\ attached = {}
    /\ prot = {}
    /\ sstate = [s \in Samples |-> "UNINIT"]
    /\ wait_timer = [s \in Samples |-> FALSE]
    /\ slock_by = [s \in Samples |-> NoThread]
    /\ events = [o \in Owners |-> 0]
    /\ queue_lock = NoThread
    /\ dropped = FALSE
    /\ pc = [t \in Threads |-> "idle"]
    /\ on = [t \in Threads |-> Chunk]
    /\ caller = [t \in Threads |-> "fault_handler"]
    /\ finished = [t \in Threads |-> FALSE]
    /\ left = {}

-----------------------------------------------------------------------------
Go(t, label) == pc' = [pc EXCEPT ![t] = label] /\ UNCHANGED <<on, caller, finished>>

\* page_sample_complete() is called for sample s.
CallComplete(t, s, by) ==
    /\ pc' = [pc EXCEPT ![t] = "complete"]
    /\ on' = [on EXCEPT ![t] = s]
    /\ caller' = [caller EXCEPT ![t] = by]
    /\ finished' = [finished EXCEPT ![t] = FALSE]

\* The handler returns: its locals are gone.
Leave(t) ==
    /\ pc' = [pc EXCEPT ![t] = "idle"]
    /\ on' = [on EXCEPT ![t] = Chunk]
    /\ caller' = [caller EXCEPT ![t] = "fault_handler"]
    /\ finished' = [finished EXCEPT ![t] = FALSE]

\* How a pended section leaves the queue that has had the events of the owners
\* in R removed: with its wakeup, unless a removal resumed it half way.
Resumed(R) ==
    dropped' \in IF R # {} /\ \E o \in Owners : events'[o] > 0 THEN BOOLEAN
                ELSE {FALSE}

UnlockSample(s) == slock_by' = [slock_by EXCEPT ![s] = NoThread]

-----------------------------------------------------------------------------
(* The chunk is allocated by t: chunk_alloc() clears the counters, and      *)
(* monit_chunk() returns at once when the structure's state says that the  *)
(* chunk is monitored already, which the state of fresh memory may.        *)
(* Otherwise everything happens under queue_lock.                          *)
monit_chunk(t) ==
    /\ pc[t] = "idle" /\ ~alive
    /\ alive' = TRUE
    /\ itotal' = 0 /\ cycle' = 0 /\ clock_by' = NoThread
    /\ \/ /\ cstate = "UNDER_MONIT"
          /\ UNCHANGED <<cstate, cround, sampleVars, dropped>>
       \/ /\ cstate # "UNDER_MONIT"
          /\ queue_lock = NoThread
          /\ cstate' = "UNDER_MONIT"
          /\ cround' = "START"
          /\ attached' = Samples
          /\ prot' = Samples
          /\ sstate' = [s \in Samples |-> "FIRST"]
          /\ wait_timer' = [s \in Samples |-> FALSE]
          /\ slock_by' = [s \in Samples |-> NoThread]
          /\ dropped' = FALSE
    /\ UNCHANGED <<events, queue_lock, threadVars>>

\* remove_page_sample() of the samples in S: a sample that says it waits for
\* its timer has one event removed.
remove_page_sample(S) ==
    /\ wait_timer' = [s \in Samples |-> s \notin S /\ wait_timer[s]]
    /\ prot' = prot \ S
    /\ attached' = attached \ S
    /\ sstate' = [s \in Samples |-> IF s \in S THEN "UNINIT" ELSE sstate[s]]
    /\ slock_by' = [s \in Samples |-> IF s \in S THEN NoThread ELSE slock_by[s]]

RemovesEvent(o) == events[o] > 0 /\ (o = Chunk \/ wait_timer[o])

(* stop_monit_chunk(), called by the thread that frees the chunk.  The     *)
(* program is correct: nobody is in the middle of an access to memory that *)
(* is being freed.  Timer handlers are kept out by queue_lock.             *)
stop_monit_chunk(t) ==
    /\ pc[t] = "idle" /\ alive
    /\ queue_lock = NoThread
    /\ \A u \in Threads : pc[u] = "idle"
    /\ alive' = FALSE
    /\ cround' = IF cstate = "MONIT_FINISH" THEN cround ELSE "LAST"
    /\ cstate' = "MONIT_FINISH"
    /\ events' = [o \in Owners |->
                    IF RemovesEvent(o) /\ (o = Chunk \/ o \in attached)
                    THEN events[o] - 1 ELSE events[o]]
    /\ remove_page_sample(attached)
    /\ Resumed({o \in attached \cup {Chunk} : RemovesEvent(o)})
    /\ UNCHANGED <<itotal, cycle, clock_by, queue_lock, threadVars>>

\* remove_sample_range(), before a hooked read or write of the pages in S:
\* the samples go, whatever other threads do with them.
remove_sample_range(t, S) ==
    /\ HookedIO /\ S \subseteq Touches[t]
    /\ pc[t] = "idle" /\ alive
    /\ queue_lock = NoThread
    /\ events' = [o \in Owners |-> IF o \in S \cap attached /\ RemovesEvent(o)
                                  THEN events[o] - 1 ELSE events[o]]
    /\ remove_page_sample(S \cap attached)
    /\ Resumed({o \in S \cap attached : RemovesEvent(o)})
    /\ UNCHANGED <<chunkVars, queue_lock, threadVars>>

\* The same calls for another chunk, whose events share the queue.
OtherChunk(t) ==
    /\ pc[t] = "idle"
    /\ queue_lock = NoThread
    /\ \E o \in Owners : events[o] > 0
    /\ dropped' \in BOOLEAN
    /\ UNCHANGED <<chunkVars, sampleVars, events, queue_lock, threadVars>>

-----------------------------------------------------------------------------
(* page_fault_handler().                                                   *)

\* A thread touches a protected page and takes SIGSEGV.
Fault(t, s) ==
    /\ pc[t] = "idle" /\ alive
    /\ s \in Touches[t] /\ s \in prot
    /\ pc' = [pc EXCEPT ![t] = "fault"]
    /\ on' = [on EXCEPT ![t] = s]
    /\ UNCHANGED <<chunkVars, sampleVars, queueVars, caller, finished, left>>

\* The handler finds the sample and tries its lock; another thread's handler
\* at work on it makes this one return and the access is tried again.
page_fault_handler(t) ==
    LET s == on[t] IN
    /\ pc[t] = "fault"
    /\ s \in attached
    /\ \/ /\ slock_by[s] = NoThread
          /\ slock_by' = [slock_by EXCEPT ![s] = t]
          /\ CallComplete(t, s, "fault_handler")
       \/ /\ slock_by[s] # NoThread
          /\ Leave(t)
          /\ UNCHANGED slock_by
    /\ UNCHANGED <<chunkVars, attached, prot, sstate, wait_timer, queueVars, left>>

\* page_sample_complete() did not return 0, or the chunk is finished by now.
FaultFinished(t) ==
    LET s == on[t] IN
    /\ pc[t] = "fault_handler"
    /\ s \in attached
    /\ finished[t] \/ cstate = "MONIT_FINISH"
    /\ prot' = prot \ {s}
    /\ sstate' = [sstate EXCEPT ![s] = "UNINIT"]
    /\ UnlockSample(s)
    /\ Leave(t)
    /\ UNCHANGED <<chunkVars, attached, wait_timer, queueVars, left>>

\* Mutant: the reference is collected with the page still protected.
FaultLeavesProtected(t) ==
    /\ pc[t] = "fault_handler"
    /\ on[t] \in attached
    /\ ~finished[t] /\ cstate # "MONIT_FINISH"
    /\ Go(t, "collect")
    /\ UNCHANGED <<chunkVars, sampleVars, queueVars, left>>

\* Otherwise the page is opened and the reference collected.
FaultTaken(t) ==
    /\ pc[t] = "fault_handler"
    /\ on[t] \in attached
    /\ ~finished[t] /\ cstate # "MONIT_FINISH"
    /\ prot' = prot \ {on[t]}
    /\ Go(t, "collect")
    /\ UNCHANGED <<chunkVars, attached, sstate, wait_timer, slock_by, queueVars,
                   left>>

\* Mutant: a burst waits for the successive access at once.
CollectSkipsBurst(t) ==
    LET s == on[t] IN
    /\ pc[t] = "collect"
    /\ s \in attached
    /\ sstate' = [sstate EXCEPT ![s] = "SUCCESSIVE"]
    /\ CallComplete(t, s, "collect")
    /\ UNCHANGED <<chunkVars, attached, prot, wait_timer, slock_by, queueVars,
                   left>>

\* collect_page_sample(): the first access of a reference, or a burst.  The
\* switch has no case for the other states.
CollectBurst(t) ==
    LET s == on[t] IN
    /\ pc[t] = "collect"
    /\ s \in attached
    /\ sstate' = IF sstate[s] \in {"FIRST", "SUCCESSIVE"}
                 THEN [sstate EXCEPT ![s] = "BURST"] ELSE sstate
    /\ CallComplete(t, s, "collect")
    /\ UNCHANGED <<chunkVars, attached, prot, wait_timer, slock_by, queueVars,
                   left>>

\* update_chunk_sample() takes a reference, under chunk->lock.  Counts beyond
\* nr_sample + 1 behave alike and are not told apart.
update_chunk_sample(t) ==
    LET s == on[t] IN
    /\ pc[t] = "collect"
    /\ s \in attached
    /\ sstate[s] = "SUCCESSIVE"
    /\ clock_by = NoThread
    /\ itotal' = IF itotal > nr_sample THEN itotal ELSE itotal + 1
    /\ sstate' = [sstate EXCEPT ![s] = "FIRST"]
    /\ CallComplete(t, s, "collect")
    /\ UNCHANGED <<alive, cstate, cround, cycle, clock_by,
                   attached, prot, wait_timer, slock_by, queueVars, left>>

-----------------------------------------------------------------------------
(* page_sample_complete().                                                 *)

\* Back in its caller: collect_page_sample() goes on to set the timer, or
\* gives the sample up and returns through page_fault_handler().
Answer(t, fin) ==
    \/ /\ caller[t] = "collect" /\ fin
       /\ sstate' = [sstate EXCEPT ![on[t]] = "UNINIT"]
       /\ UnlockSample(on[t])
       /\ Leave(t)
    \/ /\ caller[t] # "collect" \/ ~fin
       /\ pc' = [pc EXCEPT ![t] = IF caller[t] = "collect" THEN "add_burst"
                                  ELSE caller[t]]
       /\ finished' = [finished EXCEPT ![t] = fin]
       /\ UNCHANGED <<on, caller, sstate, slock_by>>

\* chunk->state is read before chunk->lock is taken.
ReadChunkState(t) ==
    /\ pc[t] = "complete"
    /\ on[t] \in attached
    /\ IF cstate = "MONIT_FINISH"
       THEN Answer(t, TRUE)
       ELSE Go(t, "chunk_lock") /\ UNCHANGED <<sstate, slock_by>>
    /\ UNCHANGED <<chunkVars, attached, prot, wait_timer, queueVars, left>>

\* A cycle ends when nr_sample references are in; from the BaseCycle-th on
\* the miss ratio may turn out to have converged.
CycleEnds(converged) ==
    /\ itotal = nr_sample
    /\ converged => cycle >= BaseCycle - 1
    /\ cstate' = IF converged THEN "MONIT_FINISH" ELSE cstate
    /\ itotal' = 0
    /\ cycle' = IF cycle < BaseCycle THEN cycle + 1 ELSE cycle

NoCycleEnd(converged) ==
    /\ itotal # nr_sample /\ ~converged
    /\ UNCHANGED <<cstate, itotal, cycle>>

\* With chunk->lock the cycle may end.  A chunk that is finished, by this call
\* or by another since its state was read, is evaluated; under restrict
\* mapping the lock is kept for the revive event.
page_sample_complete(t) ==
    /\ pc[t] = "chunk_lock"
    /\ clock_by = NoThread
    /\ \E converged, restrict \in BOOLEAN :
       /\ CycleEnds(converged) \/ NoCycleEnd(converged)
       /\ \/ /\ cstate' # "MONIT_FINISH" /\ ~restrict
             /\ Answer(t, FALSE)
             /\ UNCHANGED <<cround, clock_by>>
          \/ /\ cstate' = "MONIT_FINISH"
             /\ cround' = CASE cround = "START" -> "FIRST"
                            [] cround = "FIRST" -> "SECOND"
                            [] OTHER -> cround
             /\ \/ /\ restrict
                   /\ clock_by' = t
                   /\ pc' = [pc EXCEPT ![t] = "add_revive"]
                   /\ finished' = [finished EXCEPT ![t] = converged]
                   /\ UNCHANGED <<on, caller, sstate, slock_by>>
                \/ /\ ~restrict
                   /\ Answer(t, converged)
                   /\ UNCHANGED clock_by
    /\ UNCHANGED <<alive, attached, prot, wait_timer, queueVars, left>>

\* add_time_event(revive_sample_handler), chunk->lock still held.
AddRevive(t) ==
    /\ pc[t] = "add_revive"
    /\ queue_lock = NoThread
    /\ events' = [events EXCEPT ![Chunk] = IF @ < MaxRevives THEN @ + 1 ELSE @]
    /\ dropped' = FALSE
    /\ clock_by' = NoThread
    /\ Answer(t, finished[t])
    /\ UNCHANGED <<alive, cstate, cround, itotal, cycle, attached, prot,
                   wait_timer, queue_lock, left>>

\* collect_page_sample() adds the sample's event ...
AddBurst(t) ==
    /\ pc[t] = "add_burst"
    /\ queue_lock = NoThread
    /\ events' = [events EXCEPT ![on[t]] = @ + 1]
    /\ dropped' = FALSE
    /\ Go(t, "added")
    /\ UNCHANGED <<chunkVars, sampleVars, queue_lock, left>>

\* Mutant: wait_timer is not set.
ForgetBurst(t) ==
    /\ pc[t] = "added"
    /\ UnlockSample(on[t])
    /\ Leave(t)
    /\ UNCHANGED <<chunkVars, attached, prot, sstate, wait_timer, queueVars, left>>

\* ... and notes it once queue_lock is released; the handler returns.
NoteBurst(t) ==
    /\ pc[t] = "added"
    /\ wait_timer' = [wait_timer EXCEPT ![on[t]] = TRUE]
    /\ UnlockSample(on[t])
    /\ Leave(t)
    /\ UNCHANGED <<chunkVars, attached, prot, sstate, queueVars, left>>

-----------------------------------------------------------------------------
(* Timer handlers, run with queue_lock held.                               *)

\* SIGALRM: burst_skip_handler() of a sample starts.
FireBurst(t, s) ==
    /\ pc[t] = "idle"
    /\ queue_lock = NoThread
    /\ events[s] > 0 /\ ~dropped
    /\ s \in attached
    /\ queue_lock' = t
    /\ events' = [events EXCEPT ![s] = @ - 1]
    /\ wait_timer' = [wait_timer EXCEPT ![s] = FALSE]
    /\ CallComplete(t, s, "burst_handler")
    /\ UNCHANGED <<chunkVars, attached, prot, sstate, slock_by, dropped, left>>

\* Mutant: the page of a sample is protected, its state is left behind.
BurstKeepsState(t) ==
    LET s == on[t] IN
    /\ pc[t] = "burst_handler"
    /\ \/ /\ finished[t] \/ cstate = "MONIT_FINISH"
          /\ sstate' = [sstate EXCEPT ![s] = "UNINIT"]
          /\ UNCHANGED prot
       \/ /\ ~finished[t] /\ cstate # "MONIT_FINISH"
          /\ prot' = prot \cup {s}
          /\ UNCHANGED sstate
    /\ queue_lock' = NoThread
    /\ Leave(t)
    /\ UNCHANGED <<chunkVars, attached, wait_timer, slock_by, events, dropped, left>>

\* The chunk is finished, or the page is protected for the next reference.
burst_skip_handler(t) ==
    LET s == on[t] IN
    /\ pc[t] = "burst_handler"
    /\ \/ /\ finished[t] \/ cstate = "MONIT_FINISH"
          /\ sstate' = [sstate EXCEPT ![s] = "UNINIT"]
          /\ UNCHANGED prot
       \/ /\ ~finished[t] /\ cstate # "MONIT_FINISH"
          /\ sstate' = IF sstate[s] = "BURST"
                       THEN [sstate EXCEPT ![s] = "SUCCESSIVE"] ELSE sstate
          /\ prot' = prot \cup {s}
    /\ queue_lock' = NoThread
    /\ Leave(t)
    /\ UNCHANGED <<chunkVars, attached, wait_timer, slock_by, events, dropped, left>>

\* SIGALRM: revive_sample_handler() resets the counters, without chunk->lock ...
FireRevive(t) ==
    /\ pc[t] = "idle"
    /\ queue_lock = NoThread
    /\ events[Chunk] > 0 /\ ~dropped
    /\ alive
    /\ queue_lock' = t
    /\ events' = [events EXCEPT ![Chunk] = @ - 1]
    /\ itotal' = 0 /\ cycle' = 0
    /\ left' = attached
    /\ Go(t, "revive")
    /\ UNCHANGED <<alive, cstate, cround, clock_by, sampleVars, dropped>>

\* Mutant: a revived sample's page is not protected.
ReviveUnprotected(t, s) ==
    /\ pc[t] = "revive"
    /\ s \in left
    /\ left' = left \ {s}
    /\ IF sstate[s] = "UNINIT"
       THEN /\ sstate' = [sstate EXCEPT ![s] = "FIRST"]
            /\ wait_timer' = [wait_timer EXCEPT ![s] = FALSE]
            /\ UnlockSample(s)
       ELSE UNCHANGED <<sstate, wait_timer, slock_by>>
    /\ UNCHANGED <<chunkVars, attached, prot, queueVars, localVars>>

\* ... starts each idle sample afresh, its lock included ...
ReviveSample(t, s) ==
    /\ pc[t] = "revive"
    /\ s \in left
    /\ left' = left \ {s}
    /\ IF sstate[s] = "UNINIT"
       THEN /\ sstate' = [sstate EXCEPT ![s] = "FIRST"]
            /\ wait_timer' = [wait_timer EXCEPT ![s] = FALSE]
            /\ prot' = prot \cup {s}
            /\ UnlockSample(s)
       ELSE UNCHANGED <<sstate, wait_timer, prot, slock_by>>
    /\ UNCHANGED <<chunkVars, attached, queueVars, localVars>>

\* ... and puts the chunk under monitoring last.
revive_sample_handler(t) ==
    /\ pc[t] = "revive"
    /\ left = {}
    /\ cstate' = "UNDER_MONIT"
    /\ queue_lock' = NoThread
    /\ Leave(t)
    /\ UNCHANGED <<alive, cround, itotal, cycle, clock_by, sampleVars,
                   events, dropped, left>>

-----------------------------------------------------------------------------
\* What a thread does once its handler has been entered.
HandlerStep(t) ==
    \/ page_fault_handler(t) \/ FaultFinished(t) \/ FaultTaken(t)
    \/ CollectBurst(t) \/ update_chunk_sample(t)
    \/ ReadChunkState(t) \/ page_sample_complete(t)
    \/ AddRevive(t) \/ AddBurst(t) \/ NoteBurst(t)
    \/ burst_skip_handler(t)
    \/ \E s \in Samples : ReviveSample(t, s)
    \/ revive_sample_handler(t)

Alarm(t) == FireRevive(t) \/ \E s \in Samples : FireBurst(t, s)

Next ==
    \E t \in Threads :
        \/ monit_chunk(t)
        \/ stop_monit_chunk(t)
        \/ \E S \in SUBSET Samples : remove_sample_range(t, S)
        \/ OtherChunk(t)
        \/ \E s \in Samples : Fault(t, s)
        \/ HandlerStep(t)
        \/ Alarm(t)

Spec == Init /\ [][Next]_vars

(***************************************************************************)
(* A thread inside a handler runs on, and one that spins on queue_lock     *)
(* gets it if it is free again and again: its holders are done in          *)
(* microseconds and come back after a timer interval.  While the queue has *)
(* its wakeup the SIGALRM of a pending event comes again and again until   *)
(* its handler has been run (EventuallyTriggered of TimeEventQueue), on    *)
(* whichever thread.                                                       *)
(***************************************************************************)
Fairness ==
    /\ \A t \in Threads : WF_vars(HandlerStep(t)) /\ SF_vars(AddBurst(t))
    /\ \A s \in Samples : SF_vars(\E t \in Threads : FireBurst(t, s))

FairSpec == Spec /\ Fairness

-----------------------------------------------------------------------------
(* Properties.                                                             *)

\* assert() of page_fault_handler(), chunk_monitor.c:476: a fault finds its
\* sample waiting for an access.
FaultFindsWaiting ==
    \A t \in Threads :
        pc[t] = "fault_handler" /\ ~finished[t] /\ cstate # "MONIT_FINISH"
            => sstate[on[t]] \in {"FIRST", "SUCCESSIVE"}

\* assert() of burst_skip_handler(), chunk_monitor.c:427: the timer finds its
\* sample between two accesses.
TimerFindsSkipping ==
    \A t \in Threads :
        pc[t] = "burst_handler" /\ ~finished[t] /\ cstate # "MONIT_FINISH"
            => sstate[on[t]] \in {"BURST", "FIRST"}

\* assert() of hash_map_add_member(): no page sample has two timer events, and
\* a page is never protected while its timer runs.
OneEventPerSample ==
    \A s \in Samples : events[s] <= 1 /\ (events[s] = 1 => s \notin prot)

\* assert() of hash_map_add_member() again, utl_hash_map.c:284: the chunk has
\* one revive event.
OneRevivePerChunk == events[Chunk] <= 1

\* A sample that stop_monit_chunk() or remove_sample_range() has removed, while
\* other samples of the chunk are at work, leaves its page open and no timer
\* event whose burst_skip_handler() would run on a sample that is gone; and
\* no fault handler is at work on it (assert(), chunk_monitor.c:461).
RemovedSampleIsQuiet ==
    \A s \in Samples :
        s \notin attached =>
            /\ s \notin prot /\ events[s] = 0
            /\ \A t \in Threads :
                  pc[t] \in {"fault", "complete", "fault_handler", "collect"} => on[t] # s

\* "there should be no data race on the chunk": stop_monit_chunk() leaves no
\* event that would run a handler on a freed chunk or sample, and no page of
\* the freed memory protected.
StopLeavesNothing == ~alive => prot = {} /\ \A o \in Owners : events[o] = 0

\* The references of a cycle are counted to nr_sample and not past it, or the
\* comparison in page_sample_complete() is never true again.
CycleNotOvershot == itotal <= nr_sample

\* No handler waits for a lock whose holder waits for it: queue_lock wanted
\* under chunk->lock, chunk->lock wanted under queue_lock.
NoDeadlock ==
    \A t \in Threads :
        pc[t] = "add_revive" =>
            /\ queue_lock # t
            /\ queue_lock # NoThread => pc[queue_lock] # "chunk_lock"

\* "It periodically samples the references to pages of the target chunks": a
\* sample of a chunk under monitoring is protected again, sooner or later,
\* whatever two threads do with faults, timers, frees and hooked I/O, with
\* three exceptions: the queue has lost its wakeup; two handlers wait for
\* each other's lock; or the sample was given up by a handler that had read
\* the chunk's state as finished before revive_sample_handler() changed it.
SamplingContinues ==
    \A s \in Samples :
        (cstate = "UNDER_MONIT" /\ s \in attached) ~>
            \/ s \in prot \/ cstate # "UNDER_MONIT" \/ s \notin attached
            \/ dropped \/ ~NoDeadlock \/ sstate[s] = "UNINIT"
=============================================================================
