------------------------- MODULE ChunkMonitorProofs -------------------------
(***************************************************************************)
(* Proofs about ChunkMonitor, for any number of samples and cycles: first  *)
(* for threads that touch different pages, then for a single thread.       *)
(***************************************************************************)
EXTENDS ChunkMonitor, FiniteSetTheorems, TLAPS

\* No page is touched by two threads.
Apart == \A t, u \in Threads : t # u => Touches[t] \cap Touches[u] = {}

\* The program has one thread.
Alone == \A t, u \in Threads : t = u

PCs == {"idle", "fault", "complete", "chunk_lock", "add_revive", "fault_handler",
        "collect", "add_burst", "added", "burst_handler", "revive"}

TypeOK ==
    /\ alive \in BOOLEAN
    /\ attached \subseteq Samples
    /\ prot \subseteq Samples
    /\ sstate \in [Samples -> SampleStates]
    /\ wait_timer \in [Samples -> BOOLEAN]
    /\ slock_by \in [Samples -> Threads \cup {NoThread}]
    /\ events \in [Owners -> Nat]
    /\ queue_lock \in Threads \cup {NoThread}
    /\ pc \in [Threads -> PCs]
    /\ on \in [Threads -> Owners]
    /\ caller \in [Threads -> {"fault_handler", "collect", "burst_handler"}]
    /\ finished \in [Threads -> BOOLEAN]
    /\ left \subseteq Samples

-----------------------------------------------------------------------------
(* What a thread is doing, and where in page_sample_complete() by whom.    *)

Completing(t, by) ==
    pc[t] \in {"complete", "chunk_lock", "add_revive"} /\ caller[t] = by

\* In page_fault_handler(), before the page is opened, ...
Early(t) == pc[t] \in {"fault", "fault_handler"} \/ Completing(t, "fault_handler")

\* ... before the reference is collected, and before the timer is set.
Late(t) == pc[t] = "add_burst" \/ Completing(t, "collect")

\* In burst_skip_handler().
InTimer(t) == pc[t] = "burst_handler" \/ Completing(t, "burst_handler")

\* The timer of sample s has been set by a thread that has not noted it yet.
Unnoted(s) == \E t \in Threads : pc[t] = "added" /\ on[t] = s

\* A thread works on a page of its own that has a sample.
WorksOn(t) == on[t] \in Touches[t] /\ on[t] \in attached

\* Waiting for an access, and between two accesses.
Waiting(s) == sstate[s] \in {"FIRST", "SUCCESSIVE"}
Skipping(s) == sstate[s] \in {"BURST", "FIRST"}

FaultInv(t) ==
    /\ Early(t) => WorksOn(t) /\ on[t] \in prot
    /\ pc[t] = "collect" => /\ WorksOn(t) /\ on[t] \notin prot /\ events[on[t]] = 0
                            /\ Waiting(on[t])
    /\ Late(t) => /\ WorksOn(t) /\ on[t] \notin prot /\ events[on[t]] = 0
                  /\ Skipping(on[t])
    /\ pc[t] = "added" => WorksOn(t)

TimerInv(t) ==
    /\ InTimer(t) => /\ queue_lock = t /\ on[t] \in attached /\ on[t] \notin prot
                     /\ events[on[t]] = 0 /\ Skipping(on[t])
    /\ pc[t] = "revive" => queue_lock = t
    /\ queue_lock = t => InTimer(t) \/ pc[t] = "revive"

\* The timer and the fault handler do not work on one sample.
HandlersApart ==
    \A t, u \in Threads :
        InTimer(t) /\ (pc[u] = "collect" \/ Late(u)) => on[t] # on[u]

SampleInv(s) ==
    /\ s \in prot => s \in attached /\ Waiting(s) /\ events[s] = 0
    /\ events[s] <= 1
    /\ events[s] = 1 => s \in attached /\ Skipping(s) /\ (wait_timer[s] \/ Unnoted(s))

\* Without a chunk there is nothing to work on, and only the revive handler
\* has samples left to visit.
Quiet ==
    /\ ~alive => attached = {} /\ \A t \in Threads : pc[t] = "idle"
    /\ left \subseteq attached
    /\ left # {} => \E t \in Threads : pc[t] = "revive"

IInv ==
    /\ TypeOK
    /\ \A t \in Threads : FaultInv(t)
    /\ \A t \in Threads : TimerInv(t)
    /\ HandlersApart
    /\ \A s \in Samples : SampleInv(s)
    /\ Quiet

-----------------------------------------------------------------------------
(* One thread: the revive event, the end of a cycle, and the locks.        *)

\* The chunk as a thread sees it on its way through page_sample_complete().
CycleInv(t) ==
    /\ pc[t] \in {"chunk_lock", "collect"} => cstate # "MONIT_FINISH"
    /\ Completing(t, "collect") /\ pc[t] = "complete" => cstate # "MONIT_FINISH"
    /\ pc[t] = "add_revive" => caller[t] = "collect" /\ cstate = "MONIT_FINISH"
    /\ pc[t] \in {"add_revive", "revive"} => events[Chunk] = 0
    /\ itotal = nr_sample => pc[t] \in {"complete", "chunk_lock"} /\ caller[t] = "collect"

AloneInv ==
    /\ itotal \in 0..nr_sample
    /\ cstate \in ChunkStates
    /\ events[Chunk] <= 1
    /\ events[Chunk] = 1 => cstate = "MONIT_FINISH" /\ alive
    /\ \A t \in Threads : CycleInv(t)
-----------------------------------------------------------------------------
(* The steps.                                                              *)

\* Thread t moves; the others are where they were.
Moves(t, label, s, by) ==
    /\ pc'[t] = label /\ on'[t] = s /\ caller'[t] = by
    /\ \A u \in Threads \ {t} :
          pc'[u] = pc[u] /\ on'[u] = on[u] /\ caller'[u] = caller[u]
    /\ pc' \in [Threads -> PCs] /\ on' \in [Threads -> Owners]
    /\ caller' \in [Threads -> {"fault_handler", "collect", "burst_handler"}]
    /\ finished' \in [Threads -> BOOLEAN]

\* What is known of sample s stays as it is.
SameSample(s) ==
    /\ (s \in attached') = (s \in attached) /\ (s \in prot') = (s \in prot)
    /\ sstate'[s] = sstate[s] /\ wait_timer'[s] = wait_timer[s]
    /\ events'[s] = events[s]

\* The locals of a thread when a handler moves on, calls, or returns.
LEMMA LocalMoves ==
  ASSUME TypeOK, NEW t \in Threads
  PROVE  /\ \A label \in PCs :
              Go(t, label) => Moves(t, label, on[t], caller[t])
         /\ \A s \in Owners, by \in {"fault_handler", "collect", "burst_handler"} :
              CallComplete(t, s, by) => Moves(t, "complete", s, by)
         /\ Leave(t) => Moves(t, "idle", Chunk, "fault_handler")
<1>1. ASSUME NEW label \in PCs, Go(t, label) PROVE Moves(t, label, on[t], caller[t])
  BY <1>1 DEF Go, Moves, TypeOK
<1>2. ASSUME NEW s \in Owners, NEW by \in {"fault_handler", "collect", "burst_handler"},
             CallComplete(t, s, by)
      PROVE  Moves(t, "complete", s, by)
  BY <1>2 DEF CallComplete, Moves, TypeOK, PCs
<1>3. ASSUME Leave(t) PROVE Moves(t, "idle", Chunk, "fault_handler")
  BY <1>3 DEF Leave, Moves, TypeOK, PCs, Owners
<1> QED
  BY <1>1, <1>2, <1>3

\* The fault handlers of the other threads know what they knew, if the samples
\* they work on stay as they are.
LEMMA OtherFaults ==
  ASSUME NEW t \in Threads, NEW u \in Threads \ {t}, FaultInv(u),
         pc'[u] = pc[u], on'[u] = on[u], caller'[u] = caller[u],
         WorksOn(u) => SameSample(on[u])
  PROVE  FaultInv(u)'
BY DEF FaultInv, SameSample, Early, Late, Completing, WorksOn, Waiting, Skipping

\* Threads that touch different pages work on different ones.
LEMMA DifferentPages ==
  ASSUME Apart, NEW t \in Threads, NEW u \in Threads \ {t}, NEW s \in Touches[t],
         WorksOn(u)
  PROVE  on[u] # s
BY DEF Apart, WorksOn

\* A thread touches a protected page.
LEMMA FaultKeeps ==
  ASSUME IInv, NEW t \in Threads, NEW s \in Samples, Fault(t, s)
  PROVE  IInv'
<1> USE DEF IInv
<1>1. /\ Moves(t, "fault", s, caller[t]) /\ pc[t] = "idle" /\ alive
      /\ s \in Touches[t] /\ s \in prot
  BY DEF Fault, Moves, TypeOK, PCs, Owners
<1>2. UNCHANGED <<alive, sampleVars, queueVars, left>>
  BY DEF Fault, chunkVars
<1>3. TypeOK'
  BY <1>1, <1>2 DEF TypeOK, Moves, sampleVars, queueVars
<1>4. \A u \in Threads : FaultInv(u)'
  BY <1>1, <1>2 DEF FaultInv, Moves, sampleVars, queueVars, Early, Late, Completing,
     WorksOn, Waiting, Skipping, SampleInv
<1>5. \A u \in Threads : TimerInv(u)'
  BY <1>1, <1>2 DEF TimerInv, Moves, sampleVars, queueVars, InTimer, Completing, Skipping
<1>6. HandlersApart'
  BY <1>1, <1>2 DEF HandlersApart, Moves, InTimer, Late, Completing
<1>7. \A r \in Samples : SampleInv(r)'
  BY <1>1, <1>2 DEF SampleInv, Moves, sampleVars, queueVars, Waiting, Skipping, Unnoted
<1>8. Quiet'
  BY <1>1, <1>2 DEF Quiet, Moves, sampleVars
<1> QED
  BY <1>3, <1>4, <1>5, <1>6, <1>7, <1>8

\* page_fault_handler() tries the lock of the sample.
LEMMA HandlerKeeps ==
  ASSUME IInv, NEW t \in Threads, page_fault_handler(t)
  PROVE  IInv'
<1> USE DEF IInv
<1>1. /\ pc[t] = "fault"
      /\ Moves(t, "complete", on[t], "fault_handler") \/ Moves(t, "idle", Chunk, "fault_handler")
  BY LocalMoves DEF page_fault_handler, TypeOK
<1>2. UNCHANGED <<alive, attached, prot, sstate, wait_timer, queueVars, left>>
      /\ slock_by' \in [Samples -> Threads \cup {NoThread}]
  BY DEF page_fault_handler, chunkVars, TypeOK
<1>3. TypeOK'
  BY <1>1, <1>2 DEF TypeOK, Moves, queueVars
<1>4. \A u \in Threads : FaultInv(u)'
  BY <1>1, <1>2 DEF FaultInv, Moves, queueVars, Early, Late, Completing,
     WorksOn, Waiting, Skipping, SampleInv
<1>5. \A u \in Threads : TimerInv(u)'
  BY <1>1, <1>2 DEF TimerInv, Moves, queueVars, InTimer, Completing, Skipping
<1>6. HandlersApart'
  BY <1>1, <1>2 DEF HandlersApart, Moves, InTimer, Late, Completing
<1>7. \A r \in Samples : SampleInv(r)'
  BY <1>1, <1>2 DEF SampleInv, Moves, queueVars, Waiting, Skipping, Unnoted
<1>8. Quiet'
  BY <1>1, <1>2 DEF Quiet, Moves
<1> QED
  BY <1>3, <1>4, <1>5, <1>6, <1>7, <1>8
\* The fault of a finished chunk opens the page and gives the sample up.  Only
\* this thread touches the page, so no other handler is at work on it.
LEMMA FinishedKeeps ==
  ASSUME Apart, IInv, NEW t \in Threads, FaultFinished(t)
  PROVE  IInv'
<1> USE DEF IInv
<1>1. /\ pc[t] = "fault_handler" /\ Moves(t, "idle", Chunk, "fault_handler")
      /\ on[t] \in Samples /\ on[t] \in prot /\ on[t] \in Touches[t]
  BY LocalMoves DEF FaultFinished, TypeOK, FaultInv, Early, WorksOn
<1>2. /\ UNCHANGED <<alive, attached, wait_timer, queueVars, left>>
      /\ prot' = prot \ {on[t]} /\ sstate'[on[t]] = "UNINIT"
      /\ sstate' \in [Samples -> SampleStates]
      /\ \A r \in Samples \ {on[t]} : sstate'[r] = sstate[r]
      /\ slock_by' \in [Samples -> Threads \cup {NoThread}]
  BY <1>1 DEF FaultFinished, chunkVars, TypeOK, SampleStates, UnlockSample
<1>3. TypeOK'
  BY <1>1, <1>2 DEF TypeOK, Moves, queueVars
<1>4. \A u \in Threads : FaultInv(u)'
  <2>1. FaultInv(t)'
    BY <1>1, <1>2 DEF FaultInv, Moves, queueVars, Early, Late, Completing, WorksOn, Waiting,
       Skipping, SampleInv
  <2>2. ASSUME NEW u \in Threads \ {t} PROVE FaultInv(u)'
    <3>1. WorksOn(u) => SameSample(on[u])
      BY <1>1, <1>2, DifferentPages DEF SameSample, WorksOn, queueVars, TypeOK
    <3> QED
      BY <1>1, <1>2, <3>1, OtherFaults DEF Moves
  <2> QED
    BY <2>1, <2>2
<1>5. \A u \in Threads : TimerInv(u)'
  BY <1>1, <1>2 DEF FaultInv, TimerInv, HandlersApart, Moves, queueVars, InTimer, Late,
     Completing, Skipping, SampleInv, TypeOK
<1>6. HandlersApart'
  BY <1>1, <1>2 DEF HandlersApart, Moves, InTimer, Late, Early, Completing, TimerInv, FaultInv
<1>7. \A r \in Samples : SampleInv(r)'
  BY <1>1, <1>2 DEF SampleInv, Moves, queueVars, Waiting, Skipping, Unnoted, FaultInv, TimerInv,
     Early, Late, InTimer, Completing, WorksOn, TypeOK
<1>8. Quiet'
  BY <1>1, <1>2 DEF Quiet, Moves, TimerInv, FaultInv, WorksOn, Early
<1> QED
  BY <1>3, <1>4, <1>5, <1>6, <1>7, <1>8

\* The fault of a monitored chunk opens the page.
LEMMA TakenKeeps ==
  ASSUME Apart, IInv, NEW t \in Threads, FaultTaken(t)
  PROVE  IInv'
<1> USE DEF IInv
<1>1. /\ pc[t] = "fault_handler" /\ Moves(t, "collect", on[t], caller[t])
      /\ on[t] \in Samples /\ on[t] \in prot /\ on[t] \in Touches[t]
  BY LocalMoves DEF FaultTaken, TypeOK, FaultInv, Early, WorksOn, PCs
<1>2. /\ UNCHANGED <<alive, attached, sstate, wait_timer, slock_by, queueVars, left>>
      /\ prot' = prot \ {on[t]}
  BY <1>1 DEF FaultTaken, chunkVars
<1>3. TypeOK'
  BY <1>1, <1>2 DEF TypeOK, Moves, queueVars
<1>4. \A u \in Threads : FaultInv(u)'
  <2>1. FaultInv(t)'
    BY <1>1, <1>2 DEF FaultInv, Moves, queueVars, Early, Late, Completing, WorksOn, Waiting,
       Skipping, SampleInv
  <2>2. ASSUME NEW u \in Threads \ {t} PROVE FaultInv(u)'
    <3>1. WorksOn(u) => SameSample(on[u])
      BY <1>1, <1>2, DifferentPages DEF SameSample, WorksOn, queueVars, TypeOK
    <3> QED
      BY <1>1, <1>2, <3>1, OtherFaults DEF Moves
  <2> QED
    BY <2>1, <2>2
<1>5. \A u \in Threads : TimerInv(u)'
  BY <1>1, <1>2 DEF FaultInv, TimerInv, HandlersApart, Moves, queueVars, InTimer, Late,
     Completing, Skipping, SampleInv, TypeOK
<1>6. HandlersApart'
  BY <1>1, <1>2 DEF HandlersApart, Moves, InTimer, Late, Early, Completing, TimerInv, FaultInv
<1>7. \A r \in Samples : SampleInv(r)'
  BY <1>1, <1>2 DEF SampleInv, Moves, queueVars, Waiting, Skipping, Unnoted, FaultInv, TimerInv,
     Early, Late, InTimer, Completing, WorksOn, TypeOK
<1>8. Quiet'
  BY <1>1, <1>2 DEF Quiet, Moves, TimerInv, FaultInv, WorksOn, Early
<1> QED
  BY <1>3, <1>4, <1>5, <1>6, <1>7, <1>8

\* collect_page_sample() and update_chunk_sample(): the sample skips from here on.
LEMMA CollectKeeps ==
  ASSUME Apart, IInv, NEW t \in Threads, CollectBurst(t) \/ update_chunk_sample(t)
  PROVE  IInv'
<1> USE DEF IInv
<1>1. /\ pc[t] = "collect" /\ Moves(t, "complete", on[t], "collect")
      /\ on[t] \in Samples /\ on[t] \in Touches[t]
  BY LocalMoves DEF CollectBurst, update_chunk_sample, TypeOK, FaultInv, WorksOn, Owners
<1>2. /\ UNCHANGED <<alive, attached, prot, wait_timer, slock_by, queueVars, left>>
      /\ sstate'[on[t]] \in {"BURST", "FIRST"}
      /\ sstate' \in [Samples -> SampleStates]
      /\ \A r \in Samples \ {on[t]} : sstate'[r] = sstate[r]
  <2>1. sstate[on[t]] \in {"FIRST", "SUCCESSIVE"}
    BY <1>1 DEF FaultInv, Waiting
  <2> QED
    BY <1>1, <2>1 DEF CollectBurst, update_chunk_sample, chunkVars, TypeOK, SampleStates
<1>3. TypeOK'
  BY <1>1, <1>2 DEF TypeOK, Moves, queueVars
<1>4. \A u \in Threads : FaultInv(u)'
  <2>1. FaultInv(t)'
    BY <1>1, <1>2 DEF FaultInv, Moves, queueVars, Early, Late, Completing, WorksOn, Waiting,
       Skipping, SampleInv
  <2>2. ASSUME NEW u \in Threads \ {t} PROVE FaultInv(u)'
    <3>1. WorksOn(u) => SameSample(on[u])
      BY <1>1, <1>2, DifferentPages DEF SameSample, WorksOn, queueVars, TypeOK
    <3> QED
      BY <1>1, <1>2, <3>1, OtherFaults DEF Moves
  <2> QED
    BY <2>1, <2>2
<1>5. \A u \in Threads : TimerInv(u)'
  BY <1>1, <1>2 DEF FaultInv, TimerInv, HandlersApart, Moves, queueVars, InTimer, Late,
     Completing, Skipping, SampleInv, TypeOK
<1>6. HandlersApart'
  BY <1>1, <1>2 DEF HandlersApart, Moves, InTimer, Late, Early, Completing, TimerInv, FaultInv
<1>7. \A r \in Samples : SampleInv(r)'
  BY <1>1, <1>2 DEF SampleInv, Moves, queueVars, Waiting, Skipping, Unnoted, FaultInv, TimerInv,
     Early, Late, InTimer, Completing, WorksOn, TypeOK
<1>8. Quiet'
  BY <1>1, <1>2 DEF Quiet, Moves, TimerInv, FaultInv, WorksOn, Early
<1> QED
  BY <1>3, <1>4, <1>5, <1>6, <1>7, <1>8

\* page_sample_complete() answers: its caller goes on, or gives the sample up.
LEMMA AnswerKeeps ==
  ASSUME Apart, IInv, NEW t \in Threads, NEW fin \in BOOLEAN, Answer(t, fin),
         pc[t] \in {"complete", "chunk_lock", "add_revive"},
         UNCHANGED <<alive, attached, prot, wait_timer, queue_lock, left>>,
         events' \in [Owners -> Nat], \A s \in Samples : events'[s] = events[s]
  PROVE  IInv'
<1> USE DEF IInv
<1>0. /\ on[t] \in Samples
      /\ caller[t] # "burst_handler" => on[t] \in Touches[t]
      /\ caller[t] \in {"fault_handler", "collect", "burst_handler"}
  BY DEF TypeOK, FaultInv, TimerInv, Early, Late, InTimer, Completing, WorksOn
<1>1. CASE caller[t] = "collect" /\ fin
  <2>1. /\ Moves(t, "idle", Chunk, "fault_handler")
        /\ sstate'[on[t]] = "UNINIT" /\ sstate' \in [Samples -> SampleStates]
        /\ \A r \in Samples \ {on[t]} : sstate'[r] = sstate[r]
        /\ slock_by' \in [Samples -> Threads \cup {NoThread}]
    <3>1. /\ Leave(t) /\ sstate' = [sstate EXCEPT ![on[t]] = "UNINIT"]
          /\ slock_by' = [slock_by EXCEPT ![on[t]] = NoThread]
      BY <1>1 DEF Answer, UnlockSample
    <3>2. Moves(t, "idle", Chunk, "fault_handler")
      BY <3>1, LocalMoves
    <3>3. /\ sstate'[on[t]] = "UNINIT" /\ sstate' \in [Samples -> SampleStates]
          /\ \A r \in Samples \ {on[t]} : sstate'[r] = sstate[r]
          /\ slock_by' \in [Samples -> Threads \cup {NoThread}]
      BY <1>0, <3>1 DEF TypeOK, SampleStates
    <3> QED
      BY <3>2, <3>3
  <2>3. TypeOK'
    BY <1>0, <1>1, <2>1 DEF TypeOK, Moves, queueVars
  <2>4. \A u \in Threads : FaultInv(u)'
    <3>1. FaultInv(t)'
      BY <1>0, <1>1, <2>1 DEF FaultInv, Moves, queueVars, Early, Late, Completing, WorksOn, Waiting,
         Skipping, SampleInv
    <3>2. ASSUME NEW u \in Threads \ {t} PROVE FaultInv(u)'
      <4>1. WorksOn(u) => SameSample(on[u])
        BY <1>0, <1>1, <2>1, DifferentPages DEF SameSample, WorksOn, queueVars, TypeOK
      <4> QED
        BY <1>0, <1>1, <2>1, <4>1, OtherFaults DEF Moves
    <3> QED
      BY <3>1, <3>2
  <2>5. \A u \in Threads : TimerInv(u)'
    BY <1>0, <1>1, <2>1 DEF FaultInv, TimerInv, HandlersApart, Moves, queueVars, InTimer, Late,
       Completing, Skipping, SampleInv, TypeOK
  <2>6. HandlersApart'
    BY <1>0, <1>1, <2>1 DEF HandlersApart, Moves, InTimer, Late, Early, Completing, TimerInv, FaultInv
  <2>7. \A r \in Samples : SampleInv(r)'
    BY <1>0, <1>1, <2>1 DEF SampleInv, Moves, queueVars, Waiting, Skipping, Unnoted, FaultInv, TimerInv,
       Early, Late, InTimer, Completing, WorksOn, TypeOK
  <2>8. Quiet'
    BY <1>0, <1>1, <2>1 DEF Quiet, Moves, TimerInv, FaultInv, WorksOn, Early
  <2> QED
    BY <2>3, <2>4, <2>5, <2>6, <2>7, <2>8
<1>2. CASE ~ (caller[t] = "collect" /\ fin)
  <2>1. /\ Moves(t, IF caller[t] = "collect" THEN "add_burst" ELSE caller[t], on[t], caller[t])
        /\ UNCHANGED <<sstate, slock_by>>
    BY <1>0, <1>2 DEF Answer, TypeOK, Moves, PCs
  <2>3. TypeOK'
    BY <1>0, <1>2, <2>1 DEF TypeOK, Moves, queueVars
  <2>4. \A u \in Threads : FaultInv(u)'
    <3>1. FaultInv(t)'
      <4>1. CASE caller[t] = "fault_handler"
        BY <1>0, <2>1, <4>1 DEF FaultInv, Moves, Early, Late, Completing, WorksOn
      <4>2. CASE caller[t] = "collect"
        BY <1>0, <2>1, <4>2 DEF FaultInv, Moves, Early, Late, Completing, WorksOn, Skipping
      <4>3. CASE caller[t] = "burst_handler"
        BY <1>0, <2>1, <4>3 DEF FaultInv, Moves, Early, Late, Completing
      <4> QED
        BY <1>0, <4>1, <4>2, <4>3
    <3>2. ASSUME NEW u \in Threads \ {t} PROVE FaultInv(u)'
      <4>1. WorksOn(u) => SameSample(on[u])
        BY <1>0, <1>2, <2>1, DifferentPages DEF SameSample, WorksOn, queueVars, TypeOK
      <4> QED
        BY <1>0, <1>2, <2>1, <4>1, OtherFaults DEF Moves
    <3> QED
      BY <3>1, <3>2
  <2>5. \A u \in Threads : TimerInv(u)'
    BY <1>0, <1>2, <2>1 DEF FaultInv, TimerInv, HandlersApart, Moves, queueVars, InTimer, Late,
       Completing, Skipping, SampleInv, TypeOK
  <2>6. HandlersApart'
    BY <1>0, <1>2, <2>1 DEF HandlersApart, Moves, InTimer, Late, Early, Completing, TimerInv, FaultInv
  <2>7. \A r \in Samples : SampleInv(r)'
    BY <1>0, <1>2, <2>1 DEF SampleInv, Moves, queueVars, Waiting, Skipping, Unnoted, FaultInv, TimerInv,
       Early, Late, InTimer, Completing, WorksOn, TypeOK
  <2>8. Quiet'
    BY <1>0, <1>2, <2>1 DEF Quiet, Moves, TimerInv, FaultInv, WorksOn, Early
  <2> QED
    BY <2>3, <2>4, <2>5, <2>6, <2>7, <2>8
<1> QED
  BY <1>1, <1>2

\* page_sample_complete() moves on with the sample as it is.
LEMMA CompletingKeeps ==
  ASSUME Apart, IInv, NEW t \in Threads, NEW label \in {"chunk_lock", "add_revive"},
         pc[t] \in {"complete", "chunk_lock"}, Moves(t, label, on[t], caller[t]),
         UNCHANGED <<alive, sampleVars, queueVars, left>>
  PROVE  IInv'
<1> USE DEF IInv
<1>1. Moves(t, label, on[t], caller[t]) /\ pc[t] \in {"complete", "chunk_lock"}
  OBVIOUS
<1>2. UNCHANGED <<alive, attached, prot, sstate, wait_timer, slock_by, queueVars, left>>
  BY DEF sampleVars
<1>3. TypeOK'
  BY <1>1, <1>2 DEF TypeOK, Moves, queueVars
<1>4. \A u \in Threads : FaultInv(u)'
  BY <1>1, <1>2 DEF FaultInv, TimerInv, HandlersApart, Moves, queueVars, Early, Late, InTimer,
     Completing, WorksOn, Waiting, Skipping, SampleInv, Quiet, TypeOK
<1>5. \A u \in Threads : TimerInv(u)'
  BY <1>1, <1>2 DEF FaultInv, TimerInv, HandlersApart, Moves, queueVars, InTimer, Late,
     Completing, Skipping, SampleInv, TypeOK
<1>6. HandlersApart'
  BY <1>1, <1>2 DEF HandlersApart, Moves, InTimer, Late, Early, Completing, TimerInv, FaultInv
<1>7. \A r \in Samples : SampleInv(r)'
  BY <1>1, <1>2 DEF SampleInv, Moves, queueVars, Waiting, Skipping, Unnoted, FaultInv, TimerInv,
     Early, Late, InTimer, Completing, WorksOn, TypeOK
<1>8. Quiet'
  BY <1>1, <1>2 DEF Quiet, Moves, TimerInv, FaultInv, WorksOn, Early
<1> QED
  BY <1>3, <1>4, <1>5, <1>6, <1>7, <1>8

\* ReadChunkState, page_sample_complete() and the revive event.
LEMMA CompleteKeeps ==
  ASSUME Apart, IInv, NEW t \in Threads,
         ReadChunkState(t) \/ page_sample_complete(t) \/ AddRevive(t)
  PROVE  IInv'
<1>1. CASE ReadChunkState(t)
  <2>1. /\ pc[t] = "complete"
        /\ UNCHANGED <<alive, attached, prot, wait_timer, queue_lock, left, events, dropped>>
        /\ \/ Answer(t, TRUE)
           \/ Go(t, "chunk_lock") /\ UNCHANGED <<sstate, slock_by>>
    BY <1>1 DEF ReadChunkState, chunkVars, queueVars
  <2>2. CASE Answer(t, TRUE)
    BY <2>1, <2>2, AnswerKeeps DEF IInv, TypeOK
  <2>3. CASE Go(t, "chunk_lock") /\ UNCHANGED <<sstate, slock_by>>
    BY <2>1, <2>3, LocalMoves, CompletingKeeps DEF IInv, PCs, sampleVars, queueVars
  <2> QED
    BY <2>1, <2>2, <2>3
<1>2. CASE page_sample_complete(t)
  <2>1. /\ pc[t] = "chunk_lock"
        /\ UNCHANGED <<alive, attached, prot, wait_timer, queueVars, left>>
        /\ \/ \E fin \in BOOLEAN : Answer(t, fin)
           \/ /\ pc' = [pc EXCEPT ![t] = "add_revive"]
              /\ \E fin \in BOOLEAN : finished' = [finished EXCEPT ![t] = fin]
              /\ UNCHANGED <<on, caller, sstate, slock_by>>
    BY <1>2 DEF page_sample_complete
  <2>2. ASSUME NEW fin \in BOOLEAN, Answer(t, fin) PROVE IInv'
    BY <2>1, <2>2, AnswerKeeps DEF IInv, TypeOK, queueVars
  <2>3. CASE /\ pc' = [pc EXCEPT ![t] = "add_revive"]
             /\ \E fin \in BOOLEAN : finished' = [finished EXCEPT ![t] = fin]
             /\ UNCHANGED <<on, caller, sstate, slock_by>>
    <3>1. Moves(t, "add_revive", on[t], caller[t])
      BY <2>3 DEF IInv, TypeOK, Moves, PCs
    <3> QED
      BY <2>1, <2>3, <3>1, CompletingKeeps DEF sampleVars
  <2> QED
    BY <2>1, <2>2, <2>3
<1>3. CASE AddRevive(t)
  <2>1. /\ pc[t] = "add_revive" /\ Answer(t, finished[t]) /\ finished[t] \in BOOLEAN
        /\ UNCHANGED <<alive, attached, prot, wait_timer, queue_lock, left>>
        /\ events' \in [Owners -> Nat]
    BY <1>3 DEF AddRevive, IInv, TypeOK, Owners
  <2>2. \A s \in Samples : events'[s] = events[s]
    BY <1>3, MonitorAssumption DEF AddRevive, IInv, TypeOK, Owners
  <2> QED
    BY <2>1, <2>2, AnswerKeeps
<1> QED
  BY <1>1, <1>2, <1>3

\* collect_page_sample() sets the timer of the sample, which has none.
LEMMA AddBurstKeeps ==
  ASSUME Apart, IInv, NEW t \in Threads, AddBurst(t)
  PROVE  IInv'
<1> USE DEF IInv
<1>1. /\ pc[t] = "add_burst" /\ Moves(t, "added", on[t], caller[t])
      /\ on[t] \in Samples /\ on[t] \in Touches[t]
  BY LocalMoves DEF AddBurst, TypeOK, FaultInv, Late, WorksOn, PCs
<1>2. /\ UNCHANGED <<alive, attached, prot, sstate, wait_timer, slock_by, queue_lock, left>>
      /\ events' \in [Owners -> Nat] /\ events'[on[t]] = 1
      /\ \A r \in Samples \ {on[t]} : events'[r] = events[r]
  <2>1. events[on[t]] = 0
    BY <1>1 DEF FaultInv, Late
  <2> QED
    BY <1>1, <2>1 DEF AddBurst, chunkVars, sampleVars, TypeOK, Owners
<1>3. TypeOK'
  BY <1>1, <1>2 DEF TypeOK, Moves, queueVars
<1>4. \A u \in Threads : FaultInv(u)'
  <2>1. FaultInv(t)'
    BY <1>1, <1>2 DEF FaultInv, Moves, queueVars, Early, Late, Completing, WorksOn, Waiting,
       Skipping, SampleInv
  <2>2. ASSUME NEW u \in Threads \ {t} PROVE FaultInv(u)'
    <3>1. WorksOn(u) => SameSample(on[u])
      BY <1>1, <1>2, DifferentPages DEF SameSample, WorksOn, queueVars, TypeOK
    <3> QED
      BY <1>1, <1>2, <3>1, OtherFaults DEF Moves
  <2> QED
    BY <2>1, <2>2
<1>5. \A u \in Threads : TimerInv(u)'
  BY <1>1, <1>2 DEF FaultInv, TimerInv, HandlersApart, Moves, queueVars, InTimer, Late,
     Completing, Skipping, SampleInv, TypeOK
<1>6. HandlersApart'
  BY <1>1, <1>2 DEF HandlersApart, Moves, InTimer, Late, Early, Completing, TimerInv, FaultInv
<1>7. \A r \in Samples : SampleInv(r)'
  BY <1>1, <1>2 DEF SampleInv, Moves, queueVars, Waiting, Skipping, Unnoted, FaultInv, TimerInv,
     Early, Late, InTimer, Completing, WorksOn, TypeOK
<1>8. Quiet'
  BY <1>1, <1>2 DEF Quiet, Moves, TimerInv, FaultInv, WorksOn, Early
<1> QED
  BY <1>3, <1>4, <1>5, <1>6, <1>7, <1>8

\* ... and notes it.
LEMMA NoteBurstKeeps ==
  ASSUME Apart, IInv, NEW t \in Threads, NoteBurst(t)
  PROVE  IInv'
<1> USE DEF IInv
<1>1. /\ pc[t] = "added" /\ Moves(t, "idle", Chunk, "fault_handler")
      /\ on[t] \in Samples /\ on[t] \in Touches[t]
  BY LocalMoves DEF NoteBurst, TypeOK, FaultInv, WorksOn
<1>2. /\ UNCHANGED <<alive, attached, prot, sstate, events, queue_lock, left>>
      /\ wait_timer' \in [Samples -> BOOLEAN] /\ wait_timer'[on[t]]
      /\ \A r \in Samples \ {on[t]} : wait_timer'[r] = wait_timer[r]
      /\ slock_by' \in [Samples -> Threads \cup {NoThread}]
  BY <1>1 DEF NoteBurst, chunkVars, queueVars, TypeOK, UnlockSample
<1>3. TypeOK'
  BY <1>1, <1>2 DEF TypeOK, Moves, queueVars
<1>4. \A u \in Threads : FaultInv(u)'
  BY <1>1, <1>2 DEF FaultInv, TimerInv, HandlersApart, Moves, queueVars, Early, Late, InTimer,
     Completing, WorksOn, Waiting, Skipping, SampleInv, Quiet, TypeOK
<1>5. \A u \in Threads : TimerInv(u)'
  BY <1>1, <1>2 DEF FaultInv, TimerInv, HandlersApart, Moves, queueVars, InTimer, Late,
     Completing, Skipping, SampleInv, TypeOK
<1>6. HandlersApart'
  BY <1>1, <1>2 DEF HandlersApart, Moves, InTimer, Late, Early, Completing, TimerInv, FaultInv
<1>7. \A r \in Samples : SampleInv(r)'
  BY <1>1, <1>2 DEF SampleInv, Moves, queueVars, Waiting, Skipping, Unnoted, FaultInv, TimerInv,
     Early, Late, InTimer, Completing, WorksOn, TypeOK
<1>8. Quiet'
  BY <1>1, <1>2 DEF Quiet, Moves, TimerInv, FaultInv, WorksOn, Early
<1> QED
  BY <1>3, <1>4, <1>5, <1>6, <1>7, <1>8

\* SIGALRM runs the handler of a sample's timer.
LEMMA FireBurstKeeps ==
  ASSUME Apart, IInv, NEW t \in Threads, NEW s \in Samples, FireBurst(t, s)
  PROVE  IInv'
<1> USE DEF IInv
<1>0. \A u \in Threads : u # NoThread
  BY MonitorAssumption
<1>1. /\ pc[t] = "idle" /\ Moves(t, "complete", s, "burst_handler")
      /\ queue_lock = NoThread /\ queue_lock' = t /\ s \in attached /\ events[s] = 1
  BY LocalMoves DEF FireBurst, TypeOK, Owners, SampleInv
<1>2. /\ UNCHANGED <<alive, attached, prot, sstate, slock_by, left>>
      /\ events' \in [Owners -> Nat] /\ events'[s] = 0
      /\ \A r \in Samples \ {s} : events'[r] = events[r]
      /\ wait_timer' \in [Samples -> BOOLEAN]
      /\ \A r \in Samples \ {s} : wait_timer'[r] = wait_timer[r]
  BY <1>1 DEF FireBurst, chunkVars, TypeOK, Owners
<1>3. TypeOK'
  BY <1>0, <1>1, <1>2 DEF TypeOK, Moves, queueVars
<1>4. \A u \in Threads : FaultInv(u)'
  BY <1>0, <1>1, <1>2 DEF FaultInv, TimerInv, HandlersApart, Moves, queueVars, Early, Late, InTimer,
     Completing, WorksOn, Waiting, Skipping, SampleInv, Quiet, TypeOK
<1>5. \A u \in Threads : TimerInv(u)'
  BY <1>0, <1>1, <1>2 DEF FaultInv, TimerInv, HandlersApart, Moves, queueVars, InTimer, Late,
     Completing, Skipping, SampleInv, TypeOK
<1>6. HandlersApart'
  BY <1>0, <1>1, <1>2 DEF HandlersApart, Moves, InTimer, Late, Early, Completing, TimerInv, FaultInv
<1>7. \A r \in Samples : SampleInv(r)'
  BY <1>0, <1>1, <1>2 DEF SampleInv, Moves, queueVars, Waiting, Skipping, Unnoted, FaultInv, TimerInv,
     Early, Late, InTimer, Completing, WorksOn, TypeOK
<1>8. Quiet'
  BY <1>0, <1>1, <1>2 DEF Quiet, Moves, TimerInv, FaultInv, WorksOn, Early
<1> QED
  BY <1>3, <1>4, <1>5, <1>6, <1>7, <1>8

\* burst_skip_handler() protects the page of its sample, or gives it up.
LEMMA BurstKeeps ==
  ASSUME Apart, IInv, NEW t \in Threads, burst_skip_handler(t)
  PROVE  IInv'
<1> USE DEF IInv
<1>0. \A u \in Threads : u # NoThread
  BY MonitorAssumption
<1>1. /\ pc[t] = "burst_handler" /\ Moves(t, "idle", Chunk, "fault_handler")
      /\ queue_lock = t /\ queue_lock' = NoThread /\ on[t] \in Samples
  BY LocalMoves DEF burst_skip_handler, TypeOK, TimerInv, InTimer
<1>2. /\ UNCHANGED <<alive, attached, wait_timer, slock_by, events, left>>
      /\ sstate' \in [Samples -> SampleStates]
      /\ \A r \in Samples \ {on[t]} : sstate'[r] = sstate[r]
      /\ \/ prot' = prot
         \/ prot' = prot \cup {on[t]} /\ sstate'[on[t]] \in {"FIRST", "SUCCESSIVE"}
  <2>1. sstate[on[t]] \in {"BURST", "FIRST"}
    BY <1>1 DEF TimerInv, InTimer, Skipping
  <2> QED
    BY <1>1, <2>1 DEF burst_skip_handler, chunkVars, TypeOK, SampleStates
<1>3. TypeOK'
  BY <1>0, <1>1, <1>2 DEF TypeOK, Moves, queueVars
<1>4. \A u \in Threads : FaultInv(u)'
  BY <1>0, <1>1, <1>2 DEF FaultInv, TimerInv, HandlersApart, Moves, queueVars, Early, Late, InTimer,
     Completing, WorksOn, Waiting, Skipping, SampleInv, Quiet, TypeOK
<1>5. \A u \in Threads : TimerInv(u)'
  BY <1>0, <1>1, <1>2 DEF FaultInv, TimerInv, HandlersApart, Moves, queueVars, InTimer, Late,
     Completing, Skipping, SampleInv, TypeOK
<1>6. HandlersApart'
  BY <1>0, <1>1, <1>2 DEF HandlersApart, Moves, InTimer, Late, Early, Completing, TimerInv, FaultInv
<1>7. \A r \in Samples : SampleInv(r)'
  BY <1>0, <1>1, <1>2 DEF SampleInv, Moves, queueVars, Waiting, Skipping, Unnoted, FaultInv, TimerInv,
     Early, Late, InTimer, Completing, WorksOn, TypeOK
<1>8. Quiet'
  BY <1>0, <1>1, <1>2 DEF Quiet, Moves, TimerInv, FaultInv, WorksOn, Early
<1> QED
  BY <1>3, <1>4, <1>5, <1>6, <1>7, <1>8

\* SIGALRM runs the handler of the chunk's revive event.
LEMMA FireReviveKeeps ==
  ASSUME Apart, IInv, NEW t \in Threads, FireRevive(t)
  PROVE  IInv'
<1> USE DEF IInv
<1>0. \A u \in Threads : u # NoThread
  BY MonitorAssumption
<1>1. /\ pc[t] = "idle" /\ Moves(t, "revive", on[t], caller[t]) /\ alive
      /\ queue_lock = NoThread /\ queue_lock' = t /\ left' = attached
  BY LocalMoves DEF FireRevive, PCs
<1>2. /\ UNCHANGED <<alive, attached, prot, sstate, wait_timer, slock_by>>
      /\ events' \in [Owners -> Nat]
      /\ \A r \in Samples : events'[r] = events[r]
  BY MonitorAssumption DEF FireRevive, sampleVars, TypeOK, Owners
<1>3. TypeOK'
  BY <1>0, <1>1, <1>2 DEF TypeOK, Moves, queueVars
<1>4. \A u \in Threads : FaultInv(u)'
  BY <1>0, <1>1, <1>2 DEF FaultInv, TimerInv, HandlersApart, Moves, queueVars, Early, Late, InTimer,
     Completing, WorksOn, Waiting, Skipping, SampleInv, Quiet, TypeOK
<1>5. \A u \in Threads : TimerInv(u)'
  BY <1>0, <1>1, <1>2 DEF FaultInv, TimerInv, HandlersApart, Moves, queueVars, InTimer, Late,
     Completing, Skipping, SampleInv, TypeOK
<1>6. HandlersApart'
  BY <1>0, <1>1, <1>2 DEF HandlersApart, Moves, InTimer, Late, Early, Completing, TimerInv, FaultInv
<1>7. \A r \in Samples : SampleInv(r)'
  BY <1>0, <1>1, <1>2 DEF SampleInv, Moves, queueVars, Waiting, Skipping, Unnoted, FaultInv, TimerInv,
     Early, Late, InTimer, Completing, WorksOn, TypeOK
<1>8. Quiet'
  BY <1>0, <1>1, <1>2 DEF Quiet, Moves, TimerInv, FaultInv, WorksOn, Early
<1> QED
  BY <1>3, <1>4, <1>5, <1>6, <1>7, <1>8

\* revive_sample_handler() starts a sample that is idle afresh.
LEMMA ReviveSampleKeeps ==
  ASSUME Apart, IInv, NEW t \in Threads, NEW s \in Samples, ReviveSample(t, s)
  PROVE  IInv'
<1> USE DEF IInv
<1>1. /\ pc[t] = "revive" /\ s \in left /\ left' = left \ {s} /\ s \in attached
      /\ UNCHANGED <<alive, attached, events, queue_lock, pc, on, caller, finished>>
      /\ queue_lock = t
  BY DEF ReviveSample, chunkVars, queueVars, localVars, Quiet, TimerInv
<1>2. \/ UNCHANGED <<sstate, wait_timer, prot, slock_by>>
      \/ /\ sstate[s] = "UNINIT" /\ sstate'[s] = "FIRST"
         /\ \A r \in Samples \ {s} : sstate'[r] = sstate[r] /\ wait_timer'[r] = wait_timer[r]
         /\ sstate' \in [Samples -> SampleStates] /\ wait_timer' \in [Samples -> BOOLEAN]
         /\ prot' = prot \cup {s} /\ slock_by' \in [Samples -> Threads \cup {NoThread}]
  <2>1. CASE sstate[s] = "UNINIT"
    <3>1. /\ sstate' = [sstate EXCEPT ![s] = "FIRST"]
          /\ wait_timer' = [wait_timer EXCEPT ![s] = FALSE]
          /\ prot' = prot \cup {s} /\ slock_by' = [slock_by EXCEPT ![s] = NoThread]
      BY <2>1 DEF ReviveSample, UnlockSample
    <3>2. "FIRST" \in SampleStates
      BY DEF SampleStates
    <3>3. sstate' \in [Samples -> SampleStates] /\ wait_timer' \in [Samples -> BOOLEAN]
          /\ slock_by' \in [Samples -> Threads \cup {NoThread}]
      BY <3>1, <3>2 DEF TypeOK
    <3>4. /\ sstate'[s] = "FIRST"
          /\ \A r \in Samples \ {s} : sstate'[r] = sstate[r] /\ wait_timer'[r] = wait_timer[r]
      BY <3>1 DEF TypeOK
    <3> QED
      BY <2>1, <3>1, <3>3, <3>4
  <2>2. CASE sstate[s] # "UNINIT"
    BY <2>2 DEF ReviveSample
  <2> QED
    BY <2>1, <2>2
<1>3. TypeOK'
  BY <1>1, <1>2 DEF TypeOK, Moves, queueVars
<1>4. \A u \in Threads : FaultInv(u)'
  BY <1>1, <1>2 DEF FaultInv, TimerInv, HandlersApart, Moves, queueVars, Early, Late, InTimer,
     Completing, WorksOn, Waiting, Skipping, SampleInv, Quiet, TypeOK
<1>5. \A u \in Threads : TimerInv(u)'
  BY <1>1, <1>2 DEF FaultInv, TimerInv, HandlersApart, Moves, queueVars, InTimer, Late,
     Completing, Skipping, SampleInv, TypeOK
<1>6. HandlersApart'
  BY <1>1, <1>2 DEF HandlersApart, Moves, InTimer, Late, Early, Completing, TimerInv, FaultInv
<1>7. \A r \in Samples : SampleInv(r)'
  <2>1. \A r \in Samples : Unnoted(r)' = Unnoted(r)
    BY <1>1 DEF Unnoted
  <2>2. ASSUME NEW r \in Samples PROVE SampleInv(r)'
    <3>1. CASE SameSample(r)
      BY <2>1, <3>1 DEF SampleInv, SameSample, Waiting, Skipping
    <3>2. CASE r = s /\ sstate[s] = "UNINIT" /\ sstate'[s] = "FIRST"
      <4>1. events[s] = 0
        BY <3>2 DEF SampleInv, Skipping, TypeOK, Owners
      <4> QED
        BY <1>1, <3>2, <4>1 DEF SampleInv, Waiting
    <3> QED
      BY <1>1, <1>2, <3>1, <3>2 DEF SameSample
  <2> QED
    BY <2>2
<1>8. Quiet'
  BY <1>1, <1>2 DEF Quiet, Moves, TimerInv, FaultInv, WorksOn, Early
<1> QED
  BY <1>3, <1>4, <1>5, <1>6, <1>7, <1>8

\* ... and ends.
LEMMA ReviveEndKeeps ==
  ASSUME Apart, IInv, NEW t \in Threads, revive_sample_handler(t)
  PROVE  IInv'
<1> USE DEF IInv
<1>0. \A u \in Threads : u # NoThread
  BY MonitorAssumption
<1>1. /\ pc[t] = "revive" /\ Moves(t, "idle", Chunk, "fault_handler") /\ left = {}
      /\ queue_lock = t /\ queue_lock' = NoThread
  BY LocalMoves DEF revive_sample_handler, TimerInv
<1>2. UNCHANGED <<alive, attached, prot, sstate, wait_timer, slock_by, events, left>>
  BY DEF revive_sample_handler, sampleVars
<1>3. TypeOK'
  BY <1>0, <1>1, <1>2 DEF TypeOK, Moves, queueVars
<1>4. \A u \in Threads : FaultInv(u)'
  BY <1>0, <1>1, <1>2 DEF FaultInv, TimerInv, HandlersApart, Moves, queueVars, Early, Late, InTimer,
     Completing, WorksOn, Waiting, Skipping, SampleInv, Quiet, TypeOK
<1>5. \A u \in Threads : TimerInv(u)'
  BY <1>0, <1>1, <1>2 DEF FaultInv, TimerInv, HandlersApart, Moves, queueVars, InTimer, Late,
     Completing, Skipping, SampleInv, TypeOK
<1>6. HandlersApart'
  BY <1>0, <1>1, <1>2 DEF HandlersApart, Moves, InTimer, Late, Early, Completing, TimerInv, FaultInv
<1>7. \A r \in Samples : SampleInv(r)'
  BY <1>0, <1>1, <1>2 DEF SampleInv, Moves, queueVars, Waiting, Skipping, Unnoted, FaultInv, TimerInv,
     Early, Late, InTimer, Completing, WorksOn, TypeOK
<1>8. Quiet'
  BY <1>0, <1>1, <1>2 DEF Quiet, Moves, TimerInv, FaultInv, WorksOn, Early
<1> QED
  BY <1>3, <1>4, <1>5, <1>6, <1>7, <1>8

-----------------------------------------------------------------------------
(* The calls of the program.                                               *)

\* With no chunk, no sample has an event.
LEMMA DeadIsQuiet ==
  ASSUME IInv, ~alive
  PROVE  /\ prot = {} /\ attached = {} /\ left = {}
         /\ \A s \in Samples : events[s] = 0
         /\ \A t \in Threads : pc[t] = "idle"
         /\ queue_lock = NoThread
<1> USE DEF IInv
<1>1. attached = {} /\ left = {} /\ \A t \in Threads : pc[t] = "idle"
  BY DEF Quiet
<1>2. prot = {}
  BY <1>1 DEF SampleInv, TypeOK
<1>3. \A s \in Samples : events[s] = 0
  BY <1>1 DEF SampleInv, TypeOK, Owners
<1>4. queue_lock = NoThread
  BY <1>1 DEF TimerInv, InTimer, Completing, TypeOK
<1> QED
  BY <1>1, <1>2, <1>3, <1>4

\* monit_chunk() finds no trace of an earlier chunk.
LEMMA MonitKeeps ==
  ASSUME IInv, NEW t \in Threads, monit_chunk(t)
  PROVE  IInv'
<1> USE DEF IInv
<1>1. /\ ~alive /\ alive' = TRUE
      /\ UNCHANGED <<events, queue_lock, pc, on, caller, finished, left>>
  BY DEF monit_chunk, queueVars, threadVars, localVars
<1>2. /\ prot = {} /\ attached = {} /\ left = {} /\ queue_lock = NoThread
      /\ \A s \in Samples : events[s] = 0
      /\ \A u \in Threads : pc[u] = "idle"
  BY <1>1, DeadIsQuiet
<1>3. \/ UNCHANGED <<attached, prot, sstate, wait_timer, slock_by>>
      \/ /\ attached' = Samples /\ prot' = Samples
         /\ sstate' = [s \in Samples |-> "FIRST"]
         /\ wait_timer' = [s \in Samples |-> FALSE]
         /\ slock_by' = [s \in Samples |-> NoThread]
  BY DEF monit_chunk, sampleVars
<1>4. TypeOK'
  BY <1>1, <1>3 DEF TypeOK, SampleStates
<1>5. \A u \in Threads : /\ ~Early(u)' /\ ~Late(u)' /\ ~InTimer(u)' /\ pc'[u] = "idle"
  BY <1>1, <1>2 DEF Early, Late, InTimer, Completing
<1>6. \A u \in Threads : u # NoThread
  BY MonitorAssumption
<1>7. \A u \in Threads : FaultInv(u)' /\ TimerInv(u)'
  BY <1>1, <1>2, <1>5, <1>6 DEF FaultInv, TimerInv
<1>8. HandlersApart'
  BY <1>5 DEF HandlersApart
<1>9. \A s \in Samples : SampleInv(s)'
  BY <1>1, <1>2, <1>3 DEF SampleInv, Waiting
<1>10. Quiet'
  BY <1>1, <1>2 DEF Quiet
<1> QED
  BY <1>4, <1>7, <1>8, <1>9, <1>10

\* Samples S are removed while nobody works on them: stop_monit_chunk() removes
\* all of the chunk, remove_sample_range() some that only this thread touches.
LEMMA RemoveKeeps ==
  ASSUME IInv, NEW S \in SUBSET Samples, S \subseteq attached, queue_lock = NoThread,
         \A u \in Threads : pc[u] # "idle" => on[u] \notin S,
         remove_page_sample(S), alive' \in BOOLEAN,
         alive \/ ~alive', ~alive' => S = attached /\ \A u \in Threads : pc[u] = "idle",
         events' \in [Owners -> Nat],
         \A s \in Samples : events'[s] = IF s \in S /\ RemovesEvent(s) THEN events[s] - 1
                                         ELSE events[s],
         UNCHANGED <<queue_lock, pc, on, caller, finished, left>>
  PROVE  IInv'
<1> USE DEF IInv
<1>1. \A u \in Threads : u # NoThread
  BY MonitorAssumption
<1>2. \A u \in Threads : ~InTimer(u) /\ pc[u] # "revive"
  BY <1>1 DEF TimerInv
<1>3. left = {}
  BY <1>2 DEF Quiet
<1>4. \A s \in S : ~Unnoted(s)
  BY DEF Unnoted
<1>5. \A s \in S : events'[s] = 0
  BY <1>4 DEF SampleInv, RemovesEvent, TypeOK, Owners
<1>6. /\ attached' = attached \ S /\ prot' = prot \ S
      /\ wait_timer' \in [Samples -> BOOLEAN] /\ sstate' \in [Samples -> SampleStates]
      /\ slock_by' \in [Samples -> Threads \cup {NoThread}]
      /\ \A s \in Samples \ S : wait_timer'[s] = wait_timer[s] /\ sstate'[s] = sstate[s]
  BY DEF remove_page_sample, TypeOK, SampleStates
<1>7. \A s \in Samples \ S : SameSample(s)
  BY <1>6 DEF SameSample
<1>8. TypeOK'
  BY <1>6 DEF TypeOK
<1>9. \A u \in Threads : FaultInv(u)'
  <2> SUFFICES ASSUME NEW u \in Threads PROVE FaultInv(u)'
    OBVIOUS
  <2>1. CASE pc[u] = "idle"
    BY <2>1 DEF FaultInv, Early, Late, Completing
  <2>2. CASE pc[u] # "idle"
    <3>1. WorksOn(u) => SameSample(on[u])
      BY <1>7, <2>2 DEF WorksOn, TypeOK
    <3> QED
      BY <3>1 DEF FaultInv, SameSample, Early, Late, Completing, WorksOn, Waiting, Skipping
  <2> QED
    BY <2>1, <2>2
<1>10. \A u \in Threads : TimerInv(u)'
  BY <1>1, <1>2 DEF TimerInv, InTimer, Completing
<1>11. HandlersApart'
  BY <1>2 DEF HandlersApart, InTimer, Completing
<1>12. \A s \in Samples : SampleInv(s)'
  <2> SUFFICES ASSUME NEW s \in Samples PROVE SampleInv(s)'
    OBVIOUS
  <2>1. CASE s \in S
    BY <1>5, <1>6, <2>1 DEF SampleInv
  <2>2. CASE s \notin S
    <3>1. SameSample(s)
      BY <1>7, <2>2
    <3> QED
      BY <3>1 DEF SampleInv, SameSample, Waiting, Skipping, Unnoted
  <2> QED
    BY <2>1, <2>2
<1>13. Quiet'
  BY <1>3, <1>6 DEF Quiet
<1> QED
  BY <1>8, <1>9, <1>10, <1>11, <1>12, <1>13

\* stop_monit_chunk(): the chunk is freed.
LEMMA StopKeeps ==
  ASSUME IInv, NEW t \in Threads, stop_monit_chunk(t)
  PROVE  IInv'
<1>1. /\ alive /\ alive' = FALSE /\ queue_lock = NoThread
      /\ \A u \in Threads : pc[u] = "idle"
      /\ remove_page_sample(attached)
      /\ UNCHANGED <<queue_lock, pc, on, caller, finished, left>>
      /\ events' = [o \in Owners |->
                    IF RemovesEvent(o) /\ (o = Chunk \/ o \in attached)
                    THEN events[o] - 1 ELSE events[o]]
  BY DEF stop_monit_chunk, threadVars, localVars
<1>2. attached \in SUBSET Samples
  BY DEF IInv, TypeOK
<1>3. events' \in [Owners -> Nat]
  BY <1>1 DEF IInv, TypeOK, RemovesEvent
<1>4. \A s \in Samples :
         events'[s] = IF s \in attached /\ RemovesEvent(s) THEN events[s] - 1 ELSE events[s]
  BY <1>1, MonitorAssumption DEF Owners
<1> QED
  BY <1>1, <1>2, <1>3, <1>4, RemoveKeeps

\* remove_sample_range(): only threads that touch the pages can be at work on
\* them, and this one is not.
LEMMA RemoveRangeKeeps ==
  ASSUME Apart, IInv, NEW t \in Threads, NEW S \in SUBSET Samples,
         remove_sample_range(t, S)
  PROVE  IInv'
<1> DEFINE R == S \cap attached
<1>1. /\ S \subseteq Touches[t] /\ pc[t] = "idle" /\ alive /\ queue_lock = NoThread
      /\ remove_page_sample(R)
      /\ UNCHANGED <<alive, queue_lock, pc, on, caller, finished, left>>
      /\ events' = [o \in Owners |-> IF o \in R /\ RemovesEvent(o)
                                    THEN events[o] - 1 ELSE events[o]]
  BY DEF remove_sample_range, threadVars, localVars, chunkVars
<1>2. R \in SUBSET Samples /\ R \subseteq attached
  BY DEF IInv, TypeOK
<1>3. events' \in [Owners -> Nat]
  BY <1>1 DEF IInv, TypeOK, RemovesEvent
<1>4. \A s \in Samples :
         events'[s] = IF s \in R /\ RemovesEvent(s) THEN events[s] - 1 ELSE events[s]
  BY <1>1 DEF Owners
<1>5. \A u \in Threads : pc[u] # "idle" => on[u] \notin R
  <2> SUFFICES ASSUME NEW u \in Threads, pc[u] # "idle" PROVE on[u] \notin R
    OBVIOUS
  <2>1. u # t
    BY <1>1
  <2>2. WorksOn(u) \/ pc[u] = "revive" \/ InTimer(u)
    BY DEF IInv, FaultInv, TypeOK, PCs, Early, Late, InTimer, Completing
  <2>3. WorksOn(u)
    BY <1>1, <2>2, MonitorAssumption DEF IInv, TimerInv
  <2> QED
    BY <1>1, <2>1, <2>3, DifferentPages
<1> HIDE DEF R
<1> QED
  BY <1>1, <1>2, <1>3, <1>4, <1>5, RemoveKeeps DEF IInv, TypeOK

-----------------------------------------------------------------------------
(* The invariant, and what it says.                                        *)

\* Before the first chunk.
LEMMA InitIInv == Init => IInv
<1> SUFFICES ASSUME Init PROVE IInv
  OBVIOUS
<1>1. TypeOK
  BY DEF Init, TypeOK, SampleStates, PCs, Owners
<1>2. \A u \in Threads : pc[u] = "idle"
  BY DEF Init
<1>3. \A u \in Threads : /\ ~Early(u) /\ ~Late(u) /\ ~InTimer(u)
  BY <1>2 DEF Early, Late, InTimer, Completing
<1>4. \A u \in Threads : FaultInv(u) /\ TimerInv(u)
  BY <1>2, <1>3, MonitorAssumption DEF FaultInv, TimerInv, Init
<1>5. HandlersApart
  BY <1>3 DEF HandlersApart
<1>6. \A s \in Samples : SampleInv(s)
  BY DEF Init, SampleInv, Owners
<1>7. Quiet
  BY DEF Init, Quiet
<1> QED
  BY <1>1, <1>4, <1>5, <1>6, <1>7 DEF IInv

\* Steps that change nothing.
LEMMA StutterKeeps ==
  IInv /\ UNCHANGED <<chunkVars, sampleVars, events, queue_lock, threadVars>> => IInv'
BY DEF vars, chunkVars, sampleVars, queueVars, threadVars, localVars, IInv, TypeOK,
   FaultInv, TimerInv, HandlersApart, SampleInv, Quiet, Early, Late, InTimer,
   Completing, WorksOn, Waiting, Skipping, Unnoted

\* Every step of threads that touch different pages keeps the invariant.
LEMMA NextIInv == Apart /\ IInv /\ [Next]_vars => IInv'
<1> SUFFICES ASSUME Apart, IInv, [Next]_vars PROVE IInv'
  OBVIOUS
<1>1. ASSUME NEW t \in Threads, HandlerStep(t) PROVE IInv'
  BY <1>1, HandlerKeeps, FinishedKeeps, TakenKeeps, CollectKeeps, CompleteKeeps,
     AddBurstKeeps, NoteBurstKeeps, BurstKeeps, ReviveSampleKeeps, ReviveEndKeeps
     DEF HandlerStep
<1>2. ASSUME NEW t \in Threads, Alarm(t) PROVE IInv'
  BY <1>2, FireReviveKeeps, FireBurstKeeps DEF Alarm
<1>3. ASSUME UNCHANGED vars \/ \E t \in Threads : OtherChunk(t) PROVE IInv'
  BY <1>3, StutterKeeps DEF vars, queueVars, OtherChunk
<1> QED
  BY <1>1, <1>2, <1>3, MonitKeeps, StopKeeps, RemoveRangeKeeps, FaultKeeps DEF Next

\* The invariant of a chunk whose pages are touched by one thread each.
THEOREM ApartInvariant ==
  ASSUME Apart
  PROVE  Spec => []IInv
<1>1. IInv /\ [Next]_vars => IInv'
  BY NextIInv
<1> QED
  BY <1>1, InitIInv, PTL DEF Spec

\* assert() of page_fault_handler() holds: whoever fires the timers, a fault
\* finds its sample waiting for an access.
THEOREM FaultsFindWaiting ==
  ASSUME Apart
  PROVE  Spec => []FaultFindsWaiting
<1>1. IInv => FaultFindsWaiting
  BY DEF IInv, TypeOK, FaultInv, SampleInv, Early, WorksOn, Waiting, FaultFindsWaiting
<1> QED
  BY <1>1, ApartInvariant, PTL

\* assert() of burst_skip_handler() holds: the timer finds its sample between
\* two accesses, even if it fires before the thread that set it has returned.
THEOREM TimersFindSkipping ==
  ASSUME Apart
  PROVE  Spec => []TimerFindsSkipping
<1>1. IInv => TimerFindsSkipping
  BY DEF IInv, TimerInv, InTimer, Skipping, TimerFindsSkipping
<1> QED
  BY <1>1, ApartInvariant, PTL

\* No sample has two timer events, and its page is open while it has one.
THEOREM SamplesHaveOneEvent ==
  ASSUME Apart
  PROVE  Spec => []OneEventPerSample
<1>1. IInv => OneEventPerSample
  <2> SUFFICES ASSUME IInv, NEW s \in Samples
               PROVE  events[s] <= 1 /\ (events[s] = 1 => s \notin prot)
    BY DEF OneEventPerSample
  <2> QED
    BY DEF IInv, SampleInv
<1> QED
  BY <1>1, ApartInvariant, PTL

\* A sample that has been removed, at whatever moment of the other handlers,
\* leaves its page open, no timer event and no handler at work on it.
THEOREM RemovedSamplesAreQuiet ==
  ASSUME Apart
  PROVE  Spec => []RemovedSampleIsQuiet
<1>1. IInv => RemovedSampleIsQuiet
  <2> SUFFICES ASSUME IInv, NEW s \in Samples, s \notin attached
               PROVE  /\ s \notin prot /\ events[s] = 0
                      /\ \A t \in Threads :
                           pc[t] \in {"fault", "complete", "fault_handler", "collect"}
                             => on[t] # s
    BY DEF RemovedSampleIsQuiet
  <2>1. s \notin prot
    BY DEF IInv, SampleInv
  <2>2. events[s] = 0
    BY DEF IInv, SampleInv, TypeOK, Owners
  <2>3. \A t \in Threads :
           pc[t] \in {"fault", "complete", "fault_handler", "collect"} => on[t] \in attached
    BY DEF IInv, TypeOK, FaultInv, TimerInv, Early, Late, InTimer, Completing, WorksOn
  <2> QED
    BY <2>1, <2>2, <2>3
<1> QED
  BY <1>1, ApartInvariant, PTL

-----------------------------------------------------------------------------
(* A single thread.                                                        *)

\* The chunk has samples.
LEMMA SomeSamples == nr_sample \in Nat /\ nr_sample >= 1
<1>1. nr_sample \in Nat
  BY MonitorAssumption, FS_CardinalityType DEF nr_sample
<1>2. nr_sample # 0
  BY MonitorAssumption, FS_EmptySet DEF nr_sample
<1> QED
  BY <1>1, <1>2

\* Before the first chunk.
LEMMA InitAlone == Init => AloneInv
<1> SUFFICES ASSUME Init PROVE AloneInv
  OBVIOUS
<1>1. \A t \in Threads : pc[t] = "idle"
  BY DEF Init
<1>2. events[Chunk] = 0
  BY DEF Init, Owners
<1>3. itotal = 0 /\ itotal # nr_sample /\ itotal \in 0..nr_sample
  BY SomeSamples DEF Init
<1>4. \A t \in Threads : CycleInv(t)
  BY <1>1, <1>3 DEF CycleInv, Completing
<1> QED
  BY <1>2, <1>3, <1>4 DEF AloneInv, Init

\* A new chunk has no event and counts from zero.
LEMMA AloneMonit ==
  ASSUME Alone, IInv, AloneInv, NEW t \in Threads,
         monit_chunk(t)
  PROVE  AloneInv'
<1>0. nr_sample \in Nat /\ nr_sample >= 1 /\ events[Chunk] \in Nat
  BY SomeSamples DEF IInv, TypeOK, Owners
<1>1. /\ pc'[t] = "idle" /\ events'[Chunk] = 0 /\ itotal' = 0 /\ cstate' \in ChunkStates
  <2>1. ~alive
    BY DEF monit_chunk
  <2>2. pc[t] = "idle" /\ events[Chunk] = 0
    BY <1>0, <2>1 DEF monit_chunk, AloneInv
  <2>3. UNCHANGED <<pc, events>> /\ itotal' = 0
    BY DEF monit_chunk, queueVars, threadVars, localVars
  <2>4. cstate' \in ChunkStates
    BY DEF monit_chunk, AloneInv, ChunkStates
  <2> QED
    BY <2>2, <2>3, <2>4
<1>2. itotal' # nr_sample
  BY <1>0, <1>1
<1>3. CycleInv(t)'
  BY <1>0, <1>1, <1>2 DEF AloneInv, CycleInv, Completing, Moves
<1>4. /\ itotal' \in 0..nr_sample /\ cstate' \in ChunkStates /\ events'[Chunk] <= 1
      /\ events'[Chunk] = 1 => cstate' = "MONIT_FINISH" /\ alive'
  BY <1>0, <1>1, <1>2 DEF AloneInv, CycleInv, Completing
<1> QED
  BY <1>3, <1>4 DEF Alone, AloneInv

\* stop_monit_chunk() takes the one revive event away.
LEMMA AloneStop ==
  ASSUME Alone, IInv, AloneInv, NEW t \in Threads,
         stop_monit_chunk(t)
  PROVE  AloneInv'
<1>0. nr_sample \in Nat /\ nr_sample >= 1 /\ events[Chunk] \in Nat
  BY SomeSamples DEF IInv, TypeOK, Owners
<1>1. /\ pc'[t] = "idle" /\ cstate' = "MONIT_FINISH" /\ itotal' = itotal
      /\ cstate' \in ChunkStates
  BY DEF stop_monit_chunk, threadVars, localVars, ChunkStates
<1>2. events'[Chunk] = 0 /\ itotal # nr_sample
  <2>1. itotal # nr_sample
    BY DEF stop_monit_chunk, AloneInv, CycleInv
  <2>2. events'[Chunk] = IF events[Chunk] > 0 THEN events[Chunk] - 1 ELSE events[Chunk]
    BY DEF stop_monit_chunk, RemovesEvent, Owners
  <2> QED
    BY <1>0, <2>1, <2>2 DEF AloneInv
<1>3. CycleInv(t)'
  BY <1>0, <1>1, <1>2 DEF AloneInv, CycleInv, Completing, Moves
<1>4. /\ itotal' \in 0..nr_sample /\ cstate' \in ChunkStates /\ events'[Chunk] <= 1
      /\ events'[Chunk] = 1 => cstate' = "MONIT_FINISH" /\ alive'
  BY <1>0, <1>1, <1>2 DEF AloneInv, CycleInv, Completing
<1> QED
  BY <1>3, <1>4 DEF Alone, AloneInv

\* Steps that leave the chunk alone and end outside of page_sample_complete().
LEMMA AloneQuiet ==
  ASSUME Alone, IInv, AloneInv, NEW t \in Threads,
         UNCHANGED <<alive, cstate, itotal>>, events'[Chunk] = events[Chunk],
         pc'[t] \in {"idle", "fault", "fault_handler", "add_burst", "added", "burst_handler"},
         itotal # nr_sample
  PROVE  AloneInv'
<1>1. CycleInv(t)'
  BY DEF CycleInv, Completing, nr_sample
<1> QED
  BY <1>1 DEF Alone, AloneInv, nr_sample

\* What a thread does outside of page_sample_complete() leaves the chunk alone.
LEMMA AloneOutside ==
  ASSUME Alone, IInv, AloneInv, NEW t \in Threads,
         \/ \E S \in SUBSET Samples : remove_sample_range(t, S)
         \/ \E s \in Samples : Fault(t, s)
         \/ FaultFinished(t) \/ AddBurst(t) \/ NoteBurst(t) \/ burst_skip_handler(t)
  PROVE  AloneInv'
<1> USE DEF chunkVars, queueVars, threadVars, localVars
<1>1. /\ pc[t] \in {"idle", "fault_handler", "add_burst", "added", "burst_handler"}
      /\ UNCHANGED <<alive, cstate, itotal>>
  BY DEF remove_sample_range, Fault, FaultFinished, AddBurst, NoteBurst, burst_skip_handler
<1>2. pc'[t] \in {"idle", "fault", "added"}
  BY DEF remove_sample_range, Fault, FaultFinished, AddBurst, NoteBurst, burst_skip_handler,
     Go, Leave, IInv, TypeOK
<1>3. events'[Chunk] = events[Chunk]
  <2>1. ASSUME AddBurst(t) PROVE events'[Chunk] = events[Chunk]
    <3>1. on[t] # Chunk
      BY <2>1, MonitorAssumption DEF AddBurst, IInv, FaultInv, Late, WorksOn, TypeOK
    <3> QED
      BY <2>1, <3>1 DEF AddBurst, IInv, TypeOK
  <2>2. ASSUME NEW S \in SUBSET Samples, remove_sample_range(t, S)
        PROVE  events'[Chunk] = events[Chunk]
    BY <2>2, MonitorAssumption DEF remove_sample_range, Owners
  <2> QED
    BY <2>1, <2>2 DEF Fault, FaultFinished, NoteBurst, burst_skip_handler
<1>4. itotal # nr_sample
  BY <1>1 DEF AloneInv, CycleInv
<1> QED
  BY <1>1, <1>2, <1>3, <1>4, AloneQuiet

\* A handler calls page_sample_complete(), and it reads the chunk's state.
LEMMA AloneCalls ==
  ASSUME Alone, IInv, AloneInv, NEW t \in Threads,
         page_fault_handler(t) \/ (\E s \in Samples : FireBurst(t, s)) \/ ReadChunkState(t)
  PROVE  AloneInv'
<1> USE DEF chunkVars, queueVars
<1>1. UNCHANGED <<alive, cstate, itotal>>
  BY DEF page_fault_handler, FireBurst, ReadChunkState
<1>2. events'[Chunk] = events[Chunk]
  BY MonitorAssumption DEF page_fault_handler, FireBurst, ReadChunkState, IInv, TypeOK, Owners
<1>3. CycleInv(t)'
  <2>1. CASE page_fault_handler(t) \/ \E s \in Samples : FireBurst(t, s)
    <3>1. /\ pc[t] \in {"idle", "fault"}
          /\ \/ pc'[t] = "complete" /\ caller'[t] \in {"fault_handler", "burst_handler"}
             \/ pc'[t] = "idle"
      BY <2>1 DEF page_fault_handler, FireBurst, CallComplete, Leave, IInv, TypeOK
    <3> QED
      BY <1>1, <1>2, <3>1 DEF AloneInv, CycleInv, Completing, nr_sample
  <2>2. CASE ReadChunkState(t) /\ cstate = "MONIT_FINISH"
    <3>1. pc[t] = "complete" /\ Answer(t, TRUE) /\ caller[t] # "collect"
      BY <2>2 DEF ReadChunkState, AloneInv, CycleInv, Completing
    <3>2. pc'[t] \in {"fault_handler", "burst_handler"}
      BY <3>1 DEF Answer, IInv, TypeOK
    <3> QED
      BY <1>1, <1>2, <3>1, <3>2 DEF AloneInv, CycleInv, Completing, nr_sample
  <2>3. CASE ReadChunkState(t) /\ cstate # "MONIT_FINISH"
    <3>1. /\ pc[t] = "complete" /\ pc'[t] = "chunk_lock" /\ caller'[t] = caller[t]
      BY <2>3 DEF ReadChunkState, Go, IInv, TypeOK
    <3> QED
      BY <1>1, <1>2, <2>3, <3>1 DEF AloneInv, CycleInv, Completing, nr_sample
  <2> QED
    BY <2>1, <2>2, <2>3
<1> QED
  BY <1>1, <1>2, <1>3 DEF Alone, AloneInv, nr_sample

\* A reference is collected only from a chunk that is not finished.
LEMMA AloneCollects ==
  ASSUME Alone, IInv, AloneInv, NEW t \in Threads,
         FaultTaken(t) \/ CollectBurst(t) \/ update_chunk_sample(t)
  PROVE  AloneInv'
<1> USE DEF chunkVars, queueVars
<1>1. /\ UNCHANGED <<alive, cstate, events>> /\ cstate # "MONIT_FINISH"
      /\ pc[t] \in {"fault_handler", "collect"}
  BY DEF FaultTaken, CollectBurst, update_chunk_sample, AloneInv, CycleInv
<1>2. \/ pc'[t] = "collect" /\ UNCHANGED itotal
      \/ /\ pc'[t] = "complete" /\ caller'[t] = "collect"
         /\ itotal' \in {itotal, itotal + 1}
  BY DEF FaultTaken, CollectBurst, update_chunk_sample, Go, CallComplete, IInv, TypeOK
<1>3. itotal # nr_sample /\ itotal \in 0..nr_sample
  BY <1>1 DEF AloneInv, CycleInv
<1>4. itotal' \in 0..nr_sample /\ (UNCHANGED itotal => itotal' # nr_sample)
  BY <1>2, <1>3, SomeSamples
<1>5. CycleInv(t)'
  BY <1>1, <1>2, <1>4 DEF CycleInv, Completing, nr_sample
<1> QED
  BY <1>1, <1>4, <1>5 DEF Alone, AloneInv, nr_sample

\* A cycle ends in page_sample_complete() when collect_page_sample() has called it
\* and in no other call of it; so the timer's handler never waits for its own
\* queue_lock, and a finished chunk gets one revive event.
LEMMA AloneCompletes ==
  ASSUME Alone, IInv, AloneInv, NEW t \in Threads, page_sample_complete(t)
  PROVE  AloneInv'
<1>1. /\ pc[t] = "chunk_lock" /\ cstate # "MONIT_FINISH" /\ UNCHANGED <<alive, events>>
      /\ events[Chunk] = 0
  <2>1. pc[t] = "chunk_lock" /\ UNCHANGED <<alive, events>>
    BY DEF page_sample_complete, queueVars
  <2>2. cstate # "MONIT_FINISH"
    BY <2>1 DEF AloneInv, CycleInv
  <2>3. events[Chunk] \in Nat /\ events[Chunk] <= 1
    BY DEF IInv, TypeOK, Owners, AloneInv
  <2> QED
    BY <2>1, <2>2, <2>3 DEF AloneInv
<1>2. PICK converged \in BOOLEAN, restrict \in BOOLEAN :
      /\ CycleEnds(converged) \/ NoCycleEnd(converged)
      /\ \/ cstate' # "MONIT_FINISH" /\ Answer(t, FALSE)
         \/ /\ cstate' = "MONIT_FINISH"
            /\ \/ pc' = [pc EXCEPT ![t] = "add_revive"] /\ UNCHANGED caller
               \/ Answer(t, converged)
  BY DEF page_sample_complete
<1>3. /\ itotal \in 0..nr_sample
      /\ itotal = nr_sample => caller[t] = "collect"
  BY DEF AloneInv, CycleInv
<1>4. itotal' \in 0..nr_sample /\ itotal' # nr_sample
  BY <1>2, <1>3, SomeSamples DEF CycleEnds, NoCycleEnd
<1>5. cstate' \in ChunkStates /\ (cstate' = "MONIT_FINISH" => caller[t] = "collect")
  BY <1>1, <1>2, <1>3 DEF CycleEnds, NoCycleEnd, AloneInv, ChunkStates
<1>6. \/ pc'[t] \in {"idle", "add_burst", "fault_handler", "burst_handler"}
      \/ pc'[t] = "add_revive" /\ cstate' = "MONIT_FINISH" /\ caller'[t] = caller[t]
  BY <1>2 DEF Answer, Leave, IInv, TypeOK
<1>7. CycleInv(t)'
  BY <1>1, <1>4, <1>5, <1>6 DEF CycleInv, Completing, nr_sample
<1> QED
  BY <1>1, <1>4, <1>5, <1>7 DEF Alone, AloneInv, nr_sample

\* The revive event, and its handler.
LEMMA AloneRevives ==
  ASSUME Alone, IInv, AloneInv, NEW t \in Threads,
         \/ AddRevive(t) \/ FireRevive(t) \/ revive_sample_handler(t)
         \/ \E s \in Samples : ReviveSample(t, s)
  PROVE  AloneInv'
<1>0. events[Chunk] \in Nat /\ Chunk \in Owners /\ events \in [Owners -> Nat]
  BY DEF IInv, TypeOK, Owners
<1>1. CASE AddRevive(t)
  <2>1. /\ UNCHANGED <<alive, cstate, itotal>>
        /\ pc[t] = "add_revive" /\ Answer(t, finished[t])
    BY <1>1 DEF AddRevive
  <2>2. alive
    BY <2>1 DEF IInv, Quiet
  <2>3. /\ events[Chunk] = 0 /\ caller[t] = "collect" /\ cstate = "MONIT_FINISH"
        /\ itotal # nr_sample /\ events'[Chunk] = 1
    <3>1. events[Chunk] = 0
      BY <2>1 DEF AloneInv, CycleInv
    <3>2. events'[Chunk] = 1
      BY <1>0, <1>1, <3>1, MonitorAssumption DEF AddRevive
    <3> QED
      BY <2>1, <3>1, <3>2 DEF AloneInv, CycleInv
  <2>4. pc'[t] \in {"idle", "add_burst"}
    BY <2>1, <2>3 DEF Answer, Leave, IInv, TypeOK
  <2>5. CycleInv(t)'
    BY <2>1, <2>3, <2>4 DEF CycleInv, Completing, nr_sample
  <2> QED
    BY <2>1, <2>2, <2>3, <2>5 DEF Alone, AloneInv, nr_sample
<1>2. CASE FireRevive(t)
  <2>1. /\ UNCHANGED <<alive, cstate>> /\ itotal' = 0 /\ events'[Chunk] = 0
        /\ pc'[t] = "revive"
    BY <1>0, <1>2 DEF FireRevive, Go, AloneInv, IInv, TypeOK
  <2>2. itotal' \in 0..nr_sample /\ itotal' # nr_sample
    BY <2>1, SomeSamples
  <2>3. CycleInv(t)'
    BY <2>1, <2>2 DEF CycleInv, Completing, nr_sample
  <2> QED
    BY <2>1, <2>2, <2>3 DEF Alone, AloneInv, nr_sample
<1>3. CASE revive_sample_handler(t)
  <2>1. /\ UNCHANGED <<alive, itotal, events>> /\ cstate' = "UNDER_MONIT"
        /\ pc[t] = "revive" /\ pc'[t] = "idle"
    BY <1>3 DEF revive_sample_handler, Leave, IInv, TypeOK
  <2>2. events[Chunk] = 0 /\ itotal # nr_sample
    BY <2>1 DEF AloneInv, CycleInv
  <2>3. CycleInv(t)'
    BY <2>1, <2>2 DEF CycleInv, Completing, nr_sample
  <2> QED
    BY <2>1, <2>2, <2>3 DEF Alone, AloneInv, nr_sample, ChunkStates
<1>4. ASSUME NEW s \in Samples, ReviveSample(t, s) PROVE AloneInv'
  <2>1. UNCHANGED <<alive, cstate, itotal, events, pc, caller>>
    BY <1>4 DEF ReviveSample, chunkVars, queueVars, localVars
  <2> QED
    BY <2>1 DEF AloneInv, CycleInv, Completing, nr_sample
<1> QED
  BY <1>1, <1>2, <1>3, <1>4

\* Every step of a single thread keeps both invariants.
LEMMA NextAlone == Alone /\ IInv /\ AloneInv /\ [Next]_vars => AloneInv'
<1> SUFFICES ASSUME Alone, IInv, AloneInv, [Next]_vars PROVE AloneInv'
  OBVIOUS
<1>1. ASSUME NEW t \in Threads, HandlerStep(t) \/ Alarm(t) PROVE AloneInv'
  BY <1>1, AloneOutside, AloneCalls, AloneCollects, AloneCompletes, AloneRevives
     DEF HandlerStep, Alarm
<1>2. CASE UNCHANGED vars \/ \E t \in Threads : OtherChunk(t)
  <2>1. UNCHANGED <<alive, cstate, itotal, events, pc, caller>>
    BY <1>2 DEF vars, chunkVars, queueVars, threadVars, localVars, OtherChunk
  <2> QED
    BY <2>1 DEF AloneInv, CycleInv, Completing, nr_sample
<1> QED
  BY <1>1, <1>2, AloneMonit, AloneStop, AloneOutside DEF Next

\* The invariant of a program with one thread.
LEMMA AloneInvariant ==
  ASSUME Alone
  PROVE  Spec => [](IInv /\ AloneInv)
<1>1. Apart
  BY DEF Alone, Apart
<1>2. IInv /\ AloneInv /\ [Next]_vars => (IInv /\ AloneInv)'
  BY <1>1, NextIInv, NextAlone
<1>3. Init => IInv /\ AloneInv
  BY InitIInv, InitAlone
<1> QED
  BY <1>2, <1>3, PTL DEF Spec

\* stop_monit_chunk() leaves no event that would run a handler on a freed chunk
\* or sample, and no page of the freed memory protected.
THEOREM StopAlwaysLeavesNothing ==
  ASSUME Alone
  PROVE  Spec => []StopLeavesNothing
<1>1. IInv /\ AloneInv => StopLeavesNothing
  <2> SUFFICES ASSUME IInv, AloneInv, ~alive
               PROVE  prot = {} /\ \A o \in Owners : events[o] = 0
    BY DEF StopLeavesNothing
  <2>1. prot = {} /\ \A s \in Samples : events[s] = 0
    BY DeadIsQuiet
  <2>2. events[Chunk] = 0
    BY DEF AloneInv, IInv, TypeOK, Owners
  <2> QED
    BY <2>1, <2>2 DEF Owners
<1> QED
  BY <1>1, AloneInvariant, PTL
=============================================================================
