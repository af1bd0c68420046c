--------------------------- MODULE TimeEventQueue ---------------------------
(***************************************************************************)
(* The time event queue of NightWatch, utl_event_queue.c: a list of events *)
(* sorted by trigger time, a hash map from an event's owner (`private') to *)
(* the event, a one-shot ITIMER_REAL armed for the head of the list, and   *)
(* the SIGALRM handler trigger_time_event().  queue_lock is a spin lock;   *)
(* the handler only tries it, and gives up when it is held.                *)
(*                                                                         *)
(* Everything between taking and releasing queue_lock is one thread's work *)
(* but not one step: time passes, the timer expires and SIGALRM arrives    *)
(* (on any thread, the holder included) in the middle of it.  The holder's *)
(* place in that work is pc, with the locals in old, tv, todo and ret.     *)
(***************************************************************************)
EXTENDS Integers, Sequences, SequencesExt

CONSTANTS
    Threads, NoThread,
    Privates,        \* owners of events: page samples and chunks
    Delays,          \* delays passed to add_time_event(), in clock units
    Resolution,      \* TIMER_RESOLUTION in the same unit
    Off,             \* the interval timer is disarmed
    MaxTime,         \* bound: the clock stops here
    MaxDue,          \* bound: no event is added that is due later
    MaxDrift,        \* bound: how late the holder is with the time it read
    PendedRemovals,  \* remove_time_event_when_pending() is called
    PendedAdds,      \* add_time_event_when_pending() is called
    BareRemovals     \* remove_time_event() is called
    \* (the library itself makes only the first of these three calls)

ASSUME QueueAssumption ==
    /\ NoThread \notin Threads
    /\ Delays \subseteq Nat \ {0}
    /\ Resolution \in Nat
    /\ Off \notin Int
    /\ {MaxTime, MaxDue, MaxDrift} \subseteq Nat
    /\ {PendedRemovals, PendedAdds, BareRemovals} \subseteq BOOLEAN

VARIABLES
    clock,    \* gettimeofday()
    state,    \* event_queue.state
    events,   \* event_queue.events
    map,      \* the keys of private2event_map
    timer,    \* when ITIMER_REAL expires, or Off
    sig,      \* SIGALRM is pending
    holder,   \* who holds queue_lock
    pc,       \* where the holder is
    old,      \* the state do_pend_event_queue() returned
    tv,       \* the `now' do_trigger_time_event() works with
    todo,     \* the caller of do_trigger_time_event(): "add" or "alarm"
    ret,      \* what the operation returns to: "unlock" or "user"
    dropped   \* history: SIGALRM came after the holder had rearmed the timer

vars == <<clock, state, events, map, timer, sig, holder, pc, old, tv, todo,
          ret, dropped>>
locals == <<old, tv, todo>>

Event == [private : Privates, trigger : Nat]
States == {"EMPTY", "PENDING", "ACTIVE"}

Init ==
    /\ clock = 0
    /\ state = "EMPTY"
    /\ events = <<>>
    /\ map = {}
    /\ timer = Off
    /\ sig = FALSE
    /\ holder = NoThread
    /\ pc = "idle"
    /\ old = "EMPTY"
    /\ tv = 0
    /\ todo = "add"
    /\ ret = "unlock"
    /\ dropped = FALSE

-----------------------------------------------------------------------------
(* Helpers, named after the functions they stand for.                      *)

\* setitimer() with a zero interval disarms the timer.
set_timer(interval) == timer' = IF interval = 0 THEN Off ELSE clock + interval

\* Mutant of Disarm: the timer keeps running while the queue is pended.
DisarmNothing == old' = state /\ dropped' = FALSE /\ UNCHANGED timer

\* do_pend_event_queue() apart from the state it leaves: the timer is
\* disarmed unless the queue was pended already.
Disarm ==
    /\ old' = state
    /\ timer' = IF state = "PENDING" THEN timer ELSE Off
    /\ dropped' = FALSE

do_pend_event_queue == Disarm /\ state' = "PENDING"

\* utl_spin_lock() succeeded, and the place the work starts at.
Acquire(t, label) ==
    /\ holder = NoThread
    /\ holder' = t
    /\ pc' = label

\* The operation returns: to its own caller inside a pended section, or by
\* way of utl_spin_unlock().
Return(to) ==
    /\ pc' = IF to = "user" THEN "user" ELSE "idle"
    /\ holder' = IF to = "user" THEN holder ELSE NoThread

\* Mutant of InsertPosition: every event goes to the tail.
InsertAtTail(trigger, k) == trigger \in Nat /\ k = Len(events) + 1

\* list_for_each_entry() stops at the first event that triggers later.
InsertPosition(trigger, k) ==
    /\ \A i \in 1..(k - 1) : events[i].trigger <= trigger
    /\ k <= Len(events) => trigger < events[k].trigger

\* Mutant of HeadDue: the resolution is added to a time that includes it.
HeadDueTwice == events # <<>> /\ Head(events).trigger <= tv + 2 * Resolution

\* The head is due: tv_cmp(now + resolution, trigger_time) != -1.
HeadDue == events # <<>> /\ Head(events).trigger <= tv + Resolution

-----------------------------------------------------------------------------
(* Adding: do_add_time_event() up to its call of do_trigger_time_event().  *)
(* The owner has no event in the queue (the assertion of                   *)
(* hash_map_add_member()); the last guard is the bound on time.            *)
AddBody(p, d) ==
    /\ p \notin map
    /\ clock + d <= MaxDue
    /\ do_pend_event_queue
    /\ tv' = clock
    /\ \E k \in 1..(Len(events) + 1) :
          /\ InsertPosition(clock + d, k)
          /\ events' = InsertAt(events, k,
                                [private |-> p, trigger |-> clock + d])
    /\ map' = map \cup {p}
    /\ todo' = "add"
    /\ UNCHANGED <<clock, sig>>

add_time_event(t, p, d) ==
    /\ Acquire(t, "trigger")
    /\ AddBody(p, d)
    /\ ret' = "unlock"

add_time_event_when_pending(t, p, d) ==
    /\ PendedAdds
    /\ holder = t /\ pc = "user"
    /\ AddBody(p, d)
    /\ pc' = "trigger"
    /\ ret' = "user"
    /\ UNCHANGED holder

-----------------------------------------------------------------------------
(* Mutant of TriggerHead: the owner stays in the map.                      *)
TriggerKeepsMap ==
    /\ pc \in {"trigger", "resume"}
    /\ HeadDue
    /\ events' = Tail(events)
    /\ UNCHANGED <<clock, state, map, timer, sig, holder, pc, locals, ret, dropped>>

(* do_trigger_time_event(): one iteration of its loop.  The handler runs   *)
(* in this step, with queue_lock held.                                     *)
TriggerHead ==
    /\ pc \in {"trigger", "resume"}
    /\ HeadDue
    /\ events' = Tail(events)
    /\ map' = map \ {Head(events).private}
    /\ UNCHANGED <<clock, state, timer, sig, holder, pc, locals, ret, dropped>>

\* The loop of do_add_time_event() is over: resume unless the queue was
\* already pended when the event was added.
AddTriggered ==
    /\ pc = "trigger" /\ todo = "add" /\ ~HeadDue
    /\ \/ /\ old \in {"ACTIVE", "EMPTY"}
          /\ state' = "ACTIVE"
          /\ pc' = "resume"
          /\ UNCHANGED holder
       \/ /\ old = "PENDING"
          /\ Return(ret)
          /\ UNCHANGED state
    /\ UNCHANGED <<clock, events, map, timer, sig, locals, ret, dropped>>

\* Mutant of AlarmTriggered: the queue is marked active and not rearmed.
AlarmForgetsRearm ==
    /\ pc = "trigger" /\ todo = "alarm" /\ ~HeadDue
    /\ state' = IF events = <<>> THEN "EMPTY" ELSE "ACTIVE"
    /\ Return(ret)
    /\ UNCHANGED <<clock, events, map, timer, sig, locals, ret, dropped>>

\* The loop of trigger_time_event() is over.
AlarmTriggered ==
    /\ pc = "trigger" /\ todo = "alarm" /\ ~HeadDue
    /\ \/ /\ events = <<>>
          /\ state' = "EMPTY"
          /\ Return(ret)
          /\ UNCHANGED tv
       \/ /\ events # <<>>
          /\ tv' = tv - Resolution
          /\ state' = "ACTIVE"
          /\ pc' = "resume"
          /\ UNCHANGED holder
    /\ UNCHANGED <<clock, events, map, timer, sig, old, todo, ret, dropped>>

\* Mutant of Rearmed: tv_sub() with its operands swapped.
RearmedBackwards ==
    /\ pc = "resume" /\ ~HeadDue
    /\ IF events = <<>>
       THEN UNCHANGED timer
       ELSE set_timer(tv - Head(events).trigger)
    /\ Return(ret)
    /\ UNCHANGED <<clock, state, events, map, sig, locals, ret, dropped>>

\* The loop of do_resume_event_queue() is over: arm the timer for the head.
Rearmed ==
    /\ pc = "resume" /\ ~HeadDue
    /\ IF events = <<>>
       THEN UNCHANGED timer
       ELSE set_timer(Head(events).trigger - tv)
    /\ Return(ret)
    /\ UNCHANGED <<clock, state, events, map, sig, locals, ret, dropped>>

-----------------------------------------------------------------------------
(* Removing: do_remove_time_event().  An owner without an event leaves the *)
(* queue pended; otherwise the queue is empty or resumed, even when the    *)
(* caller pended it and has more to do.                                    *)
RemoveBody(t, p, to) ==
    /\ Disarm
    /\ \/ /\ p \notin map
          /\ state' = "PENDING"
          /\ Return(to)
          /\ UNCHANGED <<events, map, tv>>
       \/ /\ p \in map
          /\ \E k \in DOMAIN events :
                events[k].private = p /\ events' = RemoveAt(events, k)
          /\ map' = map \ {p}
          /\ \/ /\ events' = <<>>
                /\ state' = "EMPTY"
                /\ Return(to)
                /\ UNCHANGED tv
             \/ /\ events' # <<>>
                /\ state' = "ACTIVE"
                /\ tv' = clock
                /\ holder' = t
                /\ pc' = "resume"
    /\ ret' = to
    /\ UNCHANGED <<clock, sig, todo>>

remove_time_event_when_pending(t, p) ==
    /\ PendedRemovals
    /\ holder = t /\ pc = "user"
    /\ RemoveBody(t, p, "user")

remove_time_event(t, p) ==
    /\ BareRemovals
    /\ holder = NoThread
    /\ RemoveBody(t, p, "unlock")

-----------------------------------------------------------------------------
(* A pended section: monit_chunk(), stop_monit_chunk() and                 *)
(* remove_sample_range() run between these two.                            *)
pend_time_event_queue(t) ==
    /\ Acquire(t, "user")
    /\ do_pend_event_queue
    /\ UNCHANGED <<clock, events, map, sig, tv, todo, ret>>

\* do_resume_event_queue() returns at once when the queue is active already.
resume_time_event_queue(t) ==
    /\ holder = t /\ pc = "user"
    /\ ret' = "unlock"
    /\ \/ /\ state = "ACTIVE"
          /\ Return("unlock")
          /\ UNCHANGED <<state, tv>>
       \/ /\ state # "ACTIVE"
          /\ state' = "ACTIVE"
          /\ tv' = clock
          /\ pc' = "resume"
          /\ UNCHANGED holder
    /\ UNCHANGED <<clock, events, map, timer, sig, old, todo, dropped>>

-----------------------------------------------------------------------------
(* SIGALRM: trigger_time_event() on some thread.                           *)

\* The lock is free.  A queue found pended is left alone.
trigger_time_event(t) ==
    /\ sig
    /\ holder = NoThread
    /\ sig' = FALSE
    /\ \/ /\ state = "PENDING"
          /\ UNCHANGED <<state, timer, holder, pc, locals, ret, dropped>>
       \/ /\ state # "PENDING"
          /\ Acquire(t, "trigger")
          /\ do_pend_event_queue
          /\ tv' = clock
          /\ todo' = "alarm"
          /\ ret' = "unlock"
    /\ UNCHANGED <<clock, events, map>>

\* utl_spin_trylock() failed: the signal is consumed with nothing done.
AlarmMissed ==
    /\ sig
    /\ holder # NoThread
    /\ sig' = FALSE
    /\ dropped' = (dropped \/ (pc = "user" /\ state = "ACTIVE"))
    /\ UNCHANGED <<clock, state, events, map, timer, holder, pc, locals, ret>>

\* The environment: time passes; ITIMER_REAL expires and is not reloaded.
Tick ==
    /\ clock < MaxTime
    /\ pc \in {"trigger", "resume"} => clock - tv < MaxDrift
    /\ clock' = clock + 1
    /\ UNCHANGED <<state, events, map, timer, sig, holder, pc, locals, ret,
                   dropped>>

Expire ==
    /\ timer # Off
    /\ timer <= clock
    /\ timer' = Off
    /\ sig' = TRUE
    /\ UNCHANGED <<clock, state, events, map, holder, pc, locals, ret, dropped>>

-----------------------------------------------------------------------------
\* What the holder of queue_lock does once it is inside.
HolderStep == TriggerHead \/ AddTriggered \/ AlarmTriggered \/ Rearmed

Call(t) ==
    \/ \E p \in Privates, d \in Delays :
          add_time_event(t, p, d) \/ add_time_event_when_pending(t, p, d)
    \/ \E p \in Privates :
          remove_time_event_when_pending(t, p) \/ remove_time_event(t, p)
    \/ pend_time_event_queue(t)
    \/ resume_time_event_queue(t)

Next ==
    \/ \E t \in Threads : Call(t) \/ trigger_time_event(t)
    \/ HolderStep
    \/ AlarmMissed
    \/ Tick
    \/ Expire

Spec == Init /\ [][Next]_vars

(***************************************************************************)
(* The scheduler runs the thread that holds the lock, a pended section     *)
(* ends (its callers loop over a finite list), the clock advances, an      *)
(* expired timer raises SIGALRM and a pending SIGALRM is delivered.        *)
(* Nothing obliges a thread to call the queue.                             *)
(***************************************************************************)
Fairness ==
    /\ WF_vars(HolderStep)
    /\ WF_vars(\E t \in Threads : resume_time_event_queue(t))
    /\ WF_vars(Tick)
    /\ WF_vars(Expire)
    /\ WF_vars(AlarmMissed \/ \E t \in Threads : trigger_time_event(t))

FairSpec == Spec /\ Fairness

-----------------------------------------------------------------------------
(* Properties.                                                             *)

\* Every variable keeps its type.
TypeOK ==
    /\ clock \in Nat
    /\ state \in States
    /\ events \in Seq(Event)
    /\ map \in SUBSET Privates
    /\ timer \in Nat \cup {Off}
    /\ sig \in BOOLEAN
    /\ holder \in Threads \cup {NoThread}
    /\ pc \in {"idle", "user", "trigger", "resume"}
    /\ old \in States
    /\ tv \in Int
    /\ todo \in {"add", "alarm"}
    /\ ret \in {"unlock", "user"}
    /\ dropped \in BOOLEAN

\* The interval that do_resume_event_queue() gives to setitimer() is what is
\* left from `now' to the head's trigger time: although `now' was read before
\* the loop, and was moved forward and back by the resolution, it is never
\* negative (setitimer() would fail) nor zero (it would disarm the timer).
ArmedAhead == [][timer' \notin {timer, Off} => timer' > clock]_vars

\* private2event_map has exactly the owners of the queued events, and no
\* owner has two: whatever do_remove_time_event() finds is still queued.
MapMatchesQueue ==
    /\ map = {events[i].private : i \in DOMAIN events}
    /\ \A i, j \in DOMAIN events :
          events[i].private = events[j].private => i = j

\* The list is sorted by trigger time, so its head is what the timer must be
\* armed for.
Sorted ==
    \A i, j \in DOMAIN events : i <= j => events[i].trigger <= events[j].trigger

\* While handlers run (the loops of do_trigger_time_event()) the timer is
\* disarmed, and an armed timer has a queued event to wait for and does not
\* expire before that event is due: no SIGALRM is spent on nothing.
TimerForHead ==
    /\ pc \in {"trigger", "resume"} => timer = Off
    /\ timer # Off => events # <<>> /\ Head(events).trigger <= timer

\* No lost wakeup: once queue_lock is released and events are queued, the
\* timer is armed or its SIGALRM is still to be delivered - although every
\* SIGALRM that meets a held lock is thrown away.
NoLostWakeup ==
    (~PendedRemovals /\ ~BareRemovals) =>
        (pc = "idle" /\ events # <<>> => timer # Off \/ sig)

\* With removals the same holds but for two cases: the queue was left pended
\* by remove_time_event() of an owner without an event, or a SIGALRM met a
\* pended section in which a removal had resumed the queue.
WakeupOrDropped ==
    pc = "idle" /\ events # <<>> =>
        timer # Off \/ sig \/ dropped \/ (BareRemovals /\ state = "PENDING")

\* The comment of trigger_time_event(), "we are trapped in event_queue
\* processing context, try later": a thrown away SIGALRM is made up for by
\* the time the lock is released.
AlarmTriedLater == pc = "idle" /\ events # <<>> => timer # Off \/ sig

\* Every queued event is eventually triggered or removed, unless the queue
\* loses its wakeup in one of the two ways of WakeupOrDropped.
EventuallyTriggered ==
    \A p \in Privates :
        (p \in map) ~>
            (p \notin map \/ dropped \/ (pc = "idle" /\ state = "PENDING"))

(* The inductive invariant.                                                *)

\* queue_lock is held exactly while the holder is inside, and the two loops
\* run in the state the functions around them left.
HolderInside ==
    /\ holder = NoThread <=> pc = "idle"
    /\ pc = "trigger" => state = "PENDING"
    /\ pc = "resume" => state = "ACTIVE"
    /\ pc \in {"trigger", "resume"} => tv <= clock
    /\ pc = "trigger" /\ todo = "alarm" => ret = "unlock"

StateMatchesTimer ==
    /\ state = "PENDING" => timer = Off
    /\ state = "EMPTY" => events = <<>>
    /\ pc = "user" /\ state = "ACTIVE" /\ events # <<>> =>
          timer # Off \/ sig \/ dropped

\* Without remove_time_event() nobody leaves the queue pended.
PendedInside ==
    ~BareRemovals =>
        /\ pc = "idle" => state # "PENDING"
        /\ pc = "trigger" /\ old = "PENDING" => ret = "user"

\* Without removals a pended section stays pended to its end.
PendedThroughout ==
    ~PendedRemovals =>
        /\ ~dropped
        /\ pc = "user" => state = "PENDING"
        /\ pc = "trigger" /\ ret = "user" => old = "PENDING"
        /\ pc = "resume" => ret = "unlock"

IInv ==
    /\ TypeOK
    /\ MapMatchesQueue
    /\ Sorted
    /\ TimerForHead
    /\ WakeupOrDropped
    /\ HolderInside
    /\ StateMatchesTimer
    /\ PendedInside
    /\ PendedThroughout

\* Handlers are called in the two loops of do_trigger_time_event().
Mode == IF pc \in {"trigger", "resume"} THEN "calling" ELSE "asking"

\* The promise of TimerService: the queue is the set of its events.
Service == INSTANCE TimerService WITH
    pending <- {events[i] : i \in DOMAIN events},
    mode <- Mode
ServiceSpec == Service!ServiceSpec
=============================================================================
