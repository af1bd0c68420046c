---------------------------- MODULE TimerService ----------------------------
(***************************************************************************)
(* What the time event queue (utl_event_queue.c) promises to the chunk     *)
(* monitor, with no list, lock, signal or interval timer in it: a set of   *)
(* pending events, each naming its owner (the `private' pointer) and the   *)
(* time it is due.  An event leaves the set because its owner cancelled it *)
(* or because it fired, and it fires neither more than one timer           *)
(* resolution early nor before an event that is due earlier.  Handlers are *)
(* called in rounds, in which owners neither ask nor cancel: an owner that *)
(* has cancelled its event is not called for it, and none is called while  *)
(* it cancels.                                                             *)
(***************************************************************************)
EXTENDS Integers

CONSTANTS
    Privates,    \* owners of events: page samples and chunks
    Delays,      \* delays an owner may ask for
    Resolution,  \* TIMER_RESOLUTION, utl_event_queue.h:13
    MaxTime      \* bound: the clock stops here

VARIABLES
    clock,       \* gettimeofday()
    pending,     \* the events not yet fired, [private, trigger]
    mode         \* whether handlers are being called

serviceVars == <<clock, pending, mode>>

Owners == {e.private : e \in pending}

Modes == {"asking", "calling"}

ServiceInit == clock = 0 /\ pending = {} /\ mode = "asking"

\* Time passes.
Pass == clock < MaxTime /\ clock' = clock + 1 /\ UNCHANGED <<pending, mode>>

\* A round of calls begins or ends.
Turn == mode' \in Modes /\ UNCHANGED <<clock, pending>>

\* An owner without a pending event asks for one, d from now; what is due is
\* called before it gets its answer.
Ask(p, d) ==
    /\ mode = "asking"
    /\ mode' = "calling"
    /\ p \notin Owners
    /\ pending' = pending \cup {[private |-> p, trigger |-> clock + d]}
    /\ UNCHANGED clock

\* An owner withdraws its event.
Cancel(p) ==
    /\ mode = "asking"
    /\ mode' \in Modes
    /\ p \in Owners
    /\ pending' = {e \in pending : e.private # p}
    /\ UNCHANGED clock

\* The event that is due first fires.
Fire(e) ==
    /\ mode = "calling"
    /\ e.trigger <= clock + Resolution
    /\ \A f \in pending : e.trigger <= f.trigger
    /\ pending' = pending \ {e}
    /\ UNCHANGED <<clock, mode>>

ServiceNext ==
    \/ Pass
    \/ Turn
    \/ \E p \in Privates : Cancel(p) \/ \E d \in Delays : Ask(p, d)
    \/ \E e \in pending : Fire(e)

ServiceSpec == ServiceInit /\ [][ServiceNext]_serviceVars
=============================================================================
