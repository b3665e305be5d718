----------------------------- MODULE EventQueue -----------------------------
(***************************************************************************)
(* The event queue that every other component runs on:                     *)
(* src/lib/base/EventQueue.cpp with SimpleEventQueueBuffer.cpp.  One       *)
(* thread runs loop(); other threads, the socket multiplexer's above all,  *)
(* add events.  Until loop() says that the queue is ready, events go to    *)
(* m_pending.                                                              *)
(*                                                                         *)
(* Time is counted in units of at most one per turn of the loop.           *)
(***************************************************************************)
EXTENDS Integers, Sequences, FiniteSets

CONSTANTS
    Main,           \* the thread that runs loop()
    Threads,        \* other threads that add events
    EarlyThreads,   \* those of them that may do so before the queue is ready
    Timers,         \* timer objects
    Period,         \* of each timer, its duration in units
    OneShot,        \* the timers that expire once
    MaxPosts,       \* bound on the events of each thread
    MaxEarly,       \* the same of each of EarlyThreads
    MaxQueued       \* bound on the buffer's length when input is added

Posters == Threads \cup {Main}

\* The threads that add events only once the queue is ready, or in the loop.
Steady == Posters \ EarlyThreads

ASSUME QueueAssumption ==
    /\ Main \notin Threads
    /\ EarlyThreads \subseteq Threads
    /\ IsFiniteSet(Timers) /\ OneShot \subseteq Timers
    /\ Period \in [Timers -> Nat \ {0}]
    /\ MaxPosts \in Nat /\ MaxEarly \in 0 .. MaxPosts
    /\ MaxQueued \in Nat

VARIABLES
    phase,      \* of the thread that runs the loop: "starting", "flushing", "running"
    ready,      \* *m_readyCondVar
    pending,    \* m_pending
    buffer,     \* m_buffer and m_events: the queued events
    adding,     \* threads inside addEvent(): where each found it has to add
    posted,     \* number of events each thread has added or is adding
    handled,    \* number of the last event of each thread that was dispatched
    remaining,  \* of each timer in m_timerQueue, the time until it expires
    running,    \* the timers in m_timerQueue
    lastWasTimer  \* m_lastEventWasTimer

vars == <<phase, ready, pending, buffer, adding, posted, handled, remaining, running,
          lastWasTimer>>

postVars == <<adding, posted>>
timerVars == <<remaining, running, lastWasTimer>>

\* Motion, keys and other events that are not told apart.
Input == [from |-> Main, n |-> 0]

-----------------------------------------------------------------------------
(* Adding events.                                                          *)

\* addEvent() on the loop's own thread: before loop() or in a handler.
AddEventInHandler ==
    LET event == [from |-> Main, n |-> posted[Main] + 1]
    IN /\ phase # "flushing" /\ posted[Main] < MaxPosts
       /\ posted' = [posted EXCEPT ![Main] = @ + 1]
       /\ IF ready
          THEN buffer' = Append(buffer, event) /\ UNCHANGED pending
          ELSE pending' = Append(pending, event) /\ UNCHANGED buffer
       /\ UNCHANGED <<phase, ready, adding, handled, timerVars>>

\* addEvent() on another thread looks at *m_readyCondVar, without a lock ...
BeginAddEvent(p) ==
    /\ adding[p] = "no"
    /\ IF p \in EarlyThreads THEN posted[p] < MaxEarly ELSE posted[p] < MaxPosts /\ ready
    /\ posted' = [posted EXCEPT ![p] = @ + 1]
    /\ adding' = [adding EXCEPT ![p] = IF ready THEN "buffer" ELSE "pending"]
    /\ UNCHANGED <<phase, ready, pending, buffer, handled, timerVars>>

\* Mutant of EndAddEvent: at the wrong end.
BugAddInFront(p) ==
    LET event == [from |-> p, n |-> posted[p]]
    IN /\ adding[p] # "no"
       /\ adding' = [adding EXCEPT ![p] = "no"]
       /\ IF adding[p] = "buffer"
          THEN buffer' = <<event>> \o buffer /\ UNCHANGED pending
          ELSE pending' = Append(pending, event) /\ UNCHANGED buffer
       /\ UNCHANGED <<phase, ready, posted, handled, timerVars>>

\* ... and adds the event where it belonged then.
EndAddEvent(p) ==
    LET event == [from |-> p, n |-> posted[p]]
    IN /\ adding[p] # "no"
       /\ adding' = [adding EXCEPT ![p] = "no"]
       /\ IF adding[p] = "buffer"
          THEN buffer' = Append(buffer, event) /\ UNCHANGED pending
          ELSE pending' = Append(pending, event) /\ UNCHANGED buffer
       /\ UNCHANGED <<phase, ready, posted, handled, timerVars>>

\* The platform delivers input, as fast as the loop can take it.
PlatformInput ==
    /\ phase = "running" /\ Len(buffer) < MaxQueued
    /\ buffer' = Append(buffer, Input)
    /\ UNCHANGED <<phase, ready, pending, postVars, handled, timerVars>>

-----------------------------------------------------------------------------
(* The loop.                                                               *)

\* Mutant of SetReady: nobody is told.
BugNotReady ==
    /\ phase = "starting"
    /\ phase' = "flushing"
    /\ UNCHANGED <<ready, pending, buffer, postVars, handled, timerVars>>

\* loop(): the queue is ready.
SetReady ==
    /\ phase = "starting"
    /\ phase' = "flushing" /\ ready' = TRUE
    /\ UNCHANGED <<pending, buffer, postVars, handled, timerVars>>

\* loop(): add pending events to the buffer, one at a time.
FlushPending ==
    /\ phase = "flushing"
    /\ IF pending = <<>>
       THEN phase' = "running" /\ UNCHANGED <<pending, buffer>>
       ELSE /\ buffer' = Append(buffer, Head(pending))
            /\ pending' = Tail(pending)
            /\ UNCHANGED phase
    /\ UNCHANGED <<ready, postVars, handled, timerVars>>

\* Time that passes in a turn.
After(dt) == [t \in Timers |-> IF t \in running THEN remaining[t] - dt ELSE remaining[t]]

Expired(times) == {t \in running : times[t] <= 0}

\* Mutant of TimersNext: always.
BugTimersFirst == TRUE

\* processEvent(): timers come before what is queued, but not twice in a row.
TimersNext == ~lastWasTimer \/ buffer = <<>>

\* Mutant of HandleTimer: the first timer that has expired, not the one that
\* is most overdue.
BugAnyTimer(dt) ==
    LET times == After(dt)
        top == CHOOSE t \in running : t \in Expired(times)
    IN /\ phase = "running" /\ TimersNext
       /\ Expired(times) # {}
       /\ remaining' = [times EXCEPT ![top] = Period[top]]
       /\ running' = running \ (OneShot \cap {top})
       /\ lastWasTimer' = TRUE
       /\ UNCHANGED <<phase, ready, pending, buffer, postVars, handled>>

\* hasTimerExpired(): the timer that is most overdue; a one-shot leaves the
\* queue, another begins its next period.
HandleTimer(dt) ==
    LET times == After(dt)
    IN /\ phase = "running" /\ TimersNext
       /\ \E top \in Expired(times) :
            /\ \A t \in running : times[top] <= times[t]
            /\ remaining' = [times EXCEPT ![top] = Period[top]]
            /\ running' = running \ (OneShot \cap {top})
       /\ lastWasTimer' = TRUE
       /\ UNCHANGED <<phase, ready, pending, buffer, postVars, handled>>

\* getEvent() from the buffer and dispatchEvent().
HandleEvent(dt) ==
    LET event == Head(buffer)
    IN /\ phase = "running" /\ buffer # <<>>
       /\ TimersNext => Expired(After(dt)) = {}
       /\ buffer' = Tail(buffer)
       /\ handled' = IF event = Input THEN handled ELSE [handled EXCEPT ![event.from] = event.n]
       /\ remaining' = After(dt)
       /\ lastWasTimer' = FALSE
       /\ UNCHANGED <<phase, ready, pending, postVars, running>>

\* waitForEvent(): nothing to do until the next timer expires.
Wait ==
    /\ phase = "running" /\ buffer = <<>> /\ running # {} /\ Expired(remaining) = {}
    /\ remaining' = After(1)
    /\ UNCHANGED <<phase, ready, pending, buffer, postVars, handled, running, lastWasTimer>>

\* newTimer() and newOneShotTimer() in a handler.
NewTimer(t) ==
    /\ phase = "running" /\ t \notin running
    /\ running' = running \cup {t}
    /\ remaining' = [remaining EXCEPT ![t] = Period[t]]
    /\ UNCHANGED <<phase, ready, pending, buffer, postVars, handled, lastWasTimer>>

\* deleteTimer() in a handler.
DeleteTimer(t) ==
    /\ phase = "running" /\ t \in running
    /\ running' = running \ {t}
    /\ remaining' = [remaining EXCEPT ![t] = Period[t]]
    /\ UNCHANGED <<phase, ready, pending, buffer, postVars, handled, lastWasTimer>>

Init ==
    /\ phase = "starting" /\ ready = FALSE
    /\ pending = <<>> /\ buffer = <<>>
    /\ adding = [p \in Threads |-> "no"]
    /\ posted = [p \in Posters |-> 0]
    /\ handled = [p \in Posters |-> 0]
    /\ remaining = Period
    /\ running \in SUBSET Timers
    /\ lastWasTimer = FALSE

Turn == \E dt \in 0 .. 1 : HandleTimer(dt) \/ HandleEvent(dt)

Loop == SetReady \/ FlushPending \/ Turn \/ Wait

Next ==
    \/ Loop
    \/ AddEventInHandler
    \/ \E p \in Threads : BeginAddEvent(p) \/ EndAddEvent(p)
    \/ PlatformInput
    \/ \E t \in Timers : NewTimer(t) \/ DeleteTimer(t)

Spec == Init /\ [][Next]_vars

\* The loop's thread and the threads inside addEvent() go on.
Fairness ==
    /\ WF_vars(Loop)
    /\ \A p \in Threads : WF_vars(EndAddEvent(p))

FairSpec == Spec /\ Fairness

-----------------------------------------------------------------------------
(* Properties.                                                             *)

Events == [from : Posters, n : 0 .. MaxPosts]

\* Every variable has its type.
TypeOK ==
    /\ phase \in {"starting", "flushing", "running"}
    /\ ready = (phase # "starting")
    /\ pending \in Seq(Events) /\ buffer \in Seq(Events)
    /\ adding \in [Threads -> {"no", "pending", "buffer"}]
    /\ posted \in [Posters -> 0 .. MaxPosts]
    /\ handled \in [Posters -> 0 .. MaxPosts]
    /\ remaining \in [Timers -> Int]
    /\ running \subseteq Timers
    /\ lastWasTimer \in BOOLEAN

\* The events of a thread that adds none before the queue is ready are
\* dispatched in the order in which it added them, and none is skipped,
\* whatever the threads that are early do.  (IEventQueue.h:65: "Adds event to
\* the end of the queue".)  It does not hold of those that are early.
HandledInOrder ==
    [][\A p \in Steady : handled'[p] \in {handled[p], handled[p] + 1}]_vars

\* Every event that such a thread added is dispatched, however fast timers fire
\* and input arrives.  (addEvent, loop, processEvent.)
EveryEventHandled ==
    \A p \in Steady, n \in 1 .. MaxPosts : (posted[p] >= n) ~> (handled[p] >= n)

\* Every timer that expires is dispatched, unless it is deleted, however fast
\* input arrives.  (processEvent: "mouse motion and network input can keep the
\* buffer nonempty indefinitely".)
EveryTimerHandled ==
    \A t \in Timers : (t \in running /\ remaining[t] <= 0)
                          ~> (t \notin running \/ remaining[t] > 0)

\* Neither events nor timers starve the other: EventQueue::processEvent serves one
\* timer, then an event if there is one.
NothingStarves == EveryEventHandled /\ EveryTimerHandled

\* A timer is late by at most two turns for each timer: every other turn
\* serves a timer, and the most overdue one.  (hasTimerExpired.)
LatenessIsBounded ==
    \A t \in running : remaining[t] > -2 * Cardinality(Timers)
=============================================================================
