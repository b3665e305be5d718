-------------------------- MODULE EventQueueProofs --------------------------
(***************************************************************************)
(* Proofs about EventQueue, for any number of threads, timers and events:  *)
(* type correctness, the bound on how late a timer can be, and, when no    *)
(* thread adds events before the loop is ready, that the events of each    *)
(* thread are dispatched in order and without a gap.                       *)
(***************************************************************************)
EXTENDS EventQueue, Functions, FiniteSetTheorems, TLAPS

-----------------------------------------------------------------------------
(* Type correctness.                                                       *)

\* The buffer holds events.
LEMMA EventType ==
    ASSUME NEW p \in Posters, NEW n \in 0 .. MaxPosts
    PROVE  [from |-> p, n |-> n] \in Events
BY DEF Events

\* The platform's input is an event.
LEMMA InputType == Input \in Events
BY QueueAssumption DEF Input, Events, Posters

\* The head and the tail of a queue of events.
LEMMA QueueType ==
    ASSUME NEW q \in Seq(Events), q # <<>>
    PROVE  Head(q) \in Events /\ Tail(q) \in Seq(Events)
OBVIOUS

\* So does a queue with one more event.
LEMMA LongerQueueType ==
    ASSUME NEW q \in Seq(Events), NEW event \in Events
    PROVE  Append(q, event) \in Seq(Events)
OBVIOUS

\* Time passes for integers.
LEMMA AfterType ==
    ASSUME remaining \in [Timers -> Int], NEW dt \in Int
    PROVE  After(dt) \in [Timers -> Int]
BY DEF After

\* The constructor leaves every variable well typed.
LEMMA QueueTypeInit == Init => TypeOK
<1>1. 0 \in 0 .. MaxPosts
      BY QueueAssumption
<1>2. Period \in [Timers -> Int]
      BY QueueAssumption
<1>3. <<>> \in Seq(Events)
      OBVIOUS
<1> QED BY <1>1, <1>2, <1>3 DEF Init, TypeOK

\* Every step keeps the types.
LEMMA QueueTypeStep == TypeOK /\ [Next]_vars => TypeOK'
<1> SUFFICES ASSUME TypeOK, [Next]_vars PROVE TypeOK'
    OBVIOUS
<1> USE DEF TypeOK, postVars, timerVars
<1>1. ASSUME AddEventInHandler PROVE TypeOK'
      <2>1. Main \in Posters /\ posted[Main] + 1 \in 0 .. MaxPosts
            BY <1>1, QueueAssumption DEF AddEventInHandler, Posters
      <2>2. [from |-> Main, n |-> posted[Main] + 1] \in Events
            BY <2>1, EventType
      <2>3. /\ Append(buffer, [from |-> Main, n |-> posted[Main] + 1]) \in Seq(Events)
            /\ Append(pending, [from |-> Main, n |-> posted[Main] + 1]) \in Seq(Events)
            BY <2>2, LongerQueueType
      <2> QED BY <1>1, <2>1, <2>3 DEF AddEventInHandler
<1>2. ASSUME NEW p \in Threads, BeginAddEvent(p) PROVE TypeOK'
      <2>1. p \in Posters /\ posted[p] + 1 \in 0 .. MaxPosts
            BY <1>2, QueueAssumption DEF BeginAddEvent, Posters
      <2> QED BY <1>2, <2>1 DEF BeginAddEvent
<1>3. ASSUME NEW p \in Threads, EndAddEvent(p) PROVE TypeOK'
      <2>1. [from |-> p, n |-> posted[p]] \in Events
            BY EventType DEF Posters
      <2>2. /\ Append(buffer, [from |-> p, n |-> posted[p]]) \in Seq(Events)
            /\ Append(pending, [from |-> p, n |-> posted[p]]) \in Seq(Events)
            BY <2>1, LongerQueueType
      <2> QED BY <1>3, <2>2 DEF EndAddEvent
<1>4. CASE PlatformInput
      BY <1>4, InputType, LongerQueueType DEF PlatformInput
<1>5. CASE SetReady
      BY <1>5 DEF SetReady
<1>6. CASE FlushPending
      <2>1. CASE pending = <<>>
            BY <1>6, <2>1 DEF FlushPending
      <2>2. CASE pending # <<>>
            <3>1. Head(pending) \in Events /\ Tail(pending) \in Seq(Events)
                  BY <2>2, QueueType
            <3>2. Append(buffer, Head(pending)) \in Seq(Events)
                  BY <3>1, LongerQueueType
            <3> QED BY <1>6, <2>2, <3>1, <3>2 DEF FlushPending
      <2> QED BY <2>1, <2>2
<1>7. ASSUME NEW dt \in 0 .. 1, HandleTimer(dt) PROVE TypeOK'
      <2>1. After(dt) \in [Timers -> Int]
            BY AfterType
      <2>2. PICK top \in Expired(After(dt)) :
                /\ remaining' = [After(dt) EXCEPT ![top] = Period[top]]
                /\ running' = running \ (OneShot \cap {top})
            BY <1>7 DEF HandleTimer
      <2>3. top \in Timers /\ Period[top] \in Int
            BY QueueAssumption DEF Expired
      <2> QED BY <1>7, <2>1, <2>2, <2>3 DEF HandleTimer
<1>8. ASSUME NEW dt \in 0 .. 1, HandleEvent(dt) PROVE TypeOK'
      <2>1. After(dt) \in [Timers -> Int]
            BY AfterType
      <2>2. Head(buffer) \in Events /\ Tail(buffer) \in Seq(Events)
            BY <1>8, QueueType DEF HandleEvent
      <2>3. handled' \in [Posters -> 0 .. MaxPosts]
            BY <1>8, <2>2 DEF HandleEvent, Events
      <2> QED BY <1>8, <2>1, <2>2, <2>3 DEF HandleEvent
<1>9. CASE Wait
      BY <1>9, AfterType, SMTT(30) DEF Wait
<1>10. ASSUME NEW t \in Timers, NewTimer(t) \/ DeleteTimer(t) PROVE TypeOK'
      <2>1. Period[t] \in Int
            BY QueueAssumption
      <2> QED BY <1>10, <2>1 DEF NewTimer, DeleteTimer
<1>11. CASE UNCHANGED vars
      BY <1>11 DEF vars
<1> QED BY <1>1, <1>2, <1>3, <1>4, <1>5, <1>6, <1>7, <1>8, <1>9, <1>10, <1>11
        DEF Next, Loop, Turn

\* Every variable keeps its type, for any threads, timers and bounds.
THEOREM QueueTypeCorrect == Spec => []TypeOK
BY QueueTypeInit, QueueTypeStep, PTL DEF Spec

-----------------------------------------------------------------------------
(* How late a timer can be.                                                *)

\* The timers in a queue run that hasTimerExpired() may serve before t, when
\* the times until they expire are times.
Ahead(times, run, t) == {u \in run \ {t} : times[u] <= times[t]}

\* The turns that timers not ahead of t and events can have taken before t's: two
\* for each such timer, of which one dispatches an event, and one more unless
\* the last turn was a timer's.
TurnsLost(times, run, last, t) ==
    2 * (Cardinality(Timers) - 1 - Cardinality(Ahead(times, run, t)))
        + (IF last THEN 0 ELSE 1)

\* A timer is late by no more than that.
InTime(times, run, last, t) ==
    times[t] <= 0 => -times[t] <= TurnsLost(times, run, last, t)

LateInv == \A t \in running : InTime(remaining, running, lastWasTimer, t)

\* Fewer than all timers are ahead of one.
LEMMA AheadSize ==
    ASSUME NEW times \in [Timers -> Int], NEW run \in SUBSET Timers, NEW t \in run
    PROVE  /\ IsFiniteSet(Ahead(times, run, t))
           /\ Cardinality(Ahead(times, run, t)) \in Nat /\ Cardinality(Timers) \in Nat
           /\ Cardinality(Ahead(times, run, t)) + 1 <= Cardinality(Timers)
<1>1. IsFiniteSet(Timers) /\ t \in Timers
      BY QueueAssumption
<1>2. IsFiniteSet(Timers \ {t}) /\ Cardinality(Timers \ {t}) = Cardinality(Timers) - 1
      BY <1>1, FS_RemoveElement
<1>3. Ahead(times, run, t) \subseteq Timers \ {t}
      BY DEF Ahead
<1>4. /\ IsFiniteSet(Ahead(times, run, t))
      /\ Cardinality(Ahead(times, run, t)) <= Cardinality(Timers \ {t})
      BY <1>2, <1>3, FS_Subset
<1>5. Cardinality(Ahead(times, run, t)) \in Nat /\ Cardinality(Timers) \in Nat
      BY <1>1, <1>4, FS_CardinalityType
<1> QED BY <1>2, <1>4, <1>5

\* A timer that is not late is in time.
LEMMA NotLate ==
    ASSUME NEW times \in [Timers -> Int], NEW run \in SUBSET Timers, NEW t \in run,
           NEW last \in BOOLEAN, times[t] >= 0
    PROVE  InTime(times, run, last, t)
BY AheadSize DEF InTime, TurnsLost

\* A timer stays in time when no time passes for it and none gets ahead of it.
LEMMA NobodyOvertakes ==
    ASSUME NEW times \in [Timers -> Int], NEW run \in SUBSET Timers, NEW t \in run,
           NEW last \in BOOLEAN, InTime(times, run, last, t),
           NEW times2 \in [Timers -> Int], NEW run2 \in SUBSET Timers, t \in run2,
           times2[t] = times[t],
           Ahead(times2, run2, t) \subseteq Ahead(times, run, t)
    PROVE  InTime(times2, run2, last, t)
<1>1. Cardinality(Ahead(times2, run2, t)) <= Cardinality(Ahead(times, run, t))
      BY AheadSize, FS_Subset
<1> QED BY <1>1, AheadSize DEF InTime, TurnsLost

\* When hasTimerExpired() served a timer that was ahead of t, t is in time
\* although a unit has passed.
LEMMA OneFewerAhead ==
    ASSUME NEW times \in [Timers -> Int], NEW run \in SUBSET Timers, NEW t \in run,
           NEW last \in BOOLEAN, InTime(times, run, last, t), times[t] <= 0,
           NEW times2 \in [Timers -> Int], NEW run2 \in SUBSET Timers, t \in run2,
           times2[t] >= times[t] - 1,
           NEW top \in Ahead(times, run, t),
           Ahead(times2, run2, t) \subseteq Ahead(times, run, t) \ {top}
    PROVE  InTime(times2, run2, TRUE, t)
<1> DEFINE A == Ahead(times, run, t)
           B == Ahead(times2, run2, t)
<1>1. IsFiniteSet(A) /\ Cardinality(A) \in Nat /\ Cardinality(Timers) \in Nat
      BY AheadSize
<1>2. IsFiniteSet(A \ {top}) /\ Cardinality(A \ {top}) = Cardinality(A) - 1
      BY <1>1, FS_RemoveElement
<1>3. Cardinality(B) <= Cardinality(A) - 1 /\ Cardinality(B) \in Nat
      BY <1>2, FS_Subset, AheadSize
<1>4. t \in Timers /\ times[t] \in Int /\ times2[t] \in Int
      OBVIOUS
<1>5. -times[t] <= 2 * (Cardinality(Timers) - 1 - Cardinality(A)) + 1
      BY <1>1, <1>4 DEF InTime, TurnsLost
<1> HIDE DEF A, B
<1>6. -times2[t] <= 2 * (Cardinality(Timers) - 1 - Cardinality(B))
      BY <1>1, <1>3, <1>4, <1>5
<1> QED BY <1>6, <1>1, <1>3 DEF InTime, TurnsLost, A, B

\* An event's turn after a timer's: t is in time although a unit may have passed.
LEMMA EventAfterTimer ==
    ASSUME NEW times \in [Timers -> Int], NEW run \in SUBSET Timers, NEW t \in run,
           InTime(times, run, TRUE, t), times[t] <= 0,
           NEW times2 \in [Timers -> Int], times2[t] >= times[t] - 1,
           Ahead(times2, run, t) = Ahead(times, run, t)
    PROVE  InTime(times2, run, FALSE, t)
BY AheadSize DEF InTime, TurnsLost

\* Time passes alike for all timers in the queue.
LEMMA AfterIsAlike ==
    ASSUME TypeOK, NEW dt \in 0 .. 1, NEW t \in running
    PROVE  /\ After(dt) \in [Timers -> Int]
           /\ After(dt)[t] = remaining[t] - dt
           /\ Ahead(After(dt), running, t) = Ahead(remaining, running, t)
BY DEF TypeOK, After, Ahead

\* hasTimerExpired() serves a timer: whatever else has expired was behind it.
LEMMA LateHandleTimer ==
    ASSUME TypeOK, TypeOK', LateInv, NEW dt \in 0 .. 1, HandleTimer(dt)
    PROVE  LateInv'
<1> DEFINE times == After(dt)
<1>1. PICK top \in Expired(times) :
          /\ \A u \in running : times[top] <= times[u]
          /\ remaining' = [times EXCEPT ![top] = Period[top]]
          /\ running' = running \ (OneShot \cap {top})
      BY DEF HandleTimer
<1>2. /\ top \in running /\ top \in Timers /\ Period[top] \in Nat /\ Period[top] >= 1
      /\ running \in SUBSET Timers /\ remaining \in [Timers -> Int]
      BY QueueAssumption DEF Expired, TypeOK
<1>3. /\ remaining' \in [Timers -> Int] /\ running' \in SUBSET Timers
      /\ lastWasTimer \in BOOLEAN
      BY DEF TypeOK
<1>4. lastWasTimer' = TRUE
      BY DEF HandleTimer
<1> SUFFICES ASSUME NEW t \in running'
             PROVE  InTime(remaining', running', TRUE, t)
    BY <1>4 DEF LateInv
<1>5. t \in running /\ t \in Timers /\ remaining[t] \in Int
      BY <1>1, <1>2
<1>6. /\ times \in [Timers -> Int] /\ times[t] = remaining[t] - dt
      /\ Ahead(times, running, t) = Ahead(remaining, running, t)
      BY <1>5, AfterIsAlike
<1>7. CASE remaining'[t] >= 0
      BY <1>3, <1>7, NotLate
<1>8. CASE remaining'[t] < 0
      <2>1. t # top
            BY <1>1, <1>2, <1>6, <1>8
      <2>2. remaining'[t] = remaining[t] - dt
            BY <1>1, <1>2, <1>5, <1>6, <2>1
      <2>3. remaining[t] <= 0
            BY <1>5, <1>8, <2>2
      <2>4. top \in Ahead(remaining, running, t)
            BY <1>1, <1>2, <1>5, <1>6, <2>1 DEF Ahead
      <2>5. Ahead(remaining', running', t) \subseteq Ahead(remaining, running, t) \ {top}
            <3> SUFFICES ASSUME NEW u \in Ahead(remaining', running', t)
                         PROVE  u \in Ahead(times, running, t) /\ u # top
                BY <1>6
            <3>1. u \in running /\ u # t /\ remaining'[u] <= remaining'[t] /\ u \in Timers
                  BY <1>1, <1>2 DEF Ahead
            <3>2. remaining'[top] = Period[top]
                  BY <1>1, <1>2, <1>6
            <3>3. u # top
                  BY <1>2, <1>3, <1>5, <1>8, <3>1, <3>2
            <3>4. remaining'[u] = times[u] /\ remaining'[t] = times[t]
                  BY <1>1, <1>5, <1>6, <2>1, <3>1, <3>3
            <3> QED BY <3>1, <3>3, <3>4 DEF Ahead
      <2>6. InTime(remaining, running, lastWasTimer, t)
            BY <1>5 DEF LateInv
      <2>7. remaining'[t] >= remaining[t] - 1
            BY <1>5, <2>2
      <2> QED BY <1>2, <1>3, <1>5, <2>3, <2>4, <2>5, <2>6, <2>7, OneFewerAhead
<1>9. remaining'[t] >= 0 \/ remaining'[t] < 0
      BY <1>3, <1>5
<1> QED BY <1>7, <1>8, <1>9

\* An event is dispatched: nothing has expired, or a timer was served before it.
LEMMA LateHandleEvent ==
    ASSUME TypeOK, LateInv, NEW dt \in 0 .. 1, HandleEvent(dt)
    PROVE  LateInv'
<1>1. /\ remaining' = After(dt) /\ running' = running /\ lastWasTimer' = FALSE
      /\ TimersNext => Expired(After(dt)) = {}
      BY DEF HandleEvent
<1>2. running \in SUBSET Timers /\ remaining \in [Timers -> Int] /\ lastWasTimer \in BOOLEAN
      BY DEF TypeOK
<1> SUFFICES ASSUME NEW t \in running
             PROVE  InTime(After(dt), running, FALSE, t)
    BY <1>1 DEF LateInv
<1>3. /\ After(dt) \in [Timers -> Int] /\ After(dt)[t] = remaining[t] - dt
      /\ Ahead(After(dt), running, t) = Ahead(remaining, running, t)
      BY AfterIsAlike
<1>4. CASE After(dt)[t] >= 0
      BY <1>2, <1>3, <1>4, NotLate
<1>5. CASE After(dt)[t] < 0
      <2>1. t \in Expired(After(dt))
            BY <1>2, <1>3, <1>5 DEF Expired
      <2>2. lastWasTimer = TRUE
            BY <1>1, <1>2, <2>1 DEF TimersNext
      <2>3. InTime(remaining, running, TRUE, t)
            BY <2>2 DEF LateInv
      <2>4. remaining[t] <= 0 /\ After(dt)[t] >= remaining[t] - 1
            BY <1>2, <1>3, <1>5
      <2> QED BY <1>2, <1>3, <2>3, <2>4, EventAfterTimer
<1>6. After(dt)[t] >= 0 \/ After(dt)[t] < 0
      BY <1>2, <1>3
<1> QED BY <1>4, <1>5, <1>6

\* Every step keeps the timers in time.
LEMMA LateStep == TypeOK /\ TypeOK' /\ LateInv /\ [Next]_vars => LateInv'
<1> SUFFICES ASSUME TypeOK, TypeOK', LateInv, [Next]_vars PROVE LateInv'
    OBVIOUS
<1>1. /\ remaining \in [Timers -> Int] /\ running \in SUBSET Timers
      /\ remaining' \in [Timers -> Int] /\ running' \in SUBSET Timers
      /\ lastWasTimer \in BOOLEAN
      BY DEF TypeOK
<1>2. CASE UNCHANGED timerVars
      BY <1>2 DEF LateInv, timerVars
<1>3. ASSUME NEW dt \in 0 .. 1, HandleTimer(dt) PROVE LateInv'
      BY <1>3, LateHandleTimer
<1>4. ASSUME NEW dt \in 0 .. 1, HandleEvent(dt) PROVE LateInv'
      BY <1>4, LateHandleEvent
<1>5. CASE Wait
      <2>1. /\ remaining' = After(1) /\ running' = running /\ lastWasTimer' = lastWasTimer
            /\ Expired(remaining) = {}
            BY <1>5 DEF Wait
      <2> SUFFICES ASSUME NEW t \in running
                   PROVE  InTime(After(1), running, lastWasTimer, t)
          BY <2>1 DEF LateInv
      <2>2. After(1)[t] = remaining[t] - 1
            BY AfterIsAlike
      <2>3. remaining[t] \in Int /\ remaining[t] > 0
            BY <1>1, <2>1 DEF Expired
      <2>4. After(1)[t] >= 0
            BY <2>2, <2>3
      <2> QED BY <1>1, <2>1, <2>4, NotLate
<1>6. ASSUME NEW u \in Timers, NewTimer(u) PROVE LateInv'
      <2>1. /\ running' = running \cup {u} /\ lastWasTimer' = lastWasTimer
            /\ remaining' = [remaining EXCEPT ![u] = Period[u]]
            BY <1>6 DEF NewTimer
      <2>2. remaining'[u] >= 1 /\ remaining'[u] \in Int
            <3>1. Period[u] \in Nat /\ Period[u] >= 1
                  BY QueueAssumption
            <3> QED BY <1>1, <2>1, <3>1
      <2> SUFFICES ASSUME NEW t \in running'
                   PROVE  InTime(remaining', running', lastWasTimer, t)
          BY <2>1 DEF LateInv
      <2>3. CASE remaining'[t] >= 0
            BY <1>1, <2>3, NotLate
      <2>4. CASE remaining'[t] < 0
            <3>1. t # u /\ t \in running /\ remaining'[t] = remaining[t]
                  BY <1>1, <2>1, <2>2, <2>4
            <3>2. Ahead(remaining', running', t) \subseteq Ahead(remaining, running, t)
                  BY <1>1, <2>1, <2>2, <2>4, <3>1 DEF Ahead
            <3>3. InTime(remaining, running, lastWasTimer, t)
                  BY <3>1 DEF LateInv
            <3> QED BY <1>1, <3>1, <3>2, <3>3, NobodyOvertakes
      <2>5. remaining'[t] \in Int
            BY <1>1
      <2> QED BY <2>3, <2>4, <2>5
<1>7. ASSUME NEW u \in Timers, DeleteTimer(u) PROVE LateInv'
      <2>1. /\ running' = running \ {u} /\ lastWasTimer' = lastWasTimer
            /\ remaining' = [remaining EXCEPT ![u] = Period[u]]
            BY <1>7 DEF DeleteTimer
      <2> SUFFICES ASSUME NEW t \in running'
                   PROVE  InTime(remaining', running', lastWasTimer, t)
          BY <2>1 DEF LateInv
      <2>2. t # u /\ t \in running /\ remaining'[t] = remaining[t]
            BY <1>1, <2>1
      <2>3. Ahead(remaining', running', t) \subseteq Ahead(remaining, running, t)
            BY <1>1, <2>1, <2>2 DEF Ahead
      <2>4. InTime(remaining, running, lastWasTimer, t)
            BY <2>2 DEF LateInv
      <2> QED BY <1>1, <2>2, <2>3, <2>4, NobodyOvertakes
<1>8. CASE AddEventInHandler \/ PlatformInput \/ SetReady \/ FlushPending
      BY <1>2, <1>8 DEF AddEventInHandler, PlatformInput, SetReady, FlushPending, timerVars
<1>9. ASSUME NEW p \in Threads, BeginAddEvent(p) \/ EndAddEvent(p) PROVE LateInv'
      BY <1>2, <1>9 DEF BeginAddEvent, EndAddEvent, timerVars
<1>10. CASE UNCHANGED vars
      BY <1>2, <1>10 DEF vars, timerVars
<1> QED BY <1>3, <1>4, <1>5, <1>6, <1>7, <1>8, <1>9, <1>10 DEF Next, Loop, Turn

\* No timer starts late.
LEMMA LateInit == Init => LateInv
<1> SUFFICES ASSUME Init, NEW t \in running PROVE InTime(remaining, running, lastWasTimer, t)
    BY DEF LateInv
<1>1. TypeOK
      BY QueueTypeInit
<1>2. remaining[t] >= 0
      BY <1>1, QueueAssumption DEF Init, TypeOK
<1> QED BY <1>1, <1>2, NotLate DEF TypeOK

\* The bound: a timer for which all others can have been served is late by less
\* than two turns for each timer.
LEMMA LateBound == TypeOK /\ LateInv => LatenessIsBounded
<1> SUFFICES ASSUME TypeOK, LateInv, NEW t \in running
             PROVE  remaining[t] > -2 * Cardinality(Timers)
    BY DEF LatenessIsBounded
<1>1. remaining \in [Timers -> Int] /\ running \in SUBSET Timers /\ remaining[t] \in Int
      BY DEF TypeOK
<1>2. /\ Cardinality(Ahead(remaining, running, t)) \in Nat /\ Cardinality(Timers) \in Nat
      /\ Cardinality(Ahead(remaining, running, t)) + 1 <= Cardinality(Timers)
      BY <1>1, AheadSize
<1>3. InTime(remaining, running, lastWasTimer, t)
      BY DEF LateInv
<1> QED BY <1>1, <1>2, <1>3 DEF InTime, TurnsLost

\* However fast events arrive and however many timers there are, each timer is
\* late by less than two turns of the loop for each timer.  (hasTimerExpired,
\* processEvent.)
THEOREM TimersAreInTime == Spec => []LatenessIsBounded
<1>1. Init => TypeOK /\ LateInv
      BY QueueTypeInit, LateInit
<1>2. TypeOK /\ LateInv /\ [Next]_vars => (TypeOK /\ LateInv)'
      BY QueueTypeStep, LateStep
<1> QED BY <1>1, <1>2, LateBound, PTL DEF Spec

-----------------------------------------------------------------------------
(* The order of each thread's events.                                      *)

\* The events of p in a queue.
Of(p, q) == {e \in Range(q) : e.from = p /\ e # Input}

\* The events that p has added: all it has begun to add but the one that it is
\* about to append.
Added(p) == IF p \in Threads /\ adding[p] # "no" THEN posted[p] - 1 ELSE posted[p]

\* The events of p in a queue stand in the order of their numbers.
Increasing(p, q) ==
    \A i, j \in 1 .. Len(q) :
        (i < j /\ q[i] \in Of(p, q) /\ q[j] \in Of(p, q)) => q[i].n < q[j].n

\* The events of p that were added and not dispatched are queued, those in the
\* buffer before those that are pending.
InOrder(p) ==
    /\ Increasing(p, buffer) /\ Increasing(p, pending)
    /\ \A e \in Of(p, buffer), f \in Of(p, pending) : e.n < f.n
    /\ \A e \in Of(p, buffer) \cup Of(p, pending) : handled[p] < e.n /\ e.n <= Added(p)
    /\ \A k \in Nat : (handled[p] < k /\ k <= Added(p)) =>
           [from |-> p, n |-> k] \in Of(p, buffer) \cup Of(p, pending)
    /\ handled[p] <= Added(p)
    /\ (phase = "running" \/ p # Main) => Of(p, pending) = {}
    /\ p \in Threads => adding[p] # "pending"

OrderInv == \A p \in Steady : InOrder(p)

\* What a queue holds after an event was appended to it.
LEMMA OfAppend ==
    ASSUME NEW p \in Posters, NEW q \in Seq(Events), NEW event \in Events
    PROVE  Of(p, Append(q, event)) =
               Of(p, q) \cup (IF event.from = p /\ event # Input THEN {event} ELSE {})
<1> DEFINE r == Append(q, event)
<1>1. r \in Seq(Events) /\ Len(r) = Len(q) + 1
      BY LongerQueueType
<1>2. \A i \in 1 .. Len(q) : r[i] = q[i]
      OBVIOUS
<1>3. r[Len(q) + 1] = event
      OBVIOUS
<1>4. DOMAIN q = 1 .. Len(q) /\ DOMAIN r = 1 .. Len(r) /\ Len(q) \in Nat
      BY <1>1
<1> HIDE DEF r
<1>5. Range(r) = Range(q) \cup {event}
      <2>1. ASSUME NEW e \in Range(r) PROVE e \in Range(q) \cup {event}
            BY <1>1, <1>2, <1>3, <1>4 DEF Range
      <2>2. ASSUME NEW e \in Range(q) PROVE e \in Range(r)
            BY <1>1, <1>2, <1>4 DEF Range
      <2>3. event \in Range(r)
            BY <1>1, <1>3, <1>4 DEF Range
      <2> QED BY <2>1, <2>2, <2>3
<1> QED BY <1>5 DEF Of, r

\* An event appended behind smaller ones of its thread.
LEMMA IncreasingAppend ==
    ASSUME NEW p \in Posters, NEW q \in Seq(Events), NEW event \in Events,
           Increasing(p, q),
           (event.from = p /\ event # Input) => \A e \in Of(p, q) : e.n < event.n
    PROVE  Increasing(p, Append(q, event))
<1> DEFINE r == Append(q, event)
<1>1. r \in Seq(Events) /\ Len(r) = Len(q) + 1 /\ Len(q) \in Nat
      BY LongerQueueType
<1>2. \A i \in 1 .. Len(q) : r[i] = q[i] /\ q[i] \in Range(q)
      BY DEF Range
<1>3. r[Len(q) + 1] = event
      OBVIOUS
<1> SUFFICES ASSUME NEW i \in 1 .. Len(r), NEW j \in 1 .. Len(r), i < j,
                    r[i] \in Of(p, r), r[j] \in Of(p, r)
             PROVE  r[i].n < r[j].n
    BY DEF Increasing
<1> HIDE DEF r
<1>4. i \in 1 .. Len(q) /\ r[i] = q[i] /\ q[i] \in Of(p, q)
      BY <1>1, <1>2 DEF Of
<1>5. CASE j \in 1 .. Len(q)
      <2>1. r[j] = q[j] /\ q[j] \in Of(p, q)
            BY <1>2, <1>5 DEF Of
      <2> QED BY <1>4, <1>5, <2>1 DEF Increasing
<1>6. CASE j = Len(q) + 1
      <2>1. r[j] = event /\ event.from = p /\ event # Input
            BY <1>3, <1>6 DEF Of
      <2> QED BY <1>4, <2>1
<1> QED BY <1>1, <1>5, <1>6

\* An event of another thread changes nothing for p.
LEMMA OtherAppend ==
    ASSUME NEW p \in Posters, NEW q \in Seq(Events), NEW event \in Events,
           Increasing(p, q), ~(event.from = p /\ event # Input)
    PROVE  Of(p, Append(q, event)) = Of(p, q) /\ Increasing(p, Append(q, event))
<1>1. Of(p, Append(q, event)) = Of(p, q) \cup {}
      BY OfAppend
<1>2. Increasing(p, Append(q, event))
      BY IncreasingAppend
<1> QED BY <1>1, <1>2

\* What a queue held before its first event was taken.
LEMMA OfTail ==
    ASSUME NEW p \in Posters, NEW q \in Seq(Events), q # <<>>, Increasing(p, q)
    PROVE  /\ Of(p, q) =
                  Of(p, Tail(q)) \cup
                      (IF Head(q).from = p /\ Head(q) # Input THEN {Head(q)} ELSE {})
           /\ Increasing(p, Tail(q))
           /\ (Head(q).from = p /\ Head(q) # Input)
                  => \A e \in Of(p, Tail(q)) : Head(q).n < e.n
<1> DEFINE r == Tail(q)
<1>1. r \in Seq(Events) /\ Len(r) = Len(q) - 1 /\ Len(q) \in Nat /\ Len(q) >= 1
      BY QueueType
<1>2. \A i \in 1 .. Len(r) : r[i] = q[i + 1]
      OBVIOUS
<1>3. q[1] = Head(q)
      OBVIOUS
<1>4. DOMAIN q = 1 .. Len(q) /\ DOMAIN r = 1 .. Len(r)
      BY <1>1
<1> HIDE DEF r
<1>5. Range(q) = Range(r) \cup {Head(q)}
      <2>1. ASSUME NEW e \in Range(q) PROVE e \in Range(r) \cup {Head(q)}
            <3>1. PICK i \in 1 .. Len(q) : e = q[i]
                  BY <1>4 DEF Range
            <3>2. CASE i = 1
                  BY <1>3, <3>1, <3>2
            <3>3. CASE i # 1
                  <4>1. i - 1 \in 1 .. Len(r) /\ r[i - 1] = q[(i - 1) + 1]
                        BY <1>1, <1>2, <3>3
                  <4> QED BY <1>4, <3>1, <4>1 DEF Range
            <3> QED BY <3>2, <3>3
      <2>2. ASSUME NEW e \in Range(r) PROVE e \in Range(q)
            BY <1>1, <1>2, <1>4 DEF Range
      <2>3. Head(q) \in Range(q)
            BY <1>1, <1>3, <1>4 DEF Range
      <2> QED BY <2>1, <2>2, <2>3
<1>6. Of(p, q) = Of(p, r) \cup
                      (IF Head(q).from = p /\ Head(q) # Input THEN {Head(q)} ELSE {})
      BY <1>5 DEF Of
<1>7. ASSUME NEW i \in 1 .. Len(r) PROVE i + 1 \in 1 .. Len(q) /\ r[i] = q[i + 1]
      BY <1>1, <1>2
<1>8. Increasing(p, r)
      <2> SUFFICES ASSUME NEW i \in 1 .. Len(r), NEW j \in 1 .. Len(r), i < j,
                          r[i] \in Of(p, r), r[j] \in Of(p, r)
                   PROVE  r[i].n < r[j].n
          BY DEF Increasing
      <2>1. i + 1 < j + 1 /\ q[i + 1] \in Of(p, q) /\ q[j + 1] \in Of(p, q)
            BY <1>6, <1>7
      <2> QED BY <1>7, <2>1 DEF Increasing
<1>9. ASSUME Head(q).from = p, Head(q) # Input, NEW e \in Of(p, r)
      PROVE  Head(q).n < e.n
      <2>1. PICK i \in 1 .. Len(r) : e = r[i]
            BY <1>4 DEF Of, Range
      <2>2. 1 < i + 1 /\ 1 \in 1 .. Len(q) /\ i + 1 \in 1 .. Len(q) /\ q[i + 1] = e
            BY <1>1, <1>7, <2>1
      <2>3. q[1] \in Of(p, q) /\ q[i + 1] \in Of(p, q)
            BY <1>3, <1>6, <1>9, <2>2
      <2>4. q[1].n < q[i + 1].n
            BY <2>2, <2>3 DEF Increasing
      <2> QED BY <1>3, <2>2, <2>4
<1> QED BY <1>6, <1>8, <1>9 DEF r

\* Nothing is in an empty queue.
LEMMA OfEmpty == \A p : Of(p, <<>>) = {} /\ Increasing(p, <<>>)
BY DEF Of, Range, Increasing

\* The numbers in the invariant.
LEMMA OrderTypes ==
    ASSUME TypeOK, NEW p \in Steady
    PROVE  /\ p \in Posters /\ handled[p] \in Nat /\ posted[p] \in Nat /\ Added(p) \in Int
           /\ pending \in Seq(Events) /\ buffer \in Seq(Events)
           /\ p # Main => p \in Threads
BY QueueAssumption DEF TypeOK, Steady, Posters, Added

\* The events of p are told apart by their numbers.
LEMMA OfType ==
    ASSUME NEW p \in Posters, NEW q \in Seq(Events), NEW e \in Of(p, q)
    PROVE  e \in Events /\ e.from = p /\ e.n \in Nat /\ e = [from |-> p, n |-> e.n]
<1>1. e \in Events
      BY DEF Of, Range
<1> QED BY <1>1, QueueAssumption DEF Of, Events

\* A step that has nothing to do with the events of p.
LEMMA OthersStep ==
    ASSUME NEW p \in Steady, InOrder(p),
           Of(p, buffer') = Of(p, buffer), Of(p, pending') = Of(p, pending),
           Increasing(p, buffer'), Increasing(p, pending'),
           handled'[p] = handled[p], Added(p)' = Added(p),
           phase' = phase \/ (phase' # "running" /\ phase # "running")
               \/ Of(p, pending) = {},
           p \in Threads => adding'[p] # "pending"
    PROVE  InOrder(p)'
BY DEF InOrder

\* A new event of p at the end of the buffer or of the pending events.
LEMMA NewEvent ==
    ASSUME TypeOK, NEW p \in Steady, InOrder(p), NEW n \in 1 .. MaxPosts, n = Added(p) + 1,
           \/ /\ buffer' = Append(buffer, [from |-> p, n |-> n]) /\ pending' = pending
              /\ Of(p, pending) = {}
           \/ /\ pending' = Append(pending, [from |-> p, n |-> n]) /\ buffer' = buffer
              /\ p = Main /\ phase # "running",
           Added(p)' = n, handled' = handled, phase' = phase,
           p \in Threads => adding'[p] # "pending"
    PROVE  InOrder(p)'
<1> DEFINE event == [from |-> p, n |-> n]
<1>1. /\ p \in Posters /\ handled[p] \in Nat /\ Added(p) \in Int
      /\ pending \in Seq(Events) /\ buffer \in Seq(Events)
      BY OrderTypes
<1>2. event \in Events /\ event.from = p /\ event.n = n /\ event # Input
      BY <1>1, QueueAssumption DEF Events, Input
<1>3. \A e \in Of(p, buffer) \cup Of(p, pending) : e.n < n /\ e.n \in Nat
      BY <1>1, OfType DEF InOrder
<1> HIDE DEF event
<1>4. ASSUME buffer' = Append(buffer, event), pending' = pending, Of(p, pending) = {}
      PROVE  /\ Of(p, buffer') = Of(p, buffer) \cup {event} /\ Of(p, pending') = {}
             /\ Increasing(p, buffer') /\ Increasing(p, pending')
      BY <1>1, <1>2, <1>3, <1>4, OfAppend, IncreasingAppend DEF InOrder
<1>5. ASSUME pending' = Append(pending, event), buffer' = buffer
      PROVE  /\ Of(p, pending') = Of(p, pending) \cup {event} /\ Of(p, buffer') = Of(p, buffer)
             /\ Increasing(p, buffer') /\ Increasing(p, pending')
      BY <1>1, <1>2, <1>3, <1>5, OfAppend, IncreasingAppend DEF InOrder
<1>6. /\ Of(p, buffer') \cup Of(p, pending')
             = Of(p, buffer) \cup Of(p, pending) \cup {event}
      /\ Increasing(p, buffer') /\ Increasing(p, pending')
      /\ \A e \in Of(p, buffer'), f \in Of(p, pending') : e.n < f.n
      /\ (phase = "running" \/ p # Main) => Of(p, pending') = {}
      BY <1>2, <1>3, <1>4, <1>5 DEF InOrder, event
<1>7. \A e \in Of(p, buffer') \cup Of(p, pending') : handled[p] < e.n /\ e.n <= n
      <2>1. ASSUME NEW e \in Of(p, buffer) \cup Of(p, pending)
            PROVE  handled[p] < e.n /\ e.n <= n
            BY <1>1, <1>3 DEF InOrder
      <2>2. handled[p] < event.n
            BY <1>1, <1>2 DEF InOrder
      <2> QED BY <1>2, <1>6, <2>1, <2>2
<1>8. ASSUME NEW k \in Nat, handled[p] < k, k <= n
      PROVE  [from |-> p, n |-> k] \in Of(p, buffer') \cup Of(p, pending')
      <2>1. CASE k = n
            BY <1>6, <2>1 DEF event
      <2>2. CASE k # n
            BY <1>1, <1>6, <1>8, <2>2 DEF InOrder
      <2> QED BY <2>1, <2>2
<1>9. handled[p] <= n
      BY <1>1 DEF InOrder
<1> QED BY <1>6, <1>7, <1>8, <1>9 DEF InOrder

\* loop() moves the first pending event to the buffer's end.
LEMMA FlushStep ==
    ASSUME TypeOK, NEW p \in Steady, InOrder(p), FlushPending
    PROVE  InOrder(p)'
<1>1. /\ p \in Posters /\ pending \in Seq(Events) /\ buffer \in Seq(Events)
      BY OrderTypes
<1>2. handled' = handled /\ Added(p)' = Added(p) /\ adding' = adding /\ phase = "flushing"
      BY DEF FlushPending, postVars, Added
<1>3. CASE pending = <<>>
      <2>1. pending' = pending /\ buffer' = buffer /\ Of(p, pending) = {}
            BY <1>3, OfEmpty DEF FlushPending
      <2> QED BY <1>2, <2>1, OthersStep DEF InOrder
<1>4. CASE pending # <<>>
      <2> DEFINE event == Head(pending)
                 its == IF event.from = p /\ event # Input THEN {event} ELSE {}
      <2>1. event \in Events /\ phase' = phase
            BY <1>1, <1>4, QueueType DEF FlushPending
      <2>2. buffer' = Append(buffer, event) /\ pending' = Tail(pending)
            BY <1>4 DEF FlushPending
      <2>3. /\ Of(p, pending) = Of(p, pending') \cup its
            /\ Increasing(p, pending')
            /\ \A e \in its, f \in Of(p, pending') : e.n < f.n
            BY <1>1, <1>4, <2>2, OfTail DEF InOrder
      <2>4. Of(p, buffer') = Of(p, buffer) \cup its
            BY <1>1, <2>1, <2>2, OfAppend
      <2>5. Increasing(p, buffer')
            BY <1>1, <2>1, <2>2, <2>3, IncreasingAppend DEF InOrder
      <2> HIDE DEF event, its
      <2>6. Of(p, buffer') \cup Of(p, pending') = Of(p, buffer) \cup Of(p, pending)
            BY <2>3, <2>4
      <2>7. \A e \in Of(p, buffer'), f \in Of(p, pending') : e.n < f.n
            BY <2>3, <2>4 DEF InOrder
      <2>8. (phase' = "running" \/ p # Main) => Of(p, pending') = {}
            BY <2>1, <2>3 DEF InOrder
      <2> QED BY <1>2, <2>3, <2>5, <2>6, <2>7, <2>8 DEF InOrder
<1> QED BY <1>3, <1>4

\* dispatchEvent() gets the event of p that is next, if it gets one of p.
LEMMA NextOfItsThread ==
    ASSUME TypeOK, NEW p \in Steady, InOrder(p), phase = "running", buffer # <<>>,
           Head(buffer).from = p, Head(buffer) # Input
    PROVE  Head(buffer).n = handled[p] + 1
<1> DEFINE event == Head(buffer)
<1>1. /\ p \in Posters /\ buffer \in Seq(Events) /\ handled[p] \in Nat /\ Added(p) \in Int
      BY OrderTypes
<1>2. /\ Of(p, buffer) = Of(p, Tail(buffer)) \cup {event}
      /\ \A e \in Of(p, Tail(buffer)) : event.n < e.n
      BY <1>1, OfTail DEF InOrder
<1>3. event.n \in Nat /\ handled[p] < event.n /\ event.n <= Added(p)
      BY <1>1, <1>2, OfType DEF InOrder
<1> DEFINE next == [from |-> p, n |-> handled[p] + 1]
<1> HIDE DEF event
<1>4. next \in Of(p, buffer)
      BY <1>1, <1>3 DEF InOrder
<1>5. next.n = handled[p] + 1
      OBVIOUS
<1>6. CASE next = event
      BY <1>5, <1>6 DEF event
<1>7. CASE next # event
      BY <1>1, <1>2, <1>3, <1>4, <1>5, <1>7
<1> QED BY <1>6, <1>7

\* It is dispatched.
LEMMA DispatchStep ==
    ASSUME TypeOK, NEW p \in Steady, InOrder(p), NEW dt \in 0 .. 1, HandleEvent(dt)
    PROVE  InOrder(p)' /\ handled'[p] \in {handled[p], handled[p] + 1}
<1> DEFINE event == Head(buffer)
<1>1. /\ p \in Posters /\ buffer \in Seq(Events) /\ handled[p] \in Nat /\ Added(p) \in Int
      BY OrderTypes
<1>2. /\ phase = "running" /\ buffer # <<>> /\ buffer' = Tail(buffer)
      /\ handled' = IF event = Input THEN handled ELSE [handled EXCEPT ![event.from] = event.n]
      /\ phase' = phase /\ pending' = pending /\ adding' = adding /\ Added(p)' = Added(p)
      BY DEF HandleEvent, postVars, Added
<1>3. handled \in [Posters -> 0 .. MaxPosts]
      BY DEF TypeOK
<1>4. CASE event.from = p /\ event # Input
      <2>1. event.n = handled[p] + 1
            BY <1>2, <1>4, NextOfItsThread
      <2>2. handled'[p] = handled[p] + 1
            BY <1>1, <1>2, <1>3, <1>4, <2>1
      <2>3. /\ Of(p, buffer) = Of(p, buffer') \cup {event}
            /\ Increasing(p, buffer')
            /\ \A e \in Of(p, buffer') : event.n < e.n
            BY <1>1, <1>2, <1>4, OfTail DEF InOrder
      <2>4. Of(p, pending) = {} /\ event.n <= Added(p)
            BY <1>2, <2>3 DEF InOrder
      <2> HIDE DEF event
      <2>5. \A e \in Of(p, buffer') : handled[p] + 1 < e.n /\ e.n <= Added(p)
            BY <2>1, <2>3 DEF InOrder
      <2>6. ASSUME NEW k \in Nat, handled[p] + 1 < k, k <= Added(p)
            PROVE  [from |-> p, n |-> k] \in Of(p, buffer')
            <3>1. [from |-> p, n |-> k] \in Of(p, buffer)
                  BY <1>1, <2>4, <2>6 DEF InOrder
            <3>2. [from |-> p, n |-> k].n # event.n
                  BY <1>1, <2>1, <2>6
            <3> QED BY <2>3, <3>1, <3>2
      <2> QED BY <1>2, <2>1, <2>2, <2>3, <2>4, <2>5, <2>6 DEF InOrder
<1>5. CASE ~(event.from = p /\ event # Input)
      <2>1. handled'[p] = handled[p]
            BY <1>1, <1>2, <1>3, <1>5
      <2>2. Of(p, buffer') = Of(p, buffer) /\ Increasing(p, buffer')
            <3>1. Increasing(p, buffer)
                  BY DEF InOrder
            <3>2. /\ Of(p, buffer) = Of(p, Tail(buffer)) \cup {}
                  /\ Increasing(p, Tail(buffer))
                  BY <1>1, <1>2, <1>5, <3>1, OfTail
            <3> QED BY <1>2, <3>2
      <2> QED BY <1>2, <2>1, <2>2, OthersStep DEF InOrder
<1> QED BY <1>4, <1>5

\* Every step keeps the order of the events of p.
LEMMA OrderStep ==
    ASSUME TypeOK, NEW p \in Steady, InOrder(p), [Next]_vars
    PROVE  InOrder(p)' /\ handled'[p] \in {handled[p], handled[p] + 1}
<1>1. /\ p \in Posters /\ handled[p] \in Nat /\ posted[p] \in Nat
      /\ pending \in Seq(Events) /\ buffer \in Seq(Events)
      /\ p # Main => p \in Threads
      BY OrderTypes
<1>2. /\ posted \in [Posters -> 0 .. MaxPosts] /\ adding \in [Threads -> {"no", "pending", "buffer"}]
      /\ ready = (phase # "starting") /\ Main \notin Threads /\ Main \in Posters
      BY QueueAssumption DEF TypeOK, Posters
<1> DEFINE Goal == InOrder(p)' /\ handled'[p] \in {handled[p], handled[p] + 1}
<1>3. ASSUME UNCHANGED <<buffer, pending, handled>>, phase' = phase \/ phase' # "running",
             Added(p)' = Added(p), p \in Threads => adding'[p] # "pending",
             phase = "running" => phase' = "running"
      PROVE  Goal
      BY <1>3, OthersStep DEF InOrder
<1>4. CASE AddEventInHandler
      <2>1. /\ phase # "flushing" /\ posted[Main] + 1 \in 1 .. MaxPosts
            /\ phase' = phase /\ handled' = handled /\ adding' = adding
            /\ posted' = [posted EXCEPT ![Main] = posted[Main] + 1]
            /\ \/ /\ buffer' = Append(buffer, [from |-> Main, n |-> posted[Main] + 1])
                  /\ pending' = pending /\ phase = "running"
               \/ /\ pending' = Append(pending, [from |-> Main, n |-> posted[Main] + 1])
                  /\ buffer' = buffer /\ phase # "running"
            <3>1. posted[Main] \in 0 .. MaxPosts /\ posted[Main] < MaxPosts /\ MaxPosts \in Nat
                  BY <1>2, <1>4, QueueAssumption DEF AddEventInHandler
            <3>2. phase \in {"starting", "flushing", "running"}
                  BY DEF TypeOK
            <3>3. posted[Main] + 1 \in 1 .. MaxPosts
                  BY <3>1
            <3>4. phase # "flushing" /\ (ready => phase = "running") /\ (~ready => phase # "running")
                  BY <1>2, <1>4, <3>2 DEF AddEventInHandler
            <3> QED BY <1>4, <3>3, <3>4 DEF AddEventInHandler, postVars, timerVars
      <2>2. CASE p = Main
            <3>1. Added(p) = posted[Main] /\ Added(p)' = posted[Main] + 1 /\ p \notin Threads
                  BY <1>2, <2>1, <2>2 DEF Added
            <3>2. phase = "running" => Of(p, pending) = {}
                  BY DEF InOrder
            <3>3. InOrder(p)'
                  BY <2>1, <2>2, <3>1, <3>2, NewEvent
            <3> QED BY <2>1, <3>3
      <2>3. CASE p # Main
            <3> DEFINE event == [from |-> Main, n |-> posted[Main] + 1]
            <3>1. event \in Events /\ event.from # p
                  BY <1>2, <2>1, <2>3, EventType
            <3> HIDE DEF event
            <3>2. /\ Of(p, buffer') = Of(p, buffer) /\ Of(p, pending') = Of(p, pending)
                  /\ Increasing(p, buffer') /\ Increasing(p, pending')
                  <4>1. Increasing(p, buffer) /\ Increasing(p, pending)
                        BY DEF InOrder
                  <4> QED BY <1>1, <2>1, <3>1, <4>1, OtherAppend DEF event
            <3>3. Added(p)' = Added(p)
                  BY <1>1, <1>2, <2>1, <2>3 DEF Added
            <3> QED BY <2>1, <3>2, <3>3, OthersStep DEF InOrder
      <2> QED BY <2>2, <2>3
<1>5. ASSUME NEW r \in Threads, BeginAddEvent(r) PROVE Goal
      <2>1. /\ UNCHANGED <<buffer, pending, handled, phase>>
            /\ adding[r] = "no" /\ (ready \/ r \in EarlyThreads)
            /\ posted' = [posted EXCEPT ![r] = posted[r] + 1]
            /\ adding' = [adding EXCEPT ![r] = IF ready THEN "buffer" ELSE "pending"]
            BY <1>5 DEF BeginAddEvent, timerVars
      <2>2. p \in Threads => adding'[p] # "pending"
            BY <1>2, <2>1 DEF Steady, InOrder
      <2>3. Added(p)' = Added(p)
            <3>1. CASE p = r
                  <4>1. Added(p) = posted[p] /\ adding'[p] # "no" /\ posted'[p] = posted[p] + 1
                        BY <1>1, <1>2, <2>1, <3>1 DEF Added
                  <4>2. Added(p)' = (posted[p] + 1) - 1
                        BY <3>1, <4>1 DEF Added
                  <4> QED BY <1>1, <4>1, <4>2
            <3>2. CASE p # r
                  BY <1>1, <1>2, <2>1, <3>2 DEF Added
            <3> QED BY <3>1, <3>2
      <2> QED BY <1>3, <2>1, <2>2, <2>3
<1>6. ASSUME NEW r \in Threads, EndAddEvent(r) PROVE Goal
      <2> DEFINE event == [from |-> r, n |-> posted[r]]
      <2>1. /\ UNCHANGED <<handled, phase, posted>>
            /\ adding[r] # "no" /\ adding' = [adding EXCEPT ![r] = "no"]
            /\ \/ adding[r] = "buffer" /\ buffer' = Append(buffer, event) /\ pending' = pending
               \/ adding[r] # "buffer" /\ pending' = Append(pending, event) /\ buffer' = buffer
            BY <1>6 DEF EndAddEvent, timerVars
      <2>2. CASE p = r
            <3>1. adding[p] = "buffer" /\ p # Main /\ Of(p, pending) = {} /\ adding'[p] # "pending"
                  BY <1>2, <2>1, <2>2 DEF InOrder
            <3>2. Added(p) = posted[p] - 1 /\ Added(p)' = posted[p]
                  BY <1>1, <1>2, <2>1, <2>2 DEF Added
            <3>3. posted[p] \in 1 .. MaxPosts /\ posted[p] = Added(p) + 1
                  <4>1. handled[p] <= posted[p] - 1 /\ posted[p] \in 0 .. MaxPosts /\ MaxPosts \in Nat
                        BY <1>1, <1>2, <3>2, QueueAssumption DEF InOrder
                  <4> QED BY <1>1, <3>2, <4>1, SMTT(30)
            <3>4. buffer' = Append(buffer, [from |-> p, n |-> posted[p]]) /\ pending' = pending
                  BY <2>1, <2>2, <3>1
            <3>5. InOrder(p)'
                  BY <2>1, <3>1, <3>2, <3>3, <3>4, NewEvent
            <3> QED BY <2>1, <3>5
      <2>3. CASE p # r
            <3>1. event \in Events /\ event.from # p
                  BY <1>2, <2>3, EventType DEF Posters
            <3> HIDE DEF event
            <3>2. /\ Of(p, buffer') = Of(p, buffer) /\ Of(p, pending') = Of(p, pending)
                  /\ Increasing(p, buffer') /\ Increasing(p, pending')
                  <4>1. Increasing(p, buffer) /\ Increasing(p, pending)
                        BY DEF InOrder
                  <4> QED BY <1>1, <2>1, <3>1, <4>1, OtherAppend
            <3>3. Added(p)' = Added(p) /\ (p \in Threads => adding'[p] = adding[p])
                  BY <1>1, <1>2, <2>1, <2>3 DEF Added
            <3> QED BY <2>1, <3>2, <3>3, OthersStep DEF InOrder
      <2> QED BY <2>2, <2>3
<1>7. CASE PlatformInput
      <2>1. /\ buffer' = Append(buffer, Input)
            /\ UNCHANGED <<phase, pending, posted, adding, handled>>
            BY <1>7 DEF PlatformInput, postVars
      <2>2. Of(p, buffer') = Of(p, buffer) /\ Increasing(p, buffer')
            <3>1. Increasing(p, buffer)
                  BY DEF InOrder
            <3> QED BY <1>1, <2>1, <3>1, InputType, OtherAppend
      <2>3. Added(p)' = Added(p)
            BY <2>1 DEF Added
      <2> QED BY <2>1, <2>2, <2>3, OthersStep DEF InOrder
<1>8. CASE FlushPending
      BY <1>8, FlushStep DEF FlushPending
<1>9. ASSUME NEW dt \in 0 .. 1, HandleEvent(dt) PROVE Goal
      BY <1>9, DispatchStep
<1>10. ASSUME UNCHANGED <<buffer, pending, handled, posted, adding>>,
              phase' = phase \/ phase' # "running", phase = "running" => phase' = "running"
       PROVE  Goal
      <2>1. Added(p)' = Added(p)
            BY <1>10 DEF Added
      <2> QED BY <1>3, <1>10, <2>1 DEF InOrder
<1>11. CASE SetReady
      BY <1>10, <1>11 DEF SetReady, postVars
<1>12. ASSUME NEW dt \in 0 .. 1, HandleTimer(dt) PROVE Goal
      BY <1>10, <1>12 DEF HandleTimer, postVars
<1>13. CASE Wait \/ UNCHANGED vars
      BY <1>10, <1>13 DEF Wait, vars, postVars
<1>14. ASSUME NEW t \in Timers, NewTimer(t) \/ DeleteTimer(t) PROVE Goal
      BY <1>10, <1>14 DEF NewTimer, DeleteTimer, postVars
<1> QED BY <1>4, <1>5, <1>6, <1>7, <1>8, <1>9, <1>11, <1>12, <1>13, <1>14
        DEF Next, Loop, Turn

\* Nothing is queued at first.
LEMMA OrderInit == Init => OrderInv
<1> SUFFICES ASSUME Init, NEW p \in Steady PROVE InOrder(p)
    BY DEF OrderInv
<1>1. /\ Of(p, buffer) = {} /\ Of(p, pending) = {}
      /\ Increasing(p, buffer) /\ Increasing(p, pending)
      BY OfEmpty DEF Init
<1>2. handled[p] = 0 /\ Added(p) = 0 /\ (p \in Threads => adding[p] = "no")
      BY DEF Init, Added, Steady
<1> QED BY <1>1, <1>2 DEF InOrder

\* The events of every thread that adds none before the loop is ready are
\* dispatched in the order in which it added them, and none is skipped, whatever the
\* threads that do add some early.  (addEvent, loop, getEvent, dispatchEvent.)
THEOREM SteadyInOrder == Spec => HandledInOrder
<1>1. Init => TypeOK /\ OrderInv
      BY QueueTypeInit, OrderInit
<1>2. TypeOK /\ OrderInv /\ [Next]_vars
          => /\ TypeOK' /\ OrderInv'
             /\ [\A p \in Steady : handled'[p] \in {handled[p], handled[p] + 1}]_vars
      BY QueueTypeStep, OrderStep DEF OrderInv
<1> QED BY <1>1, <1>2, PTL DEF Spec, HandledInOrder

=============================================================================
